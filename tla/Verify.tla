------------------------------- MODULE Verify -------------------------------
(***************************************************************************)
(* Evidence packs: how a store writes one, how the verifier reads it, and  *)
(* every check the verifier makes.                                         *)
(*                                                                         *)
(* A pack is the sequence of its sections.  A section's fields stand for   *)
(* its body; whole is FALSE for a body cut short or with bytes left over.  *)
(* A record's bytes are the fields the verifier reads from them, decodes   *)
(* is FALSE for bytes it cannot walk.  A signature is the pair of the key  *)
(* and the statement it was made over.  A report is the set of its         *)
(* findings, <<level, check>>.                                             *)
(***************************************************************************)
EXTENDS Index

ZeroHead == <<"zero">>
ChainStep(prev, record) == <<5, prev, record.seq, record>>
PackManifestRoot(m) ==
    <<3, m.version, m.segment, m.shard, m.records, m.history, m.before, m.after,
      m.indexes, m.first, m.last, m.algorithms>>
KeyId(key) == <<6, key>>

Note(check) == <<"note", check>>
Weak(check) == <<"weak", check>>
Broken(check) == <<"broken", check>>
Verified(report) == \A f \in report : f[1] # "broken"

BrokenUnless(holds, check) == IF holds THEN {} ELSE {Broken(check)}

-----------------------------------------------------------------------------
(* The writer.                                                             *)

\* Links of a run of records, from the head before them.
RECURSIVE LinksFrom(_, _)
LinksFrom(head, records) ==
    IF records = <<>> THEN <<>>
    ELSE LET l == ChainStep(head, Head(records)) IN <<l>> \o LinksFrom(l, Tail(records))

\* key_for: the dimensions this verifier can rebuild.
KnownDimensions == {"recorded_at", "agent_id"}
KeyFor(dimension, record) == IF dimension = "recorded_at" THEN record.at ELSE record.agent

IndexEntries(dimension, records, links) ==
    SortSeq([i \in DOMAIN records |-> [key |-> KeyFor(dimension, records[i]),
                                       seq |-> records[i].seq, link |-> links[i]]], Before)

Times(records) == {r.at : r \in ToSet(records)}
EarliestOf(records) == IF records = <<>> THEN 0 ELSE CHOOSE t \in Times(records) : \A u \in Times(records) : t <= u
LatestOf(records) == IF records = <<>> THEN 0 ELSE CHOOSE t \in Times(records) : \A u \in Times(records) : t >= u

\* A sealed segment's manifest.
ManifestOf(shard, number, before, records, dimensions) ==
    LET links == LinksFrom(before, records) IN
    [kind |-> "segment", whole |-> TRUE, version |-> 1, segment |-> number, shard |-> shard,
     records |-> Len(records),
     history |-> Mth([i \in DOMAIN links |-> LeafHash(links[i])]),
     before |-> before, after |-> IF links = <<>> THEN before ELSE Last(links),
     indexes |-> [i \in DOMAIN dimensions |->
                    <<dimensions[i], Mth(IndexLeaves(IndexEntries(dimensions[i], records, links)))>>],
     first |-> EarliestOf(records), last |-> LatestOf(records), algorithms |-> <<1, 1, 1>>]

\* Manifests of the segments of a shard, each starting where the last ended.
RECURSIVE ManifestsFrom(_, _, _, _, _)
ManifestsFrom(shard, number, before, segments, dimensions) ==
    IF segments = <<>> THEN <<>>
    ELSE LET m == ManifestOf(shard, number, before, Head(segments), dimensions) IN
         <<m>> \o ManifestsFrom(shard, number + 1, m.after, Tail(segments), dimensions)

RecordSection(shard, segment, records) ==
    [kind |-> "records", whole |-> TRUE, shard |-> shard, segment |-> segment, records |-> records]
RootOfManifests(manifests) == Mth([i \in DOMAIN manifests |-> LeafHash(PackManifestRoot(manifests[i]))])
ShardSection(shard, manifests) ==
    [kind |-> "shard", whole |-> TRUE, shard |-> shard, segments |-> Len(manifests),
     root |-> RootOfManifests(manifests)]
StoreRootOf(shards) ==
    Mth([i \in DOMAIN shards |-> ShardLeaf(shards[i].shard, shards[i].segments, shards[i].root)])

HeaderSection(tenant, at, shards) ==
    [kind |-> "header", whole |-> TRUE, tenant |-> tenant, at |-> at, root |-> StoreRootOf(shards),
     shards |-> Len(shards), algorithms |-> <<1, 1, 1>>]

\* PackBuilder::build.  A part is a shard's manifests with the records of each.
BuildPack(tenant, at, signatures, witnesses, anchors, parts) ==
    LET shards == [i \in DOMAIN parts |-> ShardSection(parts[i].shard, parts[i].manifests)]
        BodiesOf(p) == FlattenSeq([i \in DOMAIN p.manifests |->
                        <<p.manifests[i],
                          RecordSection(p.manifests[i].shard, p.manifests[i].segment, p.records[i])>>])
    IN  <<HeaderSection(tenant, at, shards)>> \o signatures \o witnesses \o anchors \o shards
          \o FlattenSeq([i \in DOMAIN parts |-> BodiesOf(parts[i])])
          \o <<[kind |-> "end", whole |-> TRUE]>>

-----------------------------------------------------------------------------
(* The reader.                                                             *)

SectionKinds == {"header", "shard", "segment", "records", "signature", "witness", "anchor"}

\* Two sections of one kind that say who they are in the same way.
SameSubject(a, b) ==
    /\ a.kind = b.kind
    /\ \/ a.kind = "shard" /\ a.shard = b.shard
       \/ a.kind \in {"segment", "records"} /\ a.shard = b.shard /\ a.segment = b.segment
       \/ a.kind = "anchor" /\ a.authority = b.authority /\ a.type = b.type
            /\ a.challenge = b.challenge

OfKind(sections, kind) == SelectSeq(sections, LAMBDA s : s.kind = kind)
LatestSection(sections, kind) ==
    LET all == OfKind(sections, kind) IN IF all = <<>> THEN {} ELSE {Last(all)}

\* Pack::parse: up to the first end section; what follows it is not read.
BeforeEnd(sections) ==
    LET ends == {i \in DOMAIN sections : sections[i].kind = "end"} IN
    SubSeq(sections, 1, (CHOOSE i \in ends : \A j \in ends : i <= j) - 1)
ParseFails(sections) ==
    \/ \A i \in DOMAIN sections : sections[i].kind # "end"
    \/ LET read == BeforeEnd(sections) IN
       \/ \E i \in DOMAIN read : read[i].kind \notin SectionKinds \/ ~read[i].whole
       \/ \E i, j \in DOMAIN read : i < j /\ SameSubject(read[i], read[j])
       \/ LatestSection(read, "header") = {}
ParsePack(sections) ==
    LET read == BeforeEnd(sections) IN
    [header |-> CHOOSE h \in LatestSection(read, "header") : TRUE,
     signature |-> LatestSection(read, "signature"), witnesses |-> OfKind(read, "witness"),
     anchors |-> OfKind(read, "anchor"), shards |-> OfKind(read, "shard"),
     segments |-> OfKind(read, "segment"), sets |-> OfKind(read, "records")]

-----------------------------------------------------------------------------
(* The checks.                                                             *)

CheckAlgorithms(p) ==
    (IF p.header.algorithms[1] # 1 THEN {Weak("hash-algorithm")} ELSE {})
      \cup (IF p.header.algorithms[2] = 3 THEN {Note("signature-algorithm")} ELSE {})
      \cup (IF p.header.algorithms[3] # 1 THEN {Weak("kem-algorithm")} ELSE {})
      \cup (IF \E s \in ToSet(p.segments) : s.algorithms # p.header.algorithms
            THEN {Note("mixed-algorithms")} ELSE {})

RootStatement(header, s) ==
    <<"root", header.tenant, header.root, header.shards, header.at, s.algorithm, s.key>>
WitnessStatement(root, w) == <<"witness", w.name, root, w.at, w.algorithm, w.key>>

\* check_one: one algorithm is known, any other is unchecked, never bad.
CheckOne(s, statement) ==
    IF s.algorithm # "es384" THEN "unknown"
    ELSE IF s.signature = <<s.key, statement>> THEN "good" ELSE "bad"

\* check_anchors, one anchor: the findings, and whether the token is over this
\* root.  A token stamps the digest of a root, here its leaf hash; a challenge or a
\* nonce that is absent is 0.
AnchorBinds(p, a) ==
    /\ a.root = p.header.root /\ a.type = "tsp" /\ a.readable
    /\ a.imprint = LeafHash(a.root)
    /\ a.challenge # 0 /\ a.nonce # 0 => a.challenge = a.nonce
AnchorFindings(p, a) ==
    IF a.root # p.header.root THEN {Broken("anchor")}
    ELSE IF a.type # "tsp" THEN {Weak("anchor")}
    ELSE IF ~AnchorBinds(p, a) THEN {Broken("anchor")}
    ELSE {Note("anchor"), Weak("anchor-signature")}
           \cup (IF a.challenge = 0 \/ a.nonce = 0 THEN {Weak("anchor-freshness")} ELSE {})
           \cup (IF a.at < p.header.at THEN {Weak("anchor-clock")} ELSE {})

\* The witnesses that count: good, not the publisher's key, not a key seen before.
CountsAsWitness(p, publisher, i) ==
    LET w == p.witnesses[i] IN
    /\ CheckOne(w, WitnessStatement(p.header.root, w)) = "good"
    /\ KeyId(w.key) \notin publisher
    /\ \A j \in 1..(i - 1) : KeyId(p.witnesses[j].key) # KeyId(w.key)

WitnessFindings(p, publisher, i) ==
    LET w == p.witnesses[i] IN
    {CASE CheckOne(w, WitnessStatement(p.header.root, w)) = "good" -> Note("witness")
       [] CheckOne(w, WitnessStatement(p.header.root, w)) = "bad" -> Broken("witness")
       [] OTHER -> Weak("witness")}
      \cup (IF \/ KeyId(w.key) \in publisher
               \/ \E j \in 1..(i - 1) : KeyId(p.witnesses[j].key) = KeyId(w.key)
            THEN {Weak("witness-independence")} ELSE {})
      \cup (IF w.at < p.header.at THEN {Weak("witness-clock")} ELSE {})

CheckWitnesses(p, publisher) ==
    UNION {AnchorFindings(p, a) : a \in ToSet(p.anchors)}
      \cup UNION {WitnessFindings(p, publisher, i) : i \in DOMAIN p.witnesses}
      \cup (IF /\ \A i \in DOMAIN p.witnesses : ~CountsAsWitness(p, publisher, i)
               /\ \A a \in ToSet(p.anchors) : ~AnchorBinds(p, a)
            THEN {Weak("witnesses")} ELSE {})

CheckSignature(p) ==
    IF p.signature = {} THEN {Weak("root-signature")} \cup CheckWitnesses(p, {})
    ELSE LET s == CHOOSE s \in p.signature : TRUE
             c == CheckOne(s, RootStatement(p.header, s))
         IN  {CASE c = "good" -> Note("root-signature")
                [] c = "bad" -> Broken("root-signature")
                [] OTHER -> Weak("root-signature")}
               \cup CheckWitnesses(p, {KeyId(s.key)})

\* check_index: the dimension rebuilt from the records, unless it is not known.
CheckIndex(index, records, links) ==
    IF index[1] \notin KnownDimensions
    THEN IF records = <<>> THEN BrokenUnless(index[2] = EmptyRoot, "index-root")
         ELSE {Weak("index-dimension")}
    ELSE LET entries == IndexEntries(index[1], records, links) IN
         IF HasDuplicatePosition(entries) THEN {Broken("index-strictly-sorted")}
         ELSE BrokenUnless(Mth(IndexLeaves(entries)) = index[2], "index-root")

SequenceContiguous(records) == \A i \in DOMAIN records : records[i].seq = i

\* check_segment.
ChainCloses_UnlessEmpty(m, links) == links # <<>> => Last(links) = m.after
ChainCloses(m, links) == (IF links = <<>> THEN m.before ELSE Last(links)) = m.after
CheckSegment(p, m) ==
    LET sets == {s \in ToSet(p.sets) : s.shard = m.shard /\ s.segment = m.segment} IN
    IF sets = {} THEN {Broken("records-present")}
    ELSE LET records == (CHOOSE s \in sets : TRUE).records
             links   == LinksFrom(m.before, records)
         IN  BrokenUnless(Len(records) = m.records, "record-count")
               \cup IF \E r \in ToSet(records) : ~r.decodes THEN {Broken("record-decodes")}
                    ELSE BrokenUnless(SequenceContiguous(records), "sequence-contiguous")
                      \cup BrokenUnless(ChainCloses(m, links), "chain-within-segment")
                      \cup BrokenUnless(Mth([i \in DOMAIN links |-> LeafHash(links[i])]) = m.history,
                                        "history-root")
                      \cup BrokenUnless(m.first = EarliestOf(records) /\ m.last = LatestOf(records),
                                        "time-span")
                      \cup UNION {CheckIndex(ix, records, links) : ix \in ToSet(m.indexes)}

SegmentsOf(p, shard) ==
    SortSeq(SelectSeq(p.segments, LAMBDA m : m.shard = shard), LAMBDA a, b : a.segment < b.segment)

\* One shard of verify.
CheckShard(p, shard) ==
    LET segments == SegmentsOf(p, shard.shard) IN
    BrokenUnless(Len(segments) = shard.segments, "segment-count")
      \cup BrokenUnless(\A i \in DOMAIN segments : segments[i].segment = i, "segment-numbering")
      \cup (IF segments = <<>> THEN {}
            ELSE {IF segments[1].before = ZeroHead THEN Broken("first-segment-start")
                  ELSE Note("first-segment-start")})
      \cup UNION {CheckSegment(p, m) : m \in ToSet(segments)}
      \cup BrokenUnless(\A i \in 2..Len(segments) : segments[i - 1].after = segments[i].before,
                        "chain-across-segments")
      \cup BrokenUnless(RootOfManifests(segments) = shard.root, "shard-root")

Listed(p) == {s.shard : s \in ToSet(p.shards)}

\* verify: a pack that cannot be read is broken as a whole.
VerifyPack(sections) ==
    IF ParseFails(sections) THEN {Broken("pack")}
    ELSE LET p == ParsePack(sections) IN
         CheckAlgorithms(p) \cup CheckSignature(p)
           \cup BrokenUnless(Len(p.shards) = p.header.shards, "shard-count")
           \cup UNION {CheckShard(p, s) : s \in ToSet(p.shards)}
           \cup BrokenUnless(StoreRootOf(p.shards) = p.header.root, "store-root")
           \cup BrokenUnless(\A m \in ToSet(p.segments) : m.shard \in Listed(p), "orphan-segment")
           \cup BrokenUnless(\A s \in ToSet(p.sets) :
                                \E m \in ToSet(p.segments) : /\ m.shard \in Listed(p)
                                                             /\ m.shard = s.shard
                                                             /\ m.segment = s.segment,
                             "orphan-records")

-----------------------------------------------------------------------------
(* What an auditor may conclude.                                           *)

\* What a reader of the pack finds in it.
Contents(sections) ==
    {<<s.shard, s.segment, s.records>> : s \in ToSet(ParsePack(sections).sets)}
RootIn(sections) == ParsePack(sections).header.root

\* A pack as a store writes it verifies; and a pack that verifies under the root
\* of that one holds the same records, whatever was done to its sections.
PackIsBound(honest, claimed) ==
    /\ Verified(VerifyPack(honest))
    /\ /\ Verified(VerifyPack(claimed))
       /\ RootIn(claimed) = RootIn(honest)
       => Contents(claimed) = Contents(honest)

\* A publisher who drops segments or records and seals again, every root computed
\* anew over the heads the history had, can only shorten it at its ends: what
\* verifies starts with a segment of the history and has no hole.
HistoryIsUnbroken(history, part) ==
    Verified(VerifyPack(BuildPack("t", 1, <<>>, <<>>, <<>>, <<part>>))) =>
        \E a \in 1..(Len(history) + 1) :
           IsPrefix(FlattenSeq(part.records), FlattenSeq(SubSeq(history, a, Len(history))))

\* Somebody is said to have seen the root only when somebody other than the
\* publisher did: a good attestation under another key, or a token over this root.
IndependenceIsReal(sections) ==
    LET report == VerifyPack(sections)
        p == ParsePack(sections)
    IN  ~ParseFails(sections) /\ Verified(report) /\ Weak("witnesses") \notin report =>
          \/ \E w \in ToSet(p.witnesses) :
                /\ w.signature = <<w.key, WitnessStatement(p.header.root, w)>>
                /\ \A s \in p.signature : s.key # w.key
          \/ \E a \in ToSet(p.anchors) :
                a.type = "tsp" /\ a.readable /\ a.imprint = LeafHash(p.header.root)
=============================================================================
