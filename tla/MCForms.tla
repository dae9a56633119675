------------------------------ MODULE MCForms ------------------------------
(***************************************************************************)
(* The pure algorithms of the system, each asked about every small input:  *)
(* a state is one question.                                                *)
(***************************************************************************)
EXTENDS RequestForms, Query, Verify, Questions

-----------------------------------------------------------------------------
Field(name, value) ==
    [name |-> name, value |-> value, long |-> FALSE, wellFormed |-> TRUE]
SomeFields ==
    {Field("host", "ok"), Field("host", "bad"), Field("content-length", 3),
     Field("content-length", 0), Field("content-length", -413),
     Field("transfer-encoding", "chunked"), Field("expect", "100-continue"),
     Field("connection", "close"), Field("other", "x"),
     [Field("other", "x") EXCEPT !.wellFormed = FALSE]}

HeadQuestions ==
    \/ Ask("fields", SeqOf(SomeFields, 3))
    \/ Ask("length", SeqOf({0, 1, 2, 5, 6, 9}, 4))
    \/ Ask("host", SeqOf({"a", "1", ":", "[", "]", "@"}, 4))
    \/ Ask("escapes", SeqOf({"%", "0", "2", "5", "a"}, 5))

\* The parser of heads: fields two readers cannot disagree on, lengths that are
\* the number written or refused, hosts and escapes as their grammar has them.
HeadFormsAgree ==
    CASE probe.form = "fields"  -> FieldsAgree(probe.input, 2)
      [] probe.form = "length"  -> LengthAgrees(probe.input, 3, 8)
      [] probe.form = "host"    -> HostAgrees(probe.input)
      [] probe.form = "escapes" -> EscapesAgree(probe.input)
      [] OTHER -> TRUE

-----------------------------------------------------------------------------
Bounds == [output |-> 6, after |-> 3, ratio |-> 3]
Containers ==
    [length : {17, 18, 20, 22}, magic : BOOLEAN, extra : {0, 2}, name : {0, 2},
     terminated : BOOLEAN, check : {0, 2}, stream : {0, 1, 2, 4}, crc : BOOLEAN,
     size : {TRUE}]

InflateQuestions ==
    \/ Ask("code", SeqOf(0..MaxCodeLength, 5))
    \/ Ask("expand", SeqOf({<<"length", 1>>, <<"length", 3>>, <<"last", 3>>,
                                  <<"zero", 3>>}, 4))
    \/ Ask("copies", SeqOf({<<"literal", "a">>, <<"literal", "b">>,
                                  <<"copy", 3, 1>>, <<"copy", 3, 2>>, <<"copy", 3, 4>>}, 4))
    \/ Ask("gzip", Containers)

\* The decoder of compressed bodies: codes without ambiguity and without words
\* that mean nothing, tables that stay in their bounds, copies that may overlap,
\* and containers with no byte unaccounted for.
InflateAgrees ==
    CASE probe.form = "code"   -> CodesAgree(probe.input)
      [] probe.form = "expand" -> ExpandAgrees(probe.input, 5)
      [] probe.form = "copies" -> CopiesAgree(probe.input, Bounds)
      [] probe.form = "gzip"   -> ContainerAgrees(probe.input)
      [] OTHER -> TRUE

-----------------------------------------------------------------------------
\* Records of a small graph: every choice of edges among three records in up to
\* three runs, a note among them or not, split over two segments.
GraphRecord(id, run, parentRun, causes, note) ==
    [id |-> id, run |-> run, parentRun |-> parentRun, causes |-> causes, at |-> id,
     severity |-> id % 2, note |-> note]
Graphs3 ==
    {<<GraphRecord(1, 1, p, c, FALSE), GraphRecord(2, r, q, d, n), GraphRecord(3, 3, t, e, FALSE)>> :
       r \in {1, 2}, p \in {0, 2, 3}, q \in {0, 1, 3}, t \in {0, 1}, n \in BOOLEAN,
       c \in {<<>>, <<2>>, <<3, 2>>, <<7>>}, d \in {<<>>, <<1>>, <<3>>}, e \in {<<>>, <<2>>}}
SomeQueries ==
    {[dimension |-> d, lo |-> l, hi |-> h, filters |-> f, asOf |-> a] :
       d \in {"recorded_at", "run_id", "id"}, l \in 1..2, h \in 1..3, a \in {1, 2, Forever},
       f \in {<<>>, <<[on |-> "severity", value |-> 1]>>,
              <<[on |-> "min_severity", value |-> 0], [on |-> "verdict", value |-> TRUE]>>}}
QuerySegments ==
    {<<GraphRecord(1, 1, 0, <<>>, FALSE), GraphRecord(2, r, 0, <<>>, n), GraphRecord(3, 2, 0, <<>>, FALSE)>> :
       r \in 1..3, n \in BOOLEAN}

QueryQuestions ==
    \/ Ask("query", QuerySegments \X SomeQueries)
    \/ Ask("reconstruct", Graphs3 \X (1..2) \X {<<20, 20>>, <<2, 20>>, <<20, 2>>})

\* The read surface: an answer is exactly what was asked for and says what of it
\* is proved; a reconstruction is the closure of the edges, or says it is short.
QueriesAgree ==
    CASE probe.form = "query" -> QueryAgrees(probe.input[1], probe.input[2])
      [] probe.form = "reconstruct" ->
            LET g == probe.input[1] b == probe.input[3] IN
            ReconstructionAgrees(<<SubSeq(g, 1, 2), SubSeq(g, 3, 3)>>, probe.input[2],
                                 [hops |-> b[1], records |-> b[2]])
      [] OTHER -> TRUE

-----------------------------------------------------------------------------
TimedRecord(at, i) == [at |-> at, seq |-> i, link |-> i]
Timed(times) == [i \in DOMAIN times |-> TimedRecord(times[i], i)]
Stores ==
    {<<<<SealSegmentOf(1, Timed(<<a, 2>>)), SealSegmentOf(1, <<>>)>>,
       <<SealSegmentOf(2, <<TimedRecord(b, 7)>>), SealSegmentOf(2, <<TimedRecord(c, 8)>>)>>>> :
       a, b, c \in 1..3}

IndexQuestions ==
    \/ Ask("inclusion", {<<n, i>> \in (1..6) \X (0..5) : i < n})
    \/ Ask("consistency", {<<m, n>> \in (1..6) \X (1..6) : m <= n})
    \/ Ask("completeness", {<<>>, <<1>>, <<2, 1>>, <<1, 1>>, <<2, 1, 3>>, <<1, 2, 2>>}
                                    \X (1..3) \X (1..3))
    \/ Ask("composition", Stores \X {1, 2} \X {1, 2})

\* Proofs over the sealed store: what is included, what only grew, what is all
\* of a range, and what is all of a store, whatever somebody claims instead.
IndexAgrees ==
    CASE probe.form = "inclusion"    -> InclusionAgrees(probe.input[1], probe.input[2])
      [] probe.form = "consistency"  -> ConsistencyAgrees(probe.input[1], probe.input[2])
      [] probe.form = "completeness" ->
            CompletenessAgrees(Timed(probe.input[1]), probe.input[2], probe.input[3])
      [] probe.form = "composition"  ->
            CompositionAgrees(probe.input[1], probe.input[2], probe.input[3])
      [] OTHER -> TRUE

-----------------------------------------------------------------------------
PackRecord(seq, at) == [seq |-> seq, at |-> at, agent |-> at % 2, decodes |-> TRUE]
PackHistory == <<<<PackRecord(1, 1), PackRecord(2, 1)>>, <<PackRecord(1, 2)>>, <<PackRecord(1, 3)>>>>
PackDimensions == <<"recorded_at", "agent_id", "other">>
PartOf(shard, history, start) ==
    [shard |-> shard, records |-> history,
     manifests |-> ManifestsFrom(shard, 1, start, history, PackDimensions)]
SignedBy(key, header) ==
    LET s == [kind |-> "signature", whole |-> TRUE, algorithm |-> "es384", key |-> key,
              signature |-> <<>>]
    IN  [s EXCEPT !.signature = <<key, RootStatement(header, s)>>]
PackParts == <<PartOf(1, <<<<PackRecord(1, 1), PackRecord(2, 1)>>, <<>>>>, <<"j1">>),
               PartOf(2, <<<<PackRecord(1, 2)>>>>, <<"j2">>)>>
UnsignedPack == BuildPack("t", 2, <<>>, <<>>, <<>>, PackParts)
HonestPack == BuildPack("t", 2, <<SignedBy("p", UnsignedPack[1])>>, <<>>, <<>>, PackParts)

\* One or two alterations of the sections, some with a manifest made to fit.
OtherSections ==
    ToSet(HonestPack)
      \cup {RecordSection(s, g, r) : s \in {1, 3}, g \in {1, 3},
                                     r \in {<<>>, <<PackRecord(1, 1)>>, <<PackRecord(2, 1), PackRecord(1, 1)>>}}
      \cup {ManifestOf(3, 1, <<"j3">>, <<PackRecord(1, 1)>>, PackDimensions),
            [HonestPack[5] EXCEPT !.records = 0, !.history = EmptyRoot, !.first = 0, !.last = 0],
            [kind |-> "unknown", whole |-> TRUE], [kind |-> "end", whole |-> TRUE]}
AlteredPacks ==
    LET Once(pack) == {RemoveAt(pack, i) : i \in DOMAIN pack}
                        \cup {ReplaceAt(pack, i, s) : i \in DOMAIN pack, s \in OtherSections}
                        \cup {InsertAt(pack, i, s) : i \in {3, Len(pack), Len(pack) + 1}, s \in OtherSections}
    IN  UNION {Once(RemoveAt(HonestPack, i)) : i \in {2, 6}} \cup Once(HonestPack)

\* Histories sealed anew with segments left out, and with one cut short.
ResealedParts ==
    LET honest == PartOf(1, PackHistory, <<"j1">>).manifests
        Fit(m, n, records, after) ==
            [ManifestOf(1, n, m.before, records, PackDimensions) EXCEPT !.after = after]
        Shortened(all, way) == CASE way = "none" -> <<>> [] way = "first" -> <<all[1]>>
                                 [] way = "rest" -> Tail(all)
        Part(keep, cut, records, kept) ==
            LET order == SetToSortSeq(keep, LAMBDA a, b : a < b)
                body  == [i \in DOMAIN order |->
                            IF order[i] = cut THEN Shortened(PackHistory[cut], records)
                            ELSE PackHistory[order[i]]]
            IN  [shard |-> 1, records |-> body,
                 manifests |-> [i \in DOMAIN order |->
                     LET m == honest[order[i]] IN
                     Fit(m, i, body[i], IF kept THEN m.after
                                        ELSE ManifestOf(1, i, m.before, body[i], PackDimensions).after)]]
    IN  {Part(k, c, r, b) : k \in SUBSET (1..3), c \in 0..3, b \in BOOLEAN,
                            r \in {"none", "first", "rest"}}

WitnessOf(key, algorithm, at, root, good) ==
    LET w == [kind |-> "witness", whole |-> TRUE, name |-> "w", at |-> at, algorithm |-> algorithm,
              key |-> key, signature |-> <<>>]
    IN  [w EXCEPT !.signature = IF good THEN <<key, WitnessStatement(root, w)>> ELSE <<>>]
SomeWitnesses(root) ==
    SeqOf({WitnessOf(k, a, 2, root, g) : k \in {"p", "w"}, a \in {"es384", "new"}, g \in BOOLEAN}, 2)
SomeAnchors(root) ==
    SeqOf({[kind |-> "anchor", whole |-> TRUE, type |-> t, authority |-> "a", root |-> root,
            challenge |-> c, readable |-> r, imprint |-> LeafHash(i), nonce |-> n, at |-> 1] :
              t \in {"tsp", "log"}, c \in {0, 1}, r \in BOOLEAN, i \in {root, <<"other">>}, n \in {1, 2}}, 1)
WitnessedPacks ==
    LET root == HonestPack[1].root IN
    {BuildPack("t", 2, s, w, a, PackParts) :
       s \in {<<>>, <<SignedBy("p", HonestPack[1])>>}, w \in SomeWitnesses(root), a \in SomeAnchors(root)}

PackQuestions ==
    \/ Ask("altered", AlteredPacks)
    \/ Ask("resealed", ResealedParts)
    \/ Ask("witnessed", WitnessedPacks)

\* Evidence packs: the records a verified pack holds are those its root is of, a
\* history sealed anew has no hole, and nobody is said to have seen a root who
\* did not, or who is its publisher.
PacksAgree ==
    CASE probe.form = "altered"   -> PackIsBound(HonestPack, probe.input)
      [] probe.form = "resealed"  -> HistoryIsUnbroken(PackHistory, probe.input)
      [] probe.form = "witnessed" -> IndependenceIsReal(probe.input)
      [] OTHER -> TRUE
=============================================================================
