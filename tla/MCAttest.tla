------------------------------ MODULE MCAttest ------------------------------
(***************************************************************************)
(* What attestations are made of: DER headers and bodies over a byte of    *)
(* eight values and times, moduli of up to three limbs of two bits, and    *)
(* timestamp tokens altered in every one place; and what peers send:       *)
(* records on the wire, streams, and fans of up to two peers.              *)
(***************************************************************************)
EXTENDS Federation, Questions

CONSTANTS Half, WordBytes, HighTag,   \* of Der
          LimbBits, MaxLimbs          \* of Montgomery

D == INSTANCE Der
M == INSTANCE Montgomery
T == INSTANCE Timestamp

-----------------------------------------------------------------------------
\* Every header of three bytes before a filling that is too short, exact or too
\* long, every short body, and days round the ends of months, years and centuries.
DerQuestions ==
    \/ Ask("tlv", (0..7) \X (0..7) \X (0..7) \X (0..7) \X (0..10))
    \/ Ask("body", UNION {[1..n -> 0..7] : n \in 0..4})
    \/ Ask("time", {0, 1, 1600, 1899, 1900, 1904, 1969, 1970, 1972, 2000, 2023, 2024, 2100, 9999}
                   \X (0..13) \X {0, 1, 27, 28, 29, 30, 31, 32} \X {0, 23, 24} \X {0, 59, 60})

TimeForms(i) ==
    {[fixed |-> <<i[1], i[2], i[3], i[4], i[5], i[5]>>, fraction |-> f, zone |-> z] :
        f \in {"none", "digits", "point", "other"}, z \in {"Z", "local"}}
    \cup {[fixed |-> <<"refused">>, fraction |-> "none", zone |-> "Z"]}

\* Every value has one DER spelling, and the readers on the two sides of the
\* offline boundary read it alike.
DerAgrees ==
    CASE probe.form = "tlv" ->
            LET i == probe.input
            IN D!OneSpelling(<<i[1], i[2], i[3], i[4]>> \o [k \in 1..i[5] |-> 1], i[1])
      [] probe.form = "body" -> D!OneInteger(probe.input) /\ D!OneOid(probe.input)
      [] probe.form = "time" -> \A t \in TimeForms(probe.input) : D!TimesRun(t)
      [] OTHER -> TRUE

-----------------------------------------------------------------------------
\* Every modulus of one and two limbs of two bits, with every pair of factors;
\* and the ones of three limbs whose top limb is full, where the carry happens.
MontgomeryQuestions ==
    \/ Ask("product", {i \in (0..15) \X (0..15) \X (0..15) : i[2] < i[1] /\ i[3] < i[1]})
    \/ Ask("product", {i \in (61..63) \X (50..62) \X (50..62) : i[2] < i[1] /\ i[3] < i[1]})
    \/ Ask("power", (0..17) \X (0..17) \X (0..7))
    \/ Ask("block", (0..3) \X (0..3) \X (10..18))
    \/ Ask("signature", {<<15, 3, 3>>, <<33, 3, 7>>, <<51, 3, 11>>} \X (0..52))

\* Montgomery products and powers are those of the numbers, and a signature opens
\* one padded block.
MontgomeryAgrees ==
    LET i == probe.input
    IN CASE probe.form = "product" -> M!Multiplies(i[1], i[2], i[3])
         [] probe.form = "power" -> M!Raises(i[1], i[2], i[3])
         [] probe.form = "block" ->
              M!OneBlock([k \in 1..i[1] |-> k], [k \in 1..i[2] |-> k], i[3])
         [] probe.form = "signature" -> M!OneSignature(i[1][1], i[1][2], i[1][3], i[2])
         [] OTHER -> TRUE

-----------------------------------------------------------------------------
\* Tokens of the pinned authority and of another, under both digests, with a
\* nonce and without, each altered in every one place.
TokenOf(i) == T!Issued(i[1], i[2], "rootA", "t1", i[3])
TimestampQuestions ==
    \E i \in {"authority", "other"} \X T!DigestKinds \X {"n1", ""} :
        Ask("token", {<<i, t>> : t \in T!Altered(TokenOf(i)) \cup {TokenOf(i)}})

\* No altered token is taken for the one that was issued, and the two readers of
\* a token read it alike.
TimestampAgrees ==
    probe.form = "token" =>
        /\ T!AlterationsAreSeen(TokenOf(probe.input[1]), probe.input[2], "authority")
        /\ T!ReadersAgree(probe.input[2], "authority")
        /\ ~T!IsRefused(T!Attest(TokenOf(probe.input[1]), probe.input[1][1]))

-----------------------------------------------------------------------------
\* Records with one field at each of the values it can have, here and on the wire.
LocalValues(kind) ==
    CASE kind \in {"hash", "id"} -> {1, 2}
      [] kind \in {"ident", "agent"} -> {"strict", "lax"}
      [] kind = "u16" -> {0, U16 - 1}
      [] kind = "exp" -> 0..2 * ExpHalf - 1
      [] kind \in DOMAIN RecordEnums -> Range(RecordEnums[kind])
      [] OTHER -> {0, 1}
WireValues(kind) ==
    CASE kind = "hash" -> {1} \X {0, HASH_BYTES - 1, HASH_BYTES, HASH_BYTES + 1}
      [] kind = "id" -> {1} \X {0, ID_BYTES - 1, ID_BYTES, ID_BYTES + 1}
      [] kind \in {"ident", "agent"} -> Texts
      [] kind = "u16" -> {0, U16 - 1, U16}
      [] kind = "exp" -> -ExpHalf..ExpHalf - 1
      [] kind \in DOMAIN WireEnums -> -1..Len(WireEnums[kind]) + 1
      [] OTHER -> {0, 1}
Lawfully(kind) ==
    CASE kind \in {"hash", "id", "copy", "exp"} -> 1
      [] kind \in {"ident", "agent"} -> "strict"
      [] kind = "u16" -> 7
      [] kind \in DOMAIN RecordEnums -> RecordEnums[kind][1]
BaseRecord(groups) ==
    [f \in FieldNames |->
        IF RowOf(f).group \in OptionalGroups \ groups THEN <<>>
        ELSE IF RowOf(f).shape = "many" THEN <<Lawfully(RowOf(f).kind), Lawfully(RowOf(f).kind)>>
        ELSE <<Lawfully(RowOf(f).kind)>>]
FieldCases(shape, values) ==
    (IF shape = "one" THEN {} ELSE {<<>>}) \cup {<<v>> : v \in values}
        \cup (IF shape = "many" THEN {<<v, w>> : v \in values, w \in values} ELSE {})
BaseWire == ToWire(BaseRecord(OptionalGroups))

\* A stream is written as the numbers of its chunks, and how it ended.
ChunkOf(n) ==
    CASE n = 0 -> EmptyChunk
      [] n = 1 -> RecordChunk([at |-> 1, id |-> 1, agent |-> "strict"])
      [] n = 2 -> RecordChunk([at |-> 1, id |-> 2, agent |-> "strict"])
      [] n = 3 -> RecordChunk([at |-> 2, id |-> 0, agent |-> "lax"])
      [] OTHER -> TrailerChunk([status |-> n - 4, reasons |-> IF n = 6 THEN <<9, 2>> ELSE <<>>])
StreamOf(s) == [chunks |-> [i \in DOMAIN s[1] |-> ChunkOf(s[1][i])], end |-> s[2]]
SomeStreams ==
    {<<<<2, 1, 5>>, "clean">>, <<<<5>>, "clean">>, <<<<1, 6>>, "clean">>, <<<<2, 1>>, "clean">>,
     <<<<2, 5>>, "error">>, <<<<5, 1>>, "clean">>}
PeerNames == {<<1>>, <<2>>, <<1, 2>>}
PeerLists == UNION {[1..n -> PeerNames] : n \in 0..2}

FederationQuestions ==
    \/ \E f \in FieldNames, groups \in SUBSET OptionalGroups :
          /\ RowOf(f).group \notin OptionalGroups \ groups
          /\ Ask("sent", {<<groups, f, v>> :
                            v \in FieldCases(RowOf(f).shape, LocalValues(RowOf(f).kind))})
    \/ \E f \in FieldNames, g \in {"none", "basis", "outcome", "algorithms"} :
          Ask("arrived", {<<g, f, v>> :
                            v \in FieldCases(RowOf(f).shape, WireValues(RowOf(f).kind))})
    \/ \E n \in 0..4 : Ask("stream", {<<s, end>> : s \in [1..n -> 0..8], end \in {"clean", "error"}})
    \/ \E n \in 0..2 : \E rows \in [1..n -> 1..3] :
          Ask("served", {<<rows, status, reasons>> :
                 status \in Range(Statuses), reasons \in UNION {[1..k -> Reasons] : k \in 0..2}})
    \/ Ask("signing", {<<a, b>> : a \in {0, 1} \X PeerLists, b \in {0, 1} \X PeerLists})
    \/ \E listed \in PeerLists, verified \in BOOLEAN : \E n \in 0..2 :
          Ask("fanout", {<<listed, verified, asked>> :
                            asked \in [1..n -> PeerNames \X SomeStreams \X BOOLEAN]})

FederationAgrees ==
    LET q == probe.input
    IN  /\ probe.form = "sent" =>
              EnumsAgree /\ Travels([BaseRecord(q[1]) EXCEPT ![q[2]] = q[3]])
        /\ probe.form = "arrived" =>
              TakesOnlyRecords([groups |-> BaseWire.groups \ {q[1]},
                                fields |-> [BaseWire.fields EXCEPT ![q[2]] = q[3]]])
        /\ probe.form = "stream" => StreamAgrees(StreamOf(q))
        /\ probe.form = "served" =>
              ServedArrives([i \in DOMAIN q[1] |-> ChunkOf(q[1][i]).row],
                            Served(q[2], IF q[2] = "none" THEN <<"ProofNotAttempted">> ELSE q[3]))
        /\ probe.form = "signing" => SigningAgrees(q[1][1], q[1][2], q[2][1], q[2][2])
        /\ probe.form = "fanout" =>
              FullIffEverybodyAnswered(3, q[1], q[2],
                 [i \in DOMAIN q[3] |-> [name |-> q[3][i][1], stream |-> StreamOf(q[3][i][2]),
                                    certified |-> IF q[3][i][3] THEN q[3][i][1] ELSE <<2>>]])
=============================================================================
