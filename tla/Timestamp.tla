----------------------------- MODULE Timestamp -----------------------------
(***************************************************************************)
(* RFC 3161 tokens as the two sides read them: trailryx-anchor, which      *)
(* obtains one and checks its signature against a pinned key, and the      *)
(* offline verifier, which only asks whether it is about this root.        *)
(*                                                                         *)
(* A DER value is a node: its tag t, what a primitive says (v), and the    *)
(* values inside (kids).  A digest is the thing digested: the octets of a  *)
(* messageDigest hold the kids of the content, and a signature the kids of *)
(* the attributes, with v the key and alg the digest algorithm.            *)
(***************************************************************************)
EXTENDS Integers, Sequences, SequencesExt

Node(t, v, alg, kids) == [t |-> t, v |-> v, alg |-> alg, kids |-> kids]
Leaf(t, v) == Node(t, v, "", <<>>)
Seq1(kids) == Node("SEQUENCE", "", "", kids)
Set1(kids) == Node("SET", "", "", kids)
Context0(kids) == Node("[0]", "", "", kids)
Octets(v) == Leaf("OCTETS", v)
Oid(v) == Leaf("OID", v)
Num(v) == Leaf("INTEGER", v)

Absent == Leaf("absent", "")
Refused(why) == [refused |-> why]
IsRefused(r) == "refused" \in DOMAIN r

-----------------------------------------------------------------------------
(* A structure is read field by field: <<"take", tag>>, <<"skip", "">> for *)
(* a field nobody looks at, <<"skip_if", tag>> for an optional one.        *)

ReadField(s, field) ==
    LET there == s.rest # <<>>
        mine == there /\ (field[1] = "skip" \/ Head(s.rest).t = field[2])
    IN IF ~s.ok THEN s
       ELSE IF mine THEN [s EXCEPT !.rest = Tail(@), !.got = Append(@, Head(s.rest))]
       ELSE IF field[1] = "skip_if" THEN [s EXCEPT !.got = Append(@, Absent)]
       ELSE [s EXCEPT !.ok = FALSE]

\* What the fields hold, and what is left behind them.
ReadFields(kids, fields) ==
    FoldLeft(ReadField, [ok |-> TRUE, rest |-> kids, got |-> <<>>], fields)

\* The integers the asn1 reader refuses, as a u64 and at any width.
BadU64(node) == node.v \in {"negative", "padded", "wide"}
BadWide(node) == node.v \in {"negative", "padded"}

\* algorithm_identifier: an OID, at most one parameter, and nothing else.
AlgorithmOf(node) ==
    LET r == ReadFields(node.kids, <<<<"take", "OID">>>>)
    IN IF ~r.ok \/ Len(r.rest) > 1 THEN Refused("malformed") ELSE [oid |-> r.got[1].v]

-----------------------------------------------------------------------------
(* Building a request, and taking the token out of a response.             *)

\* tsp::request; the answer to it is the authority's business.
Request(imprint, nonce) == [imprint |-> imprint, nonce |-> nonce, certReq |-> FALSE]

\* token_from_response: granted and nothing but granted, one token, no more.
TokenFromResponse(response) ==
    LET resp == ReadFields(<<response>>, <<<<"take", "SEQUENCE">>>>)
        parts == ReadFields(resp.got[1].kids, <<<<"take", "SEQUENCE">>>>)
        info == ReadFields(parts.got[1].kids, <<<<"take", "INTEGER">>>>)
    IN IF ~resp.ok \/ ~parts.ok \/ ~info.ok THEN Refused("malformed")
       ELSE IF BadU64(info.got[1]) THEN Refused("malformed")
       ELSE IF info.got[1].v # "0" THEN Refused("status")
       ELSE IF parts.rest = <<>> THEN Refused("no token")
       ELSE IF Len(parts.rest) > 1 THEN Refused("malformed")
       ELSE [token |-> parts.rest[1]]

\* HttpTransport: a 200, not chunked, with a body.
TokenFrom(http) ==
    IF http.status # 200 \/ http.chunked \/ http.body = Absent
    THEN Refused("unavailable") ELSE [body |-> http.body]

-----------------------------------------------------------------------------
(* The anchoring side.                                                     *)

\* tst_info_bytes: ContentInfo down to the octets of the content.
TstInfoBytes(token) ==
    LET ci == ReadFields(token.kids, <<<<"take", "OID">>, <<"take", "[0]">>>>)
        explicit == ReadFields(ci.got[2].kids, <<<<"take", "SEQUENCE">>>>)
        sd == ReadFields(explicit.got[1].kids,
                <<<<"take", "INTEGER">>, <<"skip", "">>, <<"take", "SEQUENCE">>>>)
        eci == ReadFields(sd.got[3].kids, <<<<"take", "OID">>, <<"take", "[0]">>>>)
        wrapper == ReadFields(eci.got[2].kids, <<<<"take", "OCTETS">>>>)
    IN IF token.t # "SEQUENCE" \/ ~ci.ok THEN Refused("malformed")
       ELSE IF ci.got[1].v # "signedData" THEN Refused("cms")
       ELSE IF ~explicit.ok THEN Refused("malformed")
       ELSE IF ~sd.ok THEN Refused("malformed")
       ELSE IF BadU64(sd.got[1]) \/ ~eci.ok THEN Refused("malformed")
       ELSE IF eci.got[1].v # "TSTInfo" THEN Refused("not a timestamp")
       ELSE IF ~wrapper.ok \/ wrapper.rest # <<>> THEN Refused("malformed")
       ELSE [content |-> wrapper.got[1].kids]

DigestKinds == {"sha256", "sha384"}

\* agrees_with: rsaEncryption names no digest, the other spellings one.
AgreesWith(signature, digest) ==
    signature = "rsaEncryption" \/ signature = digest \o "WithRSA"

SignatureOids == {"rsaEncryption"} \cup {d \o "WithRSA" : d \in DigestKinds}

\* What a SignerInfo gives, its two algorithms read: a digest this crate computes
\* and a signature that goes with it.
SignerInfo(si, digest, signature) ==
    IF ~si.ok THEN Refused("malformed")
    ELSE IF BadU64(si.got[1]) \/ IsRefused(digest) \/ IsRefused(signature)
    THEN Refused("malformed")
    ELSE IF digest.oid \notin DigestKinds \/ signature.oid \notin SignatureOids
    THEN Refused("algorithm")
    ELSE IF ~AgreesWith(signature.oid, digest.oid) THEN Refused("cms")
    ELSE [attrs |-> si.got[4].kids, signature |-> si.got[6], digest |-> digest.oid]

\* signer_parts: the one signer, with signed attributes, and its signature.
SignerParts(token) ==
    LET ci == ReadFields(token.kids, <<<<"skip", "">>, <<"take", "[0]">>>>)
        explicit == ReadFields(ci.got[2].kids, <<<<"take", "SEQUENCE">>>>)
        sd == ReadFields(explicit.got[1].kids,
                <<<<"take", "INTEGER">>, <<"skip", "">>, <<"skip", "">>,
                  <<"skip_if", "[0]">>, <<"skip_if", "[1]">>, <<"take", "SET">>>>)
        signers == ReadFields(sd.got[6].kids, <<<<"take", "SEQUENCE">>>>)
        si == ReadFields(signers.got[1].kids,
                <<<<"take", "INTEGER">>, <<"skip", "">>, <<"take", "SEQUENCE">>,
                  <<"take", "[0]">>, <<"take", "SEQUENCE">>, <<"take", "OCTETS">>>>)
    IN IF token.t # "SEQUENCE" \/ ~ci.ok THEN Refused("malformed")
       ELSE IF ~explicit.ok THEN Refused("malformed")
       ELSE IF ~sd.ok THEN Refused("malformed")
       ELSE IF BadU64(sd.got[1]) \/ ~signers.ok THEN Refused("malformed")
       ELSE IF signers.rest # <<>> THEN Refused("cms")
       ELSE SignerInfo(si, AlgorithmOf(si.got[3]), AlgorithmOf(si.got[5]))

\* Every attribute is a type and a set of values.
WellFormed(attr) ==
    attr.t = "SEQUENCE"
        /\ ReadFields(attr.kids, <<<<"take", "OID">>, <<"take", "SET">>>>).ok

Named(attrs, name) == SelectSeq(attrs, LAMBDA a : a.kids[1].v = name)

\* The digest was once looked for and not compared.
CheckSignedAttrs_Present(attrs, content, kind) ==
    /\ \A i \in DOMAIN attrs : WellFormed(attrs[i])
    /\ Len(Named(attrs, "messageDigest")) = 1
    /\ Len(Named(attrs, "contentType")) = 1
    /\ Named(attrs, "contentType")[1].kids[2].kids = <<Oid("TSTInfo")>>

\* check_signed_attrs: one messageDigest, the content's; one contentType, its.
CheckSignedAttrs(attrs, content, kind) ==
    /\ \A i \in DOMAIN attrs : WellFormed(attrs[i])
    /\ Len(Named(attrs, "messageDigest")) = 1
    /\ Named(attrs, "messageDigest")[1].kids[2].kids
            = <<Node("OCTETS", "digest", kind, content)>>
    /\ Len(Named(attrs, "contentType")) = 1
    /\ Named(attrs, "contentType")[1].kids[2].kids = <<Oid("TSTInfo")>>

\* RsaPublicKey::verify over the attributes, retagged as a SET OF: the key's
\* signature of these attributes under this digest.
KeyVerifies(key, parts) ==
    parts.signature = Node("OCTETS", key, parts.digest, parts.attrs)

\* verify_signed_data, over what the token's two halves read as.
SignedContent(bytes, parts, key) ==
    IF IsRefused(bytes) THEN bytes
    ELSE IF IsRefused(parts) THEN parts
    ELSE IF ~CheckSignedAttrs(parts.attrs, bytes.content, parts.digest)
    THEN Refused("attributes")
    ELSE IF ~KeyVerifies(key, parts) THEN Refused("signature")
    ELSE [content |-> bytes.content, digest |-> parts.digest]
VerifySignedData(token, key) == SignedContent(TstInfoBytes(token), SignerParts(token), key)

\* parse_tst_info: version 1, a SHA-384 imprint of its width, the time, and
\* the nonce behind what is optional.  What follows the nonce is not read.
ParseTstInfo(content) ==
    LET outer == ReadFields(content, <<<<"take", "SEQUENCE">>>>)
        info == ReadFields(outer.got[1].kids,
                    <<<<"take", "INTEGER">>, <<"take", "OID">>, <<"take", "SEQUENCE">>,
                      <<"take", "INTEGER">>, <<"take", "TIME">>, <<"skip_if", "SEQUENCE">>,
                      <<"skip_if", "BOOLEAN">>, <<"skip_if", "INTEGER">>>>)
        mi == ReadFields(info.got[3].kids, <<<<"take", "SEQUENCE">>, <<"take", "OCTETS">>>>)
        algorithm == AlgorithmOf(mi.got[1])
        nonce == info.got[8]
    IN IF ~outer.ok THEN Refused("malformed")
       ELSE IF ~info.ok THEN Refused("malformed")
       ELSE IF BadU64(info.got[1]) THEN Refused("malformed")
       ELSE IF info.got[1].v # "1" THEN Refused("version")
       ELSE IF ~mi.ok THEN Refused("malformed")
       ELSE IF IsRefused(algorithm) \/ mi.rest # <<>> THEN Refused("malformed")
       ELSE IF algorithm.oid # "sha384" \/ mi.got[2].v = "short" THEN Refused("imprint algorithm")
       ELSE IF BadWide(info.got[4]) \/ info.got[5].v = "local" \/ BadU64(nonce)
       THEN Refused("malformed")
       ELSE [imprint |-> mi.got[2].v, at |-> info.got[5].v, nonce |-> nonce.v]

ClaimIn(r) == IF IsRefused(r) THEN r ELSE ParseTstInfo(r.content)

\* claim_of: what the token says, with no signature checked.
ClaimOf(token) == ClaimIn(TstInfoBytes(token))

\* attest: what it says, once the pinned key has signed it.
Attest(token, key) == ClaimIn(VerifySignedData(token, key))

\* binds_to: the root that was asked about, under the nonce that was sent.
BindsTo(claim, imprint, nonce) == claim.imprint = imprint /\ claim.nonce = nonce

\* covered: the parts of the token an answer can depend on.
CoveredParts(token) ==
    LET bytes == TstInfoBytes(token)
        parts == SignerParts(token)
    IN [content |-> bytes.content, attrs |-> parts.attrs, signature |-> parts.signature]

-----------------------------------------------------------------------------
(* What an authority issues: external, from what the readers above expect  *)
(* and from the tokens of openssl in the tests.                            *)

TstInfo(imprint, at, nonce) ==
    Seq1(<<Num("1"), Oid("policy"),
           Seq1(<<Seq1(<<Oid("sha384"), Leaf("NULL", "")>>), Octets(imprint)>>),
           Num("serial"), Leaf("TIME", at), Seq1(<<>>)>>
         \o IF nonce = "" THEN <<>> ELSE <<Num(nonce)>>)

SignedAttrs(content, digest) ==
    <<Seq1(<<Oid("contentType"), Set1(<<Oid("TSTInfo")>>)>>),
      Seq1(<<Oid("messageDigest"), Set1(<<Node("OCTETS", "digest", digest, content)>>)>>)>>

Issued(key, digest, imprint, at, nonce) ==
    LET content == <<TstInfo(imprint, at, nonce)>>
        attrs == SignedAttrs(content, digest)
        signer == Seq1(<<Num("1"), Seq1(<<>>), Seq1(<<Oid(digest)>>), Context0(attrs),
                         Seq1(<<Oid("rsaEncryption"), Leaf("NULL", "")>>),
                         Node("OCTETS", key, digest, attrs)>>)
    IN Seq1(<<Oid("signedData"),
              Context0(<<Seq1(<<Num("3"), Set1(<<>>),
                                Seq1(<<Oid("TSTInfo"),
                                       Context0(<<Node("OCTETS", "", "", content)>>)>>),
                                Set1(<<signer>>)>>)>>)>>)

-----------------------------------------------------------------------------
(* The offline side.                                                       *)

\* optional_nonce: a number nobody can have sent is no nonce, not an error.
OptionalNonce(rest) ==
    LET r == ReadFields(rest, <<<<"skip_if", "SEQUENCE">>, <<"skip_if", "BOOLEAN">>,
                                <<"skip_if", "INTEGER">>>>)
        n == r.got[3]
    IN IF n.v = "padded" THEN Refused("not DER")
       ELSE [nonce |-> IF n.v \in {"negative", "wide"} THEN "" ELSE n.v]

\* tsp::read: the token, the SignedData and the TSTInfo must fill what holds
\* them; the other structures may be followed by anything.
ReadStamp(token) ==
    LET ci == ReadFields(token.kids, <<<<"take", "OID">>, <<"take", "[0]">>>>)
        explicit == ReadFields(ci.got[2].kids, <<<<"take", "SEQUENCE">>>>)
        sd == ReadFields(explicit.got[1].kids,
                <<<<"take", "INTEGER">>, <<"skip", "">>, <<"take", "SEQUENCE">>>>)
        eci == ReadFields(sd.got[3].kids, <<<<"take", "OID">>, <<"take", "[0]">>>>)
        wrapper == ReadFields(eci.got[2].kids, <<<<"take", "OCTETS">>>>)
        outer == ReadFields(wrapper.got[1].kids, <<<<"take", "SEQUENCE">>>>)
        info == ReadFields(outer.got[1].kids,
                    <<<<"take", "INTEGER">>, <<"take", "OID">>, <<"take", "SEQUENCE">>,
                      <<"take", "INTEGER">>, <<"take", "TIME">>>>)
        mi == ReadFields(info.got[3].kids, <<<<"take", "SEQUENCE">>, <<"take", "OCTETS">>>>)
        algorithm == ReadFields(mi.got[1].kids, <<<<"take", "OID">>>>)
        nonce == OptionalNonce(info.rest)
    IN IF token.t # "SEQUENCE" \/ ~ci.ok THEN Refused("not DER")
       ELSE IF ci.got[1].v # "signedData" THEN Refused("not a timestamp")
       ELSE IF ~explicit.ok \/ explicit.rest # <<>> THEN Refused("not DER")
       ELSE IF ~sd.ok THEN Refused("not DER")
       ELSE IF ~eci.ok THEN Refused("not DER")
       ELSE IF eci.got[1].v # "TSTInfo" THEN Refused("not a timestamp")
       ELSE IF ~wrapper.ok THEN Refused("not DER")
       ELSE IF ~outer.ok \/ outer.rest # <<>> THEN Refused("not DER")
       ELSE IF ~info.ok THEN Refused("not DER")
       ELSE IF ~mi.ok THEN Refused("not DER")
       ELSE IF ~algorithm.ok THEN Refused("not DER")
       ELSE IF algorithm.got[1].v # "sha384" \/ mi.got[2].v = "short" THEN Refused("digest")
       ELSE IF info.got[5].v = "local" THEN Refused("time")
       ELSE IF IsRefused(nonce) THEN nonce
       ELSE [imprint |-> mi.got[2].v, at |-> info.got[5].v, nonce |-> nonce.nonce]

-----------------------------------------------------------------------------
(* What the two readers promise.                                           *)

\* The values a leaf may be changed into.
Others(node) ==
    CASE node.t = "OID" -> {"sha256", "sha384", "rsaEncryption", "sha384WithRSA", "TSTInfo",
                            "signedData", "messageDigest", "contentType"}
      [] node.t = "INTEGER" -> {"0", "1", "n1", "n2", "negative", "padded", "wide"}
      [] node.t = "OCTETS" -> {"rootA", "rootB", "short"}
      [] node.t = "TIME" -> {"t1", "t2", "local"}
      [] OTHER -> {}

RECURSIVE Altered(_)
\* Every value that differs from this one in one place: a leaf changed, a value
\* dropped, doubled or swapped with the next.
Altered(node) ==
    LET k == node.kids
        n == Len(k)
    IN {[node EXCEPT !.v = x] : x \in Others(node)}
       \cup {[node EXCEPT !.kids = SubSeq(k, 1, i - 1) \o SubSeq(k, i + 1, n)] : i \in 1..n}
       \cup {[node EXCEPT !.kids = SubSeq(k, 1, i) \o SubSeq(k, i, n)] : i \in 1..n}
       \cup {[node EXCEPT !.kids[i] = k[i + 1], !.kids[i + 1] = k[i]] : i \in 1..(n - 1)}
       \cup UNION {{[node EXCEPT !.kids[i] = x] : x \in Altered(k[i])} : i \in 1..n}

\* A token altered on its way that the pinned key still attests says what the
\* authority said, and the altered part is outside what covered() reports.
AlterationsAreSeen(token, altered, key) ==
    ~IsRefused(Attest(altered, key)) =>
        /\ Attest(altered, key) = Attest(token, key)
        /\ CoveredParts(altered) = CoveredParts(token)

\* The two sides read the same thing out of a token, where both read one; and
\* attesting never reads what the unattested claim does not say.
ReadersAgree(token, key) ==
    /\ ~IsRefused(ClaimOf(token)) /\ ~IsRefused(ReadStamp(token)) =>
            ReadStamp(token) = ClaimOf(token)
    /\ ~IsRefused(Attest(token, key)) => Attest(token, key) = ClaimOf(token)
=============================================================================
