------------------------------- MODULE Anchor -------------------------------
(***************************************************************************)
(* The RFC 3161 adapter: a root is sent to an authority with a nonce, what *)
(* comes back becomes a receipt or is rejected, and a receipt is later     *)
(* asked about.  The network between the two loses an exchange, answers    *)
(* with an older token, with one about another root, or with one nobody    *)
(* pinned has signed.                                                      *)
(***************************************************************************)
EXTENDS Timestamp, FiniteSets, TLC

CONSTANTS Roots,   \* what is anchored, named as their imprints
          Nonces,  \* what the embedding store draws its nonces from
          Times    \* the authority's clock, a sequence of instants

VARIABLES trust,     \* "pinned", or "unchecked" where no key is configured
          lastSent,  \* Rfc3161::last_sent: a root and its nonce, or nothing
          receipts,  \* the receipts the store holds, by the nonce of the call
          issued,    \* what the authority has signed
          asked,     \* nonce -> the root it was sent for and the time it was
          said       \* the last answer of verify

anchorVars == <<trust, lastSent, receipts, issued, asked, said>>

Clock == Cardinality(issued)
Index(at) == CHOOSE i \in DOMAIN Times : Times[i] = at
Unasked == Nonces \ DOMAIN asked

NoReceipt == [root |-> "", at |-> "", evidence |-> Absent]
Silent == [root |-> "", receipt |-> NoReceipt, answer |-> "none"]

AnchorInit ==
    /\ trust \in {"pinned", "unchecked"}
    /\ lastSent = <<>> /\ receipts = [n \in {} |-> NoReceipt] /\ issued = {} /\ said = Silent
    /\ asked = [n \in {} |-> [root |-> "", at |-> 0]]

-----------------------------------------------------------------------------
(* The other side of the exchange.                                         *)

Response(status, tokens) == Seq1(<<Seq1(<<Num(status)>>)>> \o tokens)
Answered(status, body) == [status |-> status, chunked |-> FALSE, body |-> body]

\* The authority's answer to this request, the next one it signs.
Fresh(request) ==
    Issued("authority", "sha384", request.imprint, Times[Clock + 1], request.nonce)

\* Its answer as it may arrive: whole, as granted with modifications, chunked.
Arriving(request) ==
    LET granted == Answered(200, Response("0", <<Fresh(request)>>))
    IN {granted, Answered(200, Response("1", <<Fresh(request)>>)),
        [granted EXCEPT !.chunked = TRUE]}

\* The times a u64 of nanoseconds since 1970 has no stamp for.
Unstorable == {"before 1970", "beyond the stamp"}

\* What the network may hand back instead: a failure, a refusal, an answer of
\* some earlier time, and an answer anybody can have made up.
Unfaithful(request) ==
    {Answered(500, Absent), Answered(200, Response("2", <<>>)),
     Answered(200, Response("0", <<>>))}
    \cup {Answered(200, Response("0", <<t>>)) : t \in issued}
    \cup {Answered(200, Response("0", <<Issued("other", "sha384", r, at, request.nonce)>>)) :
            r \in Roots, at \in {Times[1]} \cup Unstorable}

-----------------------------------------------------------------------------
(* Rfc3161::submit.                                                        *)

\* What a token about to be kept must say: this root under this nonce, by the
\* pinned key where there is one, at a time the store can hold.
Receipt(claim, root, binds, token) ==
    IF IsRefused(claim) THEN claim
    ELSE IF ~binds THEN Refused("binding")
    ELSE IF trust = "pinned" /\ IsRefused(Attest(token, "authority"))
    THEN Refused("signature")
    ELSE IF claim.at \in Unstorable THEN Refused("time")
    ELSE [root |-> root, at |-> claim.at, evidence |-> token]

TokenIn(body) == IF IsRefused(body) THEN body ELSE TokenFromResponse(body.body)

\* A receipt, or why there is none.  Mutant: any answer about the root is one.
Submitted_AnyNonce(root, nonce, r) ==
    IF IsRefused(r) THEN r
    ELSE Receipt(ClaimOf(r.token), root, ClaimOf(r.token).imprint = root, r.token)

Submitted(root, nonce, r) ==
    IF IsRefused(r) THEN r
    ELSE Receipt(ClaimOf(r.token), root, BindsTo(ClaimOf(r.token), root, nonce), r.token)

\* The adapter's half: the nonce is remembered only with a receipt.
Keep(root, nonce, r) ==
    /\ asked' = asked @@ (nonce :> [root |-> root, at |-> Clock])
    /\ IF IsRefused(r) THEN UNCHANGED <<lastSent, receipts>>
       ELSE lastSent' = <<root, nonce>> /\ receipts' = receipts @@ (nonce :> r)
    /\ UNCHANGED <<trust, said>>
Take(root, nonce, http) ==
    \E r \in {Submitted(root, nonce, TokenIn(TokenFrom(http)))} : Keep(root, nonce, r)

\* The request reaches the authority, and its answer comes back or does not.
SubmitReached(root, nonce) ==
    /\ nonce \in Unasked /\ Clock < Len(Times)
    /\ LET q == Request(root, nonce)
       IN /\ issued' = issued \cup {Fresh(q)}
          /\ \E http \in Arriving(q) \cup Unfaithful(q) : Take(root, nonce, http)

\* The request is lost on the way.
SubmitLost(root, nonce) ==
    /\ nonce \in Unasked /\ Clock < Len(Times)
    /\ \E http \in Unfaithful(Request(root, nonce)) : Take(root, nonce, http)
    /\ UNCHANGED issued

\* A restart loses what the adapter remembers; the receipts are the store's.
AnchorRestart ==
    lastSent' = <<>> /\ UNCHANGED <<trust, receipts, issued, asked, said>>

-----------------------------------------------------------------------------
(* Rfc3161::verify and examine.                                            *)

VerifyAnswer(root, receipt) ==
    LET Says(attested) ==
            IF IsRefused(attested) THEN "false"
            ELSE IF BindsTo(attested, root, lastSent[2]) THEN "true" ELSE "false"
    IN IF trust # "pinned" THEN "unsupported"
       ELSE IF receipt.root # root THEN "false"
       ELSE IF lastSent = <<>> THEN "unsupported"
       ELSE IF lastSent[1] # root THEN "unsupported"
       ELSE Says(Attest(receipt.evidence, "authority"))

\* examine: for a token that arrived some other way, with the nonce it answers.
Examine(root, token, nonce) ==
    LET Says(claim) ==
            IF IsRefused(claim) THEN claim
            ELSE IF ~BindsTo(claim, root, nonce) THEN Refused("binding")
            ELSE IF trust = "pinned" THEN claim
            ELSE Refused("no pinned key")
    IN  Says(IF trust = "pinned" THEN Attest(token, "authority") ELSE ClaimOf(token))

\* A receipt the store holds, or one whose root or evidence was exchanged.
Shown ==
    LET held == Range(receipts)
    IN {[r EXCEPT !.root = x] : r \in held, x \in Roots}
       \cup {[r EXCEPT !.evidence = s.evidence] : r \in held, s \in held}

VerifyReceipt(root) ==
    /\ \E r \in Shown :
            said' = [root |-> root, receipt |-> r, answer |-> VerifyAnswer(root, r)]
    /\ UNCHANGED <<trust, lastSent, receipts, issued, asked>>

AnchorNext ==
    \/ \E root \in Roots, nonce \in Nonces : SubmitReached(root, nonce) \/ SubmitLost(root, nonce)
    \/ AnchorRestart
    \/ \E root \in Roots : VerifyReceipt(root)

AnchorSpec == AnchorInit /\ [][AnchorNext]_anchorVars

-----------------------------------------------------------------------------
\* A receipt answers the call that returned it: it names that call's nonce and
\* root, and with a pinned key the authority signed it after the call was made,
\* so no older answer passes for a new one.  A receipt is called an attestation
\* only with a key pinned, and only where the authority stamped that root under
\* a nonce that was sent for it; and the offline verifier finds the same root,
\* time and nonce in the token that is kept.
AnchorsAreOurs ==
    /\ \A n \in DOMAIN receipts :
        LET r == receipts[n]
        IN /\ ReadStamp(r.evidence) = [imprint |-> asked[n].root, at |-> r.at, nonce |-> n]
           /\ r.root = asked[n].root
           /\ trust = "pinned" => r.evidence \in issued /\ Index(r.at) > asked[n].at
           /\ \A root \in Roots : ~IsRefused(Examine(root, r.evidence, n)) =>
                                    root = r.root /\ trust = "pinned"
    /\ said.answer = "true" =>
        /\ trust = "pinned" /\ said.receipt.evidence \in issued
        /\ LET c == ClaimOf(said.receipt.evidence)
           IN c.nonce \in DOMAIN asked /\ asked[c.nonce].root = said.root
=============================================================================
