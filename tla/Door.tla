-------------------------------- MODULE Door --------------------------------
(***************************************************************************)
(* The gate of the write path and the agent-token door behind it: an       *)
(* access token of an issuer, bound to a key, and for every request a      *)
(* proof signed with that key, which is good for one use.                  *)
(*                                                                         *)
(* Signatures, hashes and URLs are what they establish: a token names the  *)
(* key that signed it, a proof names the key that signed it, the token it  *)
(* was made for and the request it was made for.  Times are small numbers  *)
(* on the clock the door is given, which is the wall clock of the machine: *)
(* it may be set ahead and set back.                                       *)
(***************************************************************************)
EXTENDS Integers, Sequences, FiniteSets, SequencesExt

CONSTANTS
    JwkSets,     \* JWK Set files an operator may configure
    Presented,   \* what callers present with a request
    Window,      \* PROOF_WINDOW_SECS
    Leeway,      \* LEEWAY_SECS
    ReplayCap,   \* DoorConfig::replay_cap
    MaxNow       \* bound: the latest time the clock may show

\* REPLAY_GENERATION_SECS: a proof may be dated a window ahead and stays
\* fresh until a window after its date.
Generation_OneWindow == Window
Generation == 2 * Window

NoKid == "no kid"

\* A window that has passed, a cap, and times that are dates.
DoorConstants ==
    /\ Window \in Nat \ {0} /\ Leeway \in Nat /\ ReplayCap \in Nat /\ MaxNow \in Nat
    /\ \A c \in Presented : c.proof.iat \in Int
ASSUME DoorAssumption == DoorConstants

VARIABLES
    door,      \* "unopened", "open" or "refused"
    keys,      \* KeySet: the kids of the issuer, and whether each can verify
    now,       \* the clock
    wentBack,  \* history: whether the clock was ever set back
    cache,     \* ReplayCache
    broken,    \* the mutex around the provider is poisoned
    answer,    \* what the gate answered last, "none" before
    admitted   \* every presentation let in so far, with how often

doorVars == <<door, keys, now, wentBack, cache, broken, answer, admitted>>

-----------------------------------------------------------------------------
(* Opening the door.                                                       *)

\* KeySet::from_jwks: the whole file is refused for a private member, for one
\* kid on two keys, and when no key can verify; a key without a kid is skipped.
Named(jwks) == SelectSeq(jwks, LAMBDA k : k.kid # NoKid)
BadKeySet(jwks) ==
    \/ \E i \in DOMAIN jwks : jwks[i].private
    \/ \E i, j \in DOMAIN Named(jwks) :
          i # j /\ Named(jwks)[i].kid = Named(jwks)[j].kid
    \/ \A i \in DOMAIN Named(jwks) : ~Named(jwks)[i].usable

\* AgentTokenDoor::new with what gate_from_flags hands it; the other refusals
\* of a configuration are in module Ingest.
OpenDoor(jwks) ==
    /\ door = "unopened"
    /\ IF BadKeySet(jwks)
       THEN door' = "refused" /\ UNCHANGED keys
       ELSE /\ door' = "open"
            /\ keys' = {[kid |-> k.kid, usable |-> k.usable] : k \in ToSet(Named(jwks))}
    /\ UNCHANGED <<now, wentBack, cache, broken, answer, admitted>>

-----------------------------------------------------------------------------
(* The token and the proof.                                                *)

\* KeySet::find, and the signature under the key that was found.
SignedByIssuer(t) ==
    \E k \in keys : k.kid = t.kid /\ k.usable /\ t.signer = k.kid

\* token_claims, check by check in the order of the code.
TokenRefusal(t) ==
    CASE ~t.typed \/ t.kid = NoKid -> "malformed"
      [] t.typed /\ t.kid # NoKid /\ ~SignedByIssuer(t) -> "signature"
      [] OTHER ->
            IF ~t.ours THEN "issuer"
            ELSE IF ~t.forUs THEN "audience"
            ELSE IF now >= t.exp + Leeway THEN "expired"
            ELSE IF t.iat > now + Leeway THEN "not yet valid"
            ELSE IF t.sub.kind # "agent" \/ ~t.whole THEN "malformed"
            ELSE IF t.jkt = "none" THEN "not bound"
            ELSE "none"

Abs(n) == IF n < 0 THEN -n ELSE n

\* verify_proof: its own key signed it, it is for this request, and it is
\* fresh at this moment.
ProofVerifies(p) ==
    /\ p.typed /\ p.signed
    /\ p.sameRequest
    /\ Abs(now - p.iat) <= Window
    /\ p.jti # "none"

\* The part of verify before the cache is asked.
Refusal(c) ==
    IF TokenRefusal(c.token) # "none" THEN TokenRefusal(c.token)
    ELSE IF c.proof.jti = "absent" THEN "no proof"
    ELSE IF ~ProofVerifies(c.proof) \/ ~c.proof.short
            \/ c.proof.key # c.token.jkt \/ c.proof.ath # c.token.id
    THEN "wrong key"
    ELSE "none"

-----------------------------------------------------------------------------
(* ReplayCache.                                                            *)

EmptyCache == [begun |-> FALSE, started |-> 0, current |-> {}, previous |-> {}]

\* The rotation at the head of check_and_record.
Rotated ==
    LET elapsed == now - cache.started
    IN IF cache.begun /\ elapsed < Generation THEN cache
       ELSE [begun    |-> TRUE,
             started  |-> now,
             current  |-> {},
             previous |-> IF ~cache.begun \/ elapsed >= 2 * Generation THEN {}
                          ELSE cache.current]

\* check_and_record after the rotation: "" when the proof was recorded.
ReplayRefusal(jti) ==
    IF jti \in Rotated.current \cup Rotated.previous THEN "replayed"
    ELSE IF Cardinality(Rotated.current) >= ReplayCap THEN "full"
    ELSE ""

-----------------------------------------------------------------------------
(* The gate.                                                               *)

DoorInit ==
    /\ door = "unopened"
    /\ keys = {}
    /\ now = 0 /\ wentBack = FALSE
    /\ cache = EmptyCache
    /\ broken = FALSE
    /\ answer = "none"
    /\ admitted = [c \in Presented |-> 0]

\* A request without an Authorization field, or with an empty one: 401 before
\* the provider is asked.
NoCredential ==
    /\ door = "open"
    /\ answer' = "401"
    /\ UNCHANGED <<door, keys, now, wentBack, cache, broken, admitted>>

\* Gate::decide_request for a credential of another scheme, and for the token
\* and proof of c until the cache is asked: nothing is recorded.
Refused(c) ==
    /\ door = "open"
    /\ ~broken
    /\ c.scheme # "DPoP" \/ Refusal(c) # "none"
    /\ answer' = "401"
    /\ UNCHANGED <<door, keys, now, wentBack, cache, broken, admitted>>

\* Gate::decide_request once token and proof verify: the cache last, then
\* authorize, then the caller the records are bound to.
Decided(c) ==
    /\ door = "open"
    /\ ~broken
    /\ c.scheme = "DPoP" /\ Refusal(c) = "none"
    /\ LET why == ReplayRefusal(c.proof.jti)
           allowed == why = "" /\ c.token.sub.inDomain
       IN /\ cache' = IF why = "" THEN [Rotated EXCEPT !.current = @ \cup {c.proof.jti}]
                      ELSE Rotated
          /\ answer' = CASE why = "replayed" -> "401"
                         [] why = "full" -> "503"
                         [] why = "" -> IF allowed THEN "allow" ELSE "403"
          /\ admitted' = IF allowed THEN [admitted EXCEPT ![c] = @ + 1] ELSE admitted
    /\ UNCHANGED <<door, keys, now, wentBack, broken>>

\* A provider that panics under the gate's lock; from then on every request
\* with a credential is refused.
ProviderPanics ==
    /\ door = "open"
    /\ ~broken
    /\ broken' = TRUE
    /\ UNCHANGED <<door, keys, now, wentBack, cache, answer, admitted>>

RefusedBroken ==
    /\ door = "open"
    /\ broken
    /\ answer' = "503"
    /\ UNCHANGED <<door, keys, now, wentBack, cache, broken, admitted>>

\* unix_seconds reads the clock of the machine, which goes on and may be set to
\* any time at all, one before the epoch being read as 0.
ClockMoves ==
    /\ \E t \in 0..MaxNow : now' = t /\ wentBack' = (wentBack \/ t < now)
    /\ UNCHANGED <<door, keys, cache, broken, answer, admitted>>

DoorNext ==
    \/ \E jwks \in JwkSets : OpenDoor(jwks)
    \/ NoCredential \/ ProviderPanics \/ RefusedBroken \/ ClockMoves
    \/ \E c \in Presented : Refused(c) \/ Decided(c)

DoorSpec == DoorInit /\ [][DoorNext]_doorVars

-----------------------------------------------------------------------------
UsedOnce(p) ==
    /\ Cardinality({c \in Presented : c.proof = p /\ admitted[c] > 0}) <= 1
    /\ \A c \in Presented : c.proof = p => admitted[c] <= 1

\* The cache was turned at a time after the proof's last fresh one, and the clock
\* was set back: the one way by which a proof is fresh once it is forgotten.
Outlived(p) == wentBack /\ cache.started > p.iat + Window

ProofsPresented == {c.proof : c \in Presented}

\* ReplayCache: whatever was presented when and however the clock is set, a proof
\* lets nobody in twice, except one that the cache outlived before the clock was
\* set back.  A clock that only goes on, by any leap, leaves no exception, and nor
\* does one that is set back before the cache was turned that late.
ProofsAreSingleUse == \A p \in ProofsPresented : UsedOnce(p) \/ Outlived(p)

\* verify asks the cache last: what is remembered was presented by a holder of
\* the key a token of the issuer is bound to, and each generation has its cap.
OnlyVerifiedAreRemembered ==
    /\ \A jti \in cache.current \cup cache.previous :
          \E c \in Presented :
             c.proof.jti = jti /\ c.proof.key = c.token.jkt
             /\ SignedByIssuer(c.token) /\ c.proof.ath = c.token.id
    /\ Cardinality(cache.current) <= ReplayCap
    /\ Cardinality(cache.previous) <= ReplayCap

\* AgentTokenDoor and Gate: whoever got in is an agent of this domain, with a
\* token the issuer signed for this door and a proof by the key it is bound to.
OnlyAgentsOfTheDomain ==
    \A c \in Presented : admitted[c] > 0 =>
        /\ SignedByIssuer(c.token) /\ c.token.forUs /\ c.token.ours
        /\ c.token.sub.kind = "agent" /\ c.token.sub.inDomain
        /\ c.proof.key = c.token.jkt /\ c.proof.sameRequest

\* The door keeps what it promises its callers and its operator.
DoorIsSound == ProofsAreSingleUse /\ OnlyVerifiedAreRemembered /\ OnlyAgentsOfTheDomain
=============================================================================
