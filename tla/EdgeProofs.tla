----------------------------- MODULE EdgeProofs -----------------------------
(***************************************************************************)
(* Four parts round the write path, proved for every value of their        *)
(* constants: the agent-token door, verified replication, a simulated      *)
(* shard with its disk and bus, and the reading of requests off a          *)
(* connection.  They share no state.                                       *)
(***************************************************************************)
EXTENDS Door, Head, Replica, Shard, FiniteSetTheorems, SequenceTheorems, WellFoundedInduction, TLAPS

\* A set of natural numbers that is not empty has a least one.
LEMMA LeastNumber ==
    ASSUME NEW T, T \subseteq Nat, T # {}
    PROVE  \E x \in T : \A y \in T : x <= y
<1>1. IsWellFoundedOn(OpToRel(<, Nat), Nat)
  BY NatLessThanWellFounded
<1>2. PICK x \in T : \A y \in T : ~ (<<y, x>> \in OpToRel(<, Nat))
  BY <1>1, WFMin
<1>3. \A y \in T : ~ (y < x)
  BY <1>2 DEF OpToRel
<1>4. \A a, b \in Nat : ~ (b < a) => a <= b
  OBVIOUS
<1>5. QED
  BY <1>3, <1>4

\* Of sequences one behind the other the brackets do not matter.
Assoc(s, t, u) == (s \o t) \o u = s \o (t \o u)
LEMMA Associates ==
    ASSUME NEW B, NEW s \in Seq(B), NEW t \in Seq(B), NEW u \in Seq(B)
    PROVE  Assoc(s, t, u) /\ s \o t \in Seq(B)
BY DEF Assoc

-----------------------------------------------------------------------------
(* The agent-token door.                                                   *)

\* When a proof is no longer fresh.
Expiry(c) == c.proof.iat + Window

\* A cache in memory: its generations are finite and within the cap, and unless
\* the clock was set back it was turned in the past.
Sound(k) ==
    /\ k.started \in Nat /\ (wentBack \/ k.started <= now)
    /\ ~ k.begun => k.started = 0 /\ k.current = {} /\ k.previous = {}
    /\ IsFiniteSet(k.current) /\ Cardinality(k.current) <= ReplayCap
    /\ IsFiniteSet(k.previous) /\ Cardinality(k.previous) <= ReplayCap

\* A proof that let somebody in is in the generation it was recorded in, or in
\* the one after it, until the cache is turned at a time it is not fresh at.
Remembers(k, c) ==
    \/ c.proof.jti \in k.current /\ Expiry(c) < k.started + 2 * Generation
    \/ c.proof.jti \in k.previous /\ Expiry(c) < k.started + Generation
    \/ Expiry(c) < k.started

\* Whose proofs are remembered.
Holder(c) ==
    /\ c.proof.key = c.token.jkt /\ SignedByIssuer(c.token) /\ c.proof.ath = c.token.id

DoorInv ==
    /\ now \in Nat /\ admitted \in [Presented -> Nat]
    /\ cache = [begun |-> cache.begun, started |-> cache.started,
                current |-> cache.current, previous |-> cache.previous]
    /\ Sound(cache)
    /\ door # "open" => cache = EmptyCache /\ \A c \in Presented : admitted[c] = 0
    /\ \A jti \in cache.current \cup cache.previous :
          \E c \in Presented : c.proof.jti = jti /\ Holder(c)
    /\ \A c \in Presented : admitted[c] > 0 => Remembers(cache, c)
    /\ wentBack \in BOOLEAN
    /\ \A c \in Presented : admitted[c] <= 1 \/ Outlived(c.proof)
    /\ \A c, d \in Presented : c.proof = d.proof /\ admitted[c] > 0 /\ admitted[d] > 0
          => c = d \/ Outlived(c.proof)
    /\ OnlyAgentsOfTheDomain

\* Nothing was presented to a door that is not open.
LEMMA InitDoor ==
    ASSUME DoorConstants PROVE DoorInit => DoorInv
<1> SUFFICES ASSUME DoorInit PROVE DoorInv
  OBVIOUS
<1>1. cache = EmptyCache /\ now = 0 /\ wentBack = FALSE /\ admitted = [c \in Presented |-> 0] /\ ReplayCap \in Nat
  BY DEF DoorInit, DoorConstants
<1>2. Sound(cache)
  BY <1>1, FS_EmptySet DEF Sound, EmptyCache
<1>3. \A c \in Presented : admitted[c] = 0 /\ ~ admitted[c] > 0 /\ admitted[c] <= 1
  BY <1>1
<1>4. wentBack \in BOOLEAN /\ now \in Nat /\ admitted \in [Presented -> Nat]
  BY <1>1
<1>5. /\ cache = [begun |-> cache.begun, started |-> cache.started,
                  current |-> cache.current, previous |-> cache.previous]
      /\ cache.current = {} /\ cache.previous = {}
  BY <1>1 DEF EmptyCache
<1>6. QED
  BY <1>1, <1>2, <1>3, <1>4, <1>5 DEF DoorInv, OnlyAgentsOfTheDomain

\* Every step but a decision leaves the cache and who was let in.
LEMMA QuietDoor ==
    ASSUME DoorConstants, DoorInv, UNCHANGED <<cache, admitted>>,
           now' \in Nat, wentBack' \in BOOLEAN, wentBack => wentBack', wentBack' \/ now <= now',
           \/ keys' = keys /\ door' = door
           \/ door # "open"
    PROVE  DoorInv'
<1>1. Sound(cache)'
  BY DEF DoorInv, Sound
<1>2. (\A c \in Presented : admitted[c] > 0 => Remembers(cache, c))'
  BY DEF DoorInv, Remembers, Expiry, DoorConstants
<1> DEFINE Once(c) == admitted[c] <= 1 \/ Outlived(c.proof)
           OneOf(c, d) == c.proof = d.proof /\ admitted[c] > 0 /\ admitted[d] > 0
                          => c = d \/ Outlived(c.proof)
<1>6. \A c \in Presented : Outlived(c.proof) => Outlived(c.proof)'
  BY DEF Outlived
<1>7. (\A c \in Presented : Once(c))' /\ (\A c, d \in Presented : OneOf(c, d))'
  BY <1>6 DEF DoorInv
<1> HIDE DEF Once, OneOf
<1>3. CASE keys' = keys /\ door' = door
  BY <1>1, <1>2, <1>3, <1>7 DEF DoorInv, OnlyAgentsOfTheDomain, SignedByIssuer, Holder, Once, OneOf
<1>4. CASE door # "open"
  <2>1. cache' = EmptyCache /\ \A c \in Presented : admitted'[c] = 0
    BY <1>4 DEF DoorInv
  <2>2. \A c \in Presented : ~ admitted'[c] > 0
    BY <2>1
  <2>3. cache'.current \cup cache'.previous = {}
    BY <2>1 DEF EmptyCache
  <2>4. QED
    BY <1>1, <1>2, <1>7, <2>1, <2>2, <2>3 DEF DoorInv, OnlyAgentsOfTheDomain, Once, OneOf
<1>5. QED
  BY <1>3, <1>4

\* The rotation at the head of check_and_record: a proof leaves the cache only when
\* the time it is turned at is later than the proof's last fresh one, that time never
\* goes back, and the generation there is is younger than its length.
LEMMA RotatedIs ==
    ASSUME DoorConstants, DoorInv
    PROVE  /\ Sound(Rotated) /\ Rotated.begun
           /\ Rotated = [begun |-> Rotated.begun, started |-> Rotated.started,
                         current |-> Rotated.current, previous |-> Rotated.previous]
           /\ now < Rotated.started + Generation /\ cache.started <= Rotated.started
           /\ Rotated.current \cup Rotated.previous \subseteq cache.current \cup cache.previous
           /\ \A c \in Presented : Remembers(cache, c) => Remembers(Rotated, c)
<1> DEFINE e == now - cache.started
<1>1. /\ now \in Nat /\ Window \in Nat \ {0} /\ Generation \in Nat /\ Generation > 0 /\ e \in Int
      /\ ReplayCap \in Nat /\ Sound(cache) /\ cache.started \in Nat
      /\ \A c \in Presented : Expiry(c) \in Int
  BY DEF DoorInv, DoorConstants, Generation, Expiry, Sound
<1>2. IsFiniteSet({}) /\ Cardinality({}) = 0
  BY FS_EmptySet
<1>3. CASE cache.begun /\ e < Generation
  <2>1. Rotated = cache
    BY <1>3 DEF Rotated
  <2>2. now < Rotated.started + Generation
    BY <1>1, <1>3, <2>1
  <2>3. Rotated.begun
    BY <1>3, <2>1, Zenon
  <2>4. QED
    BY <1>1, <2>1, <2>2, <2>3 DEF DoorInv
<1>4. CASE ~ (cache.begun /\ e < Generation)
  <2> DEFINE drop == ~ cache.begun \/ e >= 2 * Generation
             before == IF drop THEN {} ELSE cache.current
  <2>1. Rotated = [begun |-> TRUE, started |-> now, current |-> {}, previous |-> before]
    BY <1>4 DEF Rotated
  <2>2. Rotated.begun = TRUE /\ Rotated.started = now /\ Rotated.current = {} /\ Rotated.previous = before
    BY <2>1
  <2>3. Sound(Rotated)
    <3>1. IsFiniteSet(before) /\ Cardinality(before) <= ReplayCap
      BY <1>1, <1>2 DEF Sound
    <3>2. Rotated.started \in Nat /\ Rotated.started <= now /\ Cardinality(Rotated.current) <= ReplayCap
          /\ Rotated.begun
      BY <1>1, <1>2, <2>2
    <3> HIDE DEF before
    <3>3. QED
      BY <1>2, <2>2, <3>1, <3>2 DEF Sound
  <2>4. ASSUME NEW c \in Presented, Remembers(cache, c)
        PROVE  Remembers(Rotated, c)
    <3>1. CASE ~ cache.begun
      <4>1. cache.started = 0 /\ cache.current = {} /\ cache.previous = {}
        BY <1>1, <3>1 DEF Sound
      <4>2. Expiry(c) < 0
        BY <2>4, <4>1 DEF Remembers
      <4>3. Expiry(c) < Rotated.started
        BY <1>1, <2>2, <4>2
      <4>4. QED
        BY <4>3 DEF Remembers
    <3>2. CASE cache.begun /\ e >= 2 * Generation
      <4>1. now >= cache.started + 2 * Generation /\ now >= cache.started + Generation
        BY <1>1, <3>2
      <4>2. Expiry(c) < now
        BY <1>1, <2>4, <4>1 DEF Remembers
      <4>3. QED
        BY <2>2, <4>2 DEF Remembers
    <3>3. CASE cache.begun /\ e >= Generation /\ ~ e >= 2 * Generation
      <4>1. now >= cache.started + Generation /\ before = cache.current
        BY <1>1, <3>3
      <4>2. \/ c.proof.jti \in before /\ Expiry(c) < now + Generation
            \/ Expiry(c) < now
        BY <1>1, <2>4, <4>1 DEF Remembers
      <4>3. QED
        BY <2>2, <4>2 DEF Remembers
    <3>4. QED
      BY <1>1, <1>4, <3>1, <3>2, <3>3
  <2>5. now < now + Generation /\ cache.started <= now
    BY <1>1, <1>4 DEF Sound
  <2>6. QED
    BY <2>1, <2>2, <2>3, <2>4, <2>5
<1>5. QED
  BY <1>3, <1>4

\* A fresh proof that is not in the cache has let nobody in, or the cache outlived it.
LEMMA FreshIsNew ==
    ASSUME DoorConstants, DoorInv, NEW c \in Presented, Refusal(c) = "none",
           c.proof.jti \notin Rotated.current \cup Rotated.previous,
           NEW d \in Presented, c.proof = d.proof
    PROVE  admitted[d] = 0 \/ (wentBack /\ Rotated.started > d.proof.iat + Window)
<1>1. Abs(now - c.proof.iat) <= Window
  BY DEF Refusal, ProofVerifies
<1>2. now \in Nat /\ c.proof.iat \in Int /\ Window \in Nat /\ admitted[d] \in Nat
  BY DEF DoorInv, DoorConstants
<1>3. now <= Expiry(d) /\ Expiry(d) \in Int
  BY <1>1, <1>2 DEF Abs, Expiry
<1>4. Rotated.started \in Nat /\ (wentBack \/ Rotated.started <= now)
  BY RotatedIs DEF Sound
<1>5. CASE Remembers(Rotated, d)
  <2>1. Expiry(d) < Rotated.started
    BY <1>5 DEF Remembers
  <2>2. ~ Rotated.started <= now
    BY <1>2, <1>3, <1>4, <2>1
  <2>3. QED
    BY <1>3, <1>4, <2>1, <2>2 DEF Expiry
<1>6. CASE ~ Remembers(Rotated, d)
  <2>1. ~ Remembers(cache, d)
    BY <1>6, RotatedIs
  <2>2. QED
    BY <1>2, <2>1 DEF DoorInv
<1>7. QED
  BY <1>5, <1>6

\* What the checks before the cache establish.
LEMMA VerifiedIs ==
    ASSUME NEW c, Refusal(c) = "none"
    PROVE  /\ Holder(c) /\ c.token.forUs /\ c.token.ours /\ c.token.sub.kind = "agent"
           /\ c.proof.sameRequest
<1>1. TokenRefusal(c.token) = "none"
  BY DEF Refusal
<1>2. SignedByIssuer(c.token) /\ c.token.forUs /\ c.token.ours /\ c.token.sub.kind = "agent"
  BY <1>1 DEF TokenRefusal
<1>3. QED
  BY <1>1, <1>2 DEF Refusal, Holder, ProofVerifies

\* A decision: the cache is asked last, and remembers whom it lets in.
LEMMA DecidedDoor ==
    ASSUME DoorConstants, DoorInv, NEW c \in Presented, Decided(c)
    PROVE  DoorInv'
<1> DEFINE jti == c.proof.jti
           new == ReplayRefusal(jti) = ""
           allowed == new /\ c.token.sub.inDomain
<1>1. /\ door = "open" /\ Refusal(c) = "none"
      /\ cache' = IF new THEN [Rotated EXCEPT !.current = @ \cup {jti}] ELSE Rotated
      /\ admitted' = IF allowed THEN [admitted EXCEPT ![c] = @ + 1] ELSE admitted
      /\ UNCHANGED <<door, keys, now, wentBack, broken>>
  BY DEF Decided
<1>2. /\ now \in Nat /\ admitted \in [Presented -> Nat] /\ ReplayCap \in Nat /\ Generation \in Nat
      /\ Window \in Nat /\ c.proof.iat \in Int
      /\ \A d \in Presented : Expiry(d) \in Int
  BY DEF DoorInv, DoorConstants, Generation, Expiry
<1>3. /\ Sound(Rotated) /\ Rotated.begun
      /\ Rotated = [begun |-> Rotated.begun, started |-> Rotated.started,
                    current |-> Rotated.current, previous |-> Rotated.previous]
      /\ now < Rotated.started + Generation /\ cache.started <= Rotated.started
      /\ Rotated.current \cup Rotated.previous \subseteq cache.current \cup cache.previous
      /\ \A d \in Presented : Remembers(cache, d) => Remembers(Rotated, d)
  BY RotatedIs
<1>4. /\ cache'.started = Rotated.started /\ cache'.previous = Rotated.previous
      /\ cache'.begun = Rotated.begun
      /\ cache'.current = IF new THEN Rotated.current \cup {jti} ELSE Rotated.current
      /\ cache' = [begun |-> cache'.begun, started |-> cache'.started,
                   current |-> cache'.current, previous |-> cache'.previous]
  BY <1>1, <1>3
<1>5. new => jti \notin Rotated.current \cup Rotated.previous /\ Cardinality(Rotated.current) < ReplayCap
  <2>1. Cardinality(Rotated.current) \in Nat
    BY <1>3, FS_CardinalityType DEF Sound
  <2>2. QED
    BY <1>2, <2>1 DEF ReplayRefusal
<1>6. Holder(c) /\ c.token.forUs /\ c.token.ours /\ c.token.sub.kind = "agent" /\ c.proof.sameRequest
  BY <1>1, VerifiedIs
<1> HIDE DEF new, jti
<1>7. ASSUME NEW d \in Presented, Remembers(cache, d)
      PROVE  Remembers(cache, d)'
  BY <1>1, <1>3, <1>4, <1>7 DEF Remembers, Expiry
<1>8. Sound(cache)'
  <2>1. /\ IsFiniteSet(Rotated.current \cup {jti})
        /\ Cardinality(Rotated.current \cup {jti}) =
              IF jti \in Rotated.current THEN Cardinality(Rotated.current) ELSE Cardinality(Rotated.current) + 1
    <3>1. IsFiniteSet(Rotated.current)
      BY <1>3 DEF Sound
    <3>2. QED
      BY <3>1, FS_AddElement
  <2>2. Cardinality(Rotated.current) \in Nat /\ Cardinality(Rotated.current \cup {jti}) \in Nat
    BY <1>3, <2>1, FS_CardinalityType DEF Sound
  <2>3. IsFiniteSet(cache'.current) /\ Cardinality(cache'.current) <= ReplayCap
    BY <1>2, <1>3, <1>4, <1>5, <2>1, <2>2 DEF Sound
  <2>4. cache'.started \in Nat /\ (wentBack' \/ cache'.started <= now')
    BY <1>1, <1>3, <1>4 DEF Sound
  <2>5. cache'.begun
    BY <1>3, <1>4, Zenon
  <2>6. QED
    BY <1>3, <1>4, <2>3, <2>4, <2>5 DEF Sound
<1>9. (\A x \in cache.current \cup cache.previous :
          \E d \in Presented : d.proof.jti = x /\ Holder(d))'
  <2>1. \A x \in cache'.current \cup cache'.previous :
           x \in cache.current \cup cache.previous \/ x = jti
    BY <1>3, <1>4
  <2>2. \A x \in cache'.current \cup cache'.previous :
           \E d \in Presented : d.proof.jti = x /\ Holder(d)
    BY <1>6, <2>1 DEF DoorInv, jti
  <2>3. QED
    BY <1>1, <2>2 DEF Holder, SignedByIssuer
<1>10. admitted' \in [Presented -> Nat] /\ \A d \in Presented : d # c => admitted'[d] = admitted[d]
  BY <1>1, <1>2
<1> DEFINE Once(d) == admitted[d] <= 1 \/ Outlived(d.proof)
           OneOf(a, b) == a.proof = b.proof /\ admitted[a] > 0 /\ admitted[b] > 0
                          => a = b \/ Outlived(a.proof)
<1>14. \A d \in Presented : Outlived(d.proof) => Outlived(d.proof)'
  <2>1. cache.started \in Nat /\ Rotated.started \in Nat /\ \A d \in Presented : d.proof.iat \in Int
    BY <1>3 DEF DoorInv, Sound, DoorConstants
  <2>2. QED
    BY <1>1, <1>2, <1>3, <1>4, <2>1 DEF Outlived
<1>11. CASE ~ allowed
  <2>1. admitted' = admitted
    BY <1>1, <1>11
  <2>2. (\A d \in Presented : Once(d))' /\ (\A a, b \in Presented : OneOf(a, b))'
    BY <1>14, <2>1 DEF DoorInv
  <2> HIDE DEF Once, OneOf
  <2>3. QED
    BY <1>1, <1>2, <1>4, <1>7, <1>8, <1>9, <2>1, <2>2
    DEF DoorInv, OnlyAgentsOfTheDomain, SignedByIssuer, Once, OneOf
<1>12. CASE allowed
  <2>1. \A d \in Presented : c.proof = d.proof => admitted[d] = 0 \/ Outlived(d.proof)'
    BY <1>1, <1>4, <1>5, <1>12, FreshIsNew DEF jti, Outlived
  <2>2. admitted'[c] = admitted[c] + 1
    BY <1>1, <1>2, <1>12
  <2>3. Remembers(cache, c)'
    <3>1. jti \in cache'.current
      BY <1>4, <1>12
    <3>2. Abs(now - c.proof.iat) <= Window
      BY <1>1 DEF Refusal, ProofVerifies
    <3>3. Rotated.started \in Nat
      BY <1>3 DEF Sound
    <3>4. Expiry(c) < Rotated.started + 2 * Generation
      BY <1>2, <1>3, <3>2, <3>3 DEF Abs, Expiry, Generation
    <3>5. QED
      BY <1>4, <3>1, <3>4 DEF Remembers, Expiry, jti
  <2>4. \A d \in Presented : admitted'[d] > 0 => Remembers(cache, d)'
    BY <1>7, <1>10, <2>3 DEF DoorInv
  <2>5. (\A d \in Presented : Once(d))'
    <3>1. ASSUME NEW d \in Presented PROVE admitted'[d] <= 1 \/ Outlived(d.proof)'
      <4>1. CASE d = c
        BY <2>1, <2>2, <4>1
      <4>2. CASE d # c
        BY <1>10, <1>14, <4>2 DEF DoorInv
      <4>3. QED
        BY <4>1, <4>2
    <3>2. QED
      BY <3>1
  <2>6. (\A a, b \in Presented : OneOf(a, b))'
    <3>1. ASSUME NEW a \in Presented, NEW b \in Presented, a.proof = b.proof, a # b,
                 admitted'[a] > 0, admitted'[b] > 0
          PROVE  Outlived(a.proof)'
      <4>1. CASE a = c
        BY <1>10, <2>1, <3>1, <4>1
      <4>2. CASE b = c
        BY <1>10, <2>1, <3>1, <4>2
      <4>3. CASE a # c /\ b # c
        BY <1>10, <1>14, <3>1, <4>3 DEF DoorInv
      <4>4. QED
        BY <4>1, <4>2, <4>3
    <3>2. QED
      BY <3>1
  <2> HIDE DEF Once, OneOf
  <2>7. OnlyAgentsOfTheDomain'
    BY <1>1, <1>6, <1>10, <1>12 DEF DoorInv, OnlyAgentsOfTheDomain, SignedByIssuer, Holder
  <2>8. QED
    BY <1>1, <1>2, <1>4, <1>8, <1>9, <1>10, <2>4, <2>5, <2>6, <2>7 DEF DoorInv, Once, OneOf
<1>13. QED
  BY <1>11, <1>12

\* Every step keeps the invariant.
LEMMA NextDoor ==
    ASSUME DoorConstants, DoorInv, [DoorNext]_doorVars
    PROVE  DoorInv'
<1>1. now \in Nat /\ MaxNow \in Nat /\ wentBack \in BOOLEAN
  BY DEF DoorInv, DoorConstants
<1>2. CASE \E jwks \in JwkSets : OpenDoor(jwks)
  BY <1>1, <1>2, QuietDoor DEF OpenDoor
<1>3. CASE NoCredential \/ ProviderPanics \/ RefusedBroken \/ \E c \in Presented : Refused(c)
  BY <1>1, <1>3, QuietDoor DEF NoCredential, ProviderPanics, RefusedBroken, Refused
<1>4. CASE ClockMoves
  <2>1. PICK t \in 0..MaxNow : now' = t /\ wentBack' = (wentBack \/ t < now)
    BY <1>4 DEF ClockMoves
  <2>2. now' \in Nat /\ wentBack' \in BOOLEAN /\ (wentBack => wentBack') /\ (wentBack' \/ now <= now')
    <3>1. CASE t < now
      <4>1. now' \in Nat
        BY <1>1, <2>1
      <4>2. wentBack' = TRUE
        BY <2>1, <3>1, Zenon
      <4>3. QED
        BY <4>1, <4>2
    <3>2. CASE ~ t < now
      <4>1. now' \in Nat /\ now <= now'
        BY <1>1, <2>1, <3>2
      <4>2. wentBack' = wentBack
        BY <1>1, <2>1, <3>2, Zenon
      <4>3. QED
        BY <1>1, <4>1, <4>2
    <3>3. QED
      BY <3>1, <3>2
  <2>3. QED
    BY <1>4, <2>2, QuietDoor DEF ClockMoves
<1>5. CASE \E c \in Presented : Decided(c)
  BY <1>5, DecidedDoor
<1>6. CASE UNCHANGED doorVars
  BY <1>1, <1>6, QuietDoor DEF doorVars
<1>7. QED
  BY <1>2, <1>3, <1>4, <1>5, <1>6 DEF DoorNext

\* AgentTokenDoor and its gate, for every set of keys and of what is presented,
\* every window and cap, and a clock that is set to any time at any moment: a proof
\* of possession lets somebody in once, unless the cache was turned at a time after
\* it expired and the clock was set back; only an agent of the domain gets in, with a
\* token and a proof that are his; and what the cache remembers is verified and
\* within its cap.
THEOREM DoorHolds == DoorSpec => []DoorIsSound
<1>1. DoorInit => DoorInv
  BY DoorAssumption, InitDoor
<1>2. DoorInv /\ [DoorNext]_doorVars => DoorInv'
  BY DoorAssumption, NextDoor
<1>3. DoorInv => DoorIsSound
  <2> SUFFICES ASSUME DoorInv PROVE DoorIsSound
    OBVIOUS
  <2>1. ProofsAreSingleUse
    <3> SUFFICES ASSUME NEW p \in ProofsPresented, ~ Outlived(p) PROVE UsedOnce(p)
      BY DEF ProofsAreSingleUse
    <3>5. \A c \in Presented : c.proof = p => admitted[c] <= 1
      BY DEF DoorInv
    <3>6. SUFFICES Cardinality({c \in Presented : c.proof = p /\ admitted[c] > 0}) <= 1
      BY <3>5 DEF UsedOnce
    <3> DEFINE who == {c \in Presented : c.proof = p /\ admitted[c] > 0}
    <3>1. \A c, d \in who : c = d
      BY DEF DoorInv
    <3> HIDE DEF who
    <3>2. CASE who = {}
      BY <3>2, FS_EmptySet DEF who
    <3>3. CASE who # {}
      <4>1. PICK c \in who : TRUE
        BY <3>3
      <4>2. who = {c}
        BY <3>1, <4>1
      <4>3. Cardinality(who) = 1
        BY <4>2, FS_Singleton
      <4>4. QED
        BY <4>3 DEF who
    <3>4. QED
      BY <3>2, <3>3
  <2>2. OnlyVerifiedAreRemembered
    BY DEF DoorInv, Sound, Holder, OnlyVerifiedAreRemembered
  <2>3. QED
    BY <2>1, <2>2 DEF DoorInv, DoorIsSound
<1>4. QED
  BY <1>1, <1>2, <1>3, PTL DEF DoorSpec

-----------------------------------------------------------------------------
(* A chain of hashes.                                                      *)

\* h is the head of the chain after each of the first n records.
Heads(h, log, s, n) ==
    h = [i \in 0..n |-> IF i = 0 THEN Genesis(s) ELSE ChainStep(h[i - 1], log[i])]

\* The heads can be lined up for any number of records.
LEMMA HeadsExist ==
    ASSUME NEW log, NEW s, NEW N \in Nat
    PROVE  \E h : Heads(h, log, s, N)
<1> DEFINE T == {n \in Nat : ~ \E h : Heads(h, log, s, n)}
<1> SUFFICES ASSUME N \in T PROVE FALSE
  OBVIOUS
<1>1. T \subseteq Nat /\ T # {}
  OBVIOUS
<1> HIDE DEF T
<1>2. PICK n \in T : \A k \in T : n <= k
  BY <1>1, LeastNumber
<1> USE DEF T
<1>3. n \in Nat /\ ~ \E h : Heads(h, log, s, n)
  OBVIOUS
<1>4. CASE n = 0
  <2> DEFINE h == [i \in 0..0 |-> Genesis(s)]
  <2>1. h = [i \in 0..0 |-> IF i = 0 THEN Genesis(s) ELSE ChainStep(h[i - 1], log[i])]
    OBVIOUS
  <2>2. Heads(h, log, s, n)
    BY <1>4, <2>1 DEF Heads
  <2>3. QED
    BY <1>3, <2>2
<1>5. CASE n # 0
  <2>1. n - 1 \in Nat /\ n - 1 \notin T
    BY <1>2, <1>3, <1>5
  <2>2. PICK h : Heads(h, log, s, n - 1)
    BY <2>1
  <2> DEFINE g == [i \in 0..n |-> IF i = n THEN ChainStep(h[n - 1], log[n]) ELSE h[i]]
  <2>3. ASSUME NEW i \in 0..n
        PROVE  g[i] = IF i = 0 THEN Genesis(s) ELSE ChainStep(g[i - 1], log[i])
    <3>1. CASE i = n
      <4>0. n \in 0..n /\ n - 1 \in 0..n /\ n - 1 # n
        BY <1>3, <1>5
      <4>1. g[i] = ChainStep(h[n - 1], log[n]) /\ g[n - 1] = h[n - 1]
        BY <3>1, <4>0
      <4>2. QED
        BY <1>5, <3>1, <4>1
    <3>2. CASE i # n
      <4>1. i \in 0..(n - 1) /\ g[i] = h[i]
        BY <1>3, <3>2
      <4>2. h[i] = IF i = 0 THEN Genesis(s) ELSE ChainStep(h[i - 1], log[i])
        BY <2>2, <4>1 DEF Heads
      <4>3. i # 0 => i - 1 \in 0..n /\ i - 1 # n
        BY <1>3, <4>1
      <4>4. i # 0 => g[i - 1] = h[i - 1]
        BY <4>3
      <4>5. QED
        BY <4>1, <4>2, <4>4
    <3>3. QED
      BY <3>1, <3>2
  <2>4. g = [i \in 0..n |-> g[i]]
    OBVIOUS
  <2> HIDE DEF g
  <2>5. g = [i \in 0..n |-> IF i = 0 THEN Genesis(s) ELSE ChainStep(g[i - 1], log[i])]
    BY <2>3, <2>4
  <2>6. QED
    BY <1>3, <2>5 DEF Heads
<1>6. QED
  BY <1>4, <1>5

\* HeadOf is the last of them.
LEMMA HeadOfIs ==
    ASSUME NEW log, NEW s, Len(log) \in Nat
    PROVE  \E h : Heads(h, log, s, Len(log)) /\ HeadOf(log, s) = h[Len(log)]
<1>1. \E h : Heads(h, log, s, Len(log))
  BY HeadsExist
<1> DEFINE f == CHOOSE h : Heads(h, log, s, Len(log))
<1>2. Heads(f, log, s, Len(log))
  BY <1>1
<1>3. HeadOf(log, s) = f[Len(log)]
  BY DEF HeadOf, Heads
<1>4. QED
  BY <1>2, <1>3

\* Two logs are alike as far as their first n records.
Alike(log, far, n) == \A i \in 1..n : log[i] = far[i]

\* Two logs that begin alike have the same heads as far as they do.
LEMMA HeadsAgree ==
    ASSUME NEW log, NEW far, NEW s, NEW n \in Nat, NEW m \in Nat, n <= m,
           Alike(log, far, n),
           NEW h, Heads(h, log, s, n), NEW g, Heads(g, far, s, m)
    PROVE  \A i \in 0..n : h[i] = g[i]
<1> DEFINE T == {i \in 0..n : h[i] # g[i]}
<1> SUFFICES ASSUME T # {} PROVE FALSE
  OBVIOUS
<1>1. T \subseteq Nat
  OBVIOUS
<1> HIDE DEF T
<1>2. PICK i \in T : \A k \in T : i <= k
  BY <1>1, LeastNumber
<1> USE DEF T
<1>3. i \in 0..n /\ i \in 0..m /\ i \in Nat
  OBVIOUS
<1>4. /\ h[i] = IF i = 0 THEN Genesis(s) ELSE ChainStep(h[i - 1], log[i])
      /\ g[i] = IF i = 0 THEN Genesis(s) ELSE ChainStep(g[i - 1], far[i])
  BY <1>3 DEF Heads
<1>5. CASE i = 0
  BY <1>4, <1>5
<1>6. CASE i # 0
  <2>1. i \in 1..n /\ i - 1 \in 0..n /\ i - 1 \notin T
    BY <1>2, <1>3, <1>6
  <2>2. QED
    BY <1>4, <1>6, <2>1 DEF Alike
<1>7. QED
  BY <1>5, <1>6

\* The head after each record of a log.
LEMMA HeadGrows ==
    ASSUME NEW R, NEW log \in Seq(R), NEW s, NEW n \in Nat, n < Len(log)
    PROVE  HeadOf(SubSeq(log, 1, n + 1), s) = ChainStep(HeadOf(SubSeq(log, 1, n), s), log[n + 1])
<1> DEFINE a == SubSeq(log, 1, n)
           b == SubSeq(log, 1, n + 1)
<1>1. /\ Len(a) = n /\ Len(b) = n + 1
      /\ \A i \in 1..n : a[i] = b[i]
      /\ b[n + 1] = log[n + 1]
  OBVIOUS
<1> HIDE DEF a, b
<1>2. PICK h : Heads(h, a, s, n) /\ HeadOf(a, s) = h[n]
  BY <1>1, HeadOfIs
<1>3. PICK g : Heads(g, b, s, n + 1) /\ HeadOf(b, s) = g[n + 1]
  BY <1>1, HeadOfIs
<1>4. \A i \in 0..n : h[i] = g[i]
  <2>1. PICK m \in Nat : m = n + 1
    OBVIOUS
  <2>2. Heads(h, a, s, n) /\ Heads(g, b, s, m) /\ n <= m
    BY <1>2, <1>3, <2>1
  <2>3. Alike(a, b, n)
    BY <1>1 DEF Alike
  <2>4. QED
    BY <2>2, <2>3, HeadsAgree
<1>5. g[n + 1] = ChainStep(g[n], b[n + 1])
  BY <1>3 DEF Heads
<1>6. QED
  BY <1>1, <1>2, <1>3, <1>4, <1>5 DEF a, b

\* Before any record it is the genesis of the shard.
LEMMA HeadStarts ==
    ASSUME NEW s
    PROVE  HeadOf(<<>>, s) = Genesis(s)
<1>1. PICK h : Heads(h, <<>>, s, 0) /\ HeadOf(<<>>, s) = h[0]
  BY HeadOfIs
<1>2. QED
  BY <1>1 DEF Heads

-----------------------------------------------------------------------------
(* Walking a run of records.                                               *)

\* What a walk has come to: still standing at head h, or refused.
StandsAt(w, h) == \E c : w = [ok |-> TRUE, head |-> h, why |-> "none", count |-> c]
GivenUp(w) == \E y : w = Rejected(y)

\* w is where the walk stands after each of the first n records.
Walks(w, s, records, n) ==
    w = [i \in 0..n |-> IF i = 0
                        THEN [ok |-> TRUE, head |-> records[1].prev, why |-> "none", count |-> 0]
                        ELSE WalkStep(s, records[1], w[i - 1], records[i])]

\* The steps of a walk can be lined up for any number of records.
LEMMA WalksExist ==
    ASSUME NEW s, NEW records, NEW N \in Nat
    PROVE  \E w : Walks(w, s, records, N)
<1> DEFINE T == {n \in Nat : ~ \E w : Walks(w, s, records, n)}
           start == [ok |-> TRUE, head |-> records[1].prev, why |-> "none", count |-> 0]
<1> SUFFICES ASSUME N \in T PROVE FALSE
  OBVIOUS
<1>1. T \subseteq Nat /\ T # {}
  OBVIOUS
<1> HIDE DEF T
<1>2. PICK n \in T : \A k \in T : n <= k
  BY <1>1, LeastNumber
<1> USE DEF T
<1>3. n \in Nat /\ ~ \E w : Walks(w, s, records, n)
  OBVIOUS
<1>4. CASE n = 0
  <2> DEFINE w == [i \in 0..0 |-> start]
  <2>1. w = [i \in 0..0 |-> IF i = 0 THEN start
                            ELSE WalkStep(s, records[1], w[i - 1], records[i])]
    OBVIOUS
  <2>2. Walks(w, s, records, n)
    BY <1>4, <2>1 DEF Walks
  <2>3. QED
    BY <1>3, <2>2
<1>5. CASE n # 0
  <2>1. n - 1 \in Nat /\ n - 1 \notin T
    BY <1>2, <1>3, <1>5
  <2>2. PICK w : Walks(w, s, records, n - 1)
    BY <2>1
  <2> DEFINE g == [i \in 0..n |-> IF i = n THEN WalkStep(s, records[1], w[n - 1], records[n])
                                  ELSE w[i]]
  <2>3. ASSUME NEW i \in 0..n
        PROVE  g[i] = IF i = 0 THEN start ELSE WalkStep(s, records[1], g[i - 1], records[i])
    <3>1. CASE i = n
      <4>0. n \in 0..n /\ n - 1 \in 0..n /\ n - 1 # n
        BY <1>3, <1>5
      <4>1. g[i] = WalkStep(s, records[1], w[n - 1], records[n]) /\ g[n - 1] = w[n - 1]
        BY <3>1, <4>0
      <4>2. QED
        BY <1>5, <3>1, <4>1
    <3>2. CASE i # n
      <4>1. i \in 0..(n - 1) /\ g[i] = w[i]
        BY <1>3, <3>2
      <4>2. w[i] = IF i = 0 THEN start ELSE WalkStep(s, records[1], w[i - 1], records[i])
        BY <2>2, <4>1 DEF Walks
      <4>3. i # 0 => i - 1 \in 0..n /\ i - 1 # n
        BY <1>3, <4>1
      <4>4. i # 0 => g[i - 1] = w[i - 1]
        BY <4>3
      <4>5. QED
        BY <4>1, <4>2, <4>4
    <3>3. QED
      BY <3>1, <3>2
  <2>4. g = [i \in 0..n |-> g[i]]
    OBVIOUS
  <2> HIDE DEF g
  <2>5. g = [i \in 0..n |-> IF i = 0 THEN start
                            ELSE WalkStep(s, records[1], g[i - 1], records[i])]
    BY <2>3, <2>4
  <2>6. QED
    BY <1>3, <2>5 DEF Walks
<1>6. QED
  BY <1>4, <1>5

\* One step: a walk given up stays so, and one that stands takes only a record of the
\* shard that names the head it stands at.
LEMMA WalkStepIs ==
    ASSUME NEW s, NEW first, NEW w, NEW r
    PROVE  /\ GivenUp(w) => GivenUp(WalkStep(s, first, w, r))
           /\ \A h : StandsAt(w, h) =>
                 \/ GivenUp(WalkStep(s, first, w, r))
                 \/ /\ r.shard = s /\ r.prev = h
                    /\ StandsAt(WalkStep(s, first, w, r), ChainStep(r.prev, r))
<1>1. ASSUME GivenUp(w) PROVE GivenUp(WalkStep(s, first, w, r))
  <2>1. w.ok = FALSE
    BY <1>1 DEF GivenUp, Rejected
  <2>2. WalkStep(s, first, w, r) = w
    BY <2>1 DEF WalkStep
  <2>3. QED
    BY <1>1, <2>2
<1>2. ASSUME NEW h, StandsAt(w, h), ~ GivenUp(WalkStep(s, first, w, r))
      PROVE  r.shard = s /\ r.prev = h /\ StandsAt(WalkStep(s, first, w, r), ChainStep(r.prev, r))
  <2>1. PICK c : w = [ok |-> TRUE, head |-> h, why |-> "none", count |-> c]
    BY <1>2 DEF StandsAt
  <2>2. w.ok = TRUE /\ w.head = h /\ w.count = c
    BY <2>1
  <2>3. \A y : WalkStep(s, first, w, r) # Rejected(y)
    BY <1>2 DEF GivenUp
  <2>4. r.shard = s
    BY <2>2, <2>3 DEF WalkStep
  <2>5. ~ (r.seq # first.seq + w.count)
    BY <2>2, <2>3, <2>4 DEF WalkStep
  <2>6. r.prev = h
    BY <2>2, <2>3, <2>4, <2>5 DEF WalkStep
  <2>7. WalkStep(s, first, w, r) = [w EXCEPT !.head = ChainStep(@, r), !.count = @ + 1]
    BY <2>2, <2>4, <2>5, <2>6 DEF WalkStep
  <2>8. WalkStep(s, first, w, r)
        = [ok |-> TRUE, head |-> ChainStep(r.prev, r), why |-> "none", count |-> c + 1]
    BY <2>1, <2>6, <2>7
  <2>9. QED
    BY <2>4, <2>6, <2>8 DEF StandsAt
<1>3. QED
  BY <1>1, <1>2

\* What a run that stands is: every record of the shard, each naming the one before.
Linked(records, s) ==
    /\ \A i \in 1..Len(records) : records[i].shard = s
    /\ \A i \in 1..(Len(records) - 1) :
          records[i + 1].prev = ChainStep(records[i].prev, records[i])

\* Where the walk stands after each record, and that the records so far were good.
GoodSoFar(w, s, records, i) ==
    \/ GivenUp(w[i])
    \/ /\ i = 0
       /\ StandsAt(w[i], records[1].prev)
    \/ /\ i > 0
       /\ records[i].shard = s
       /\ StandsAt(w[i], ChainStep(records[i].prev, records[i]))
       /\ StandsAt(w[i - 1], records[i].prev)

\* Every step of a walk is one of these.
LEMMA WalkGoesOn ==
    ASSUME NEW s, NEW records, NEW N \in Nat, NEW w, Walks(w, s, records, N)
    PROVE  \A i \in 0..N : GoodSoFar(w, s, records, i)
<1> DEFINE T == {i \in 0..N : ~ GoodSoFar(w, s, records, i)}
<1> SUFFICES ASSUME T # {} PROVE FALSE
  OBVIOUS
<1>1. T \subseteq Nat
  OBVIOUS
<1> HIDE DEF T
<1>2. PICK i \in T : \A k \in T : i <= k
  BY <1>1, LeastNumber
<1> USE DEF T
<1>3. i \in 0..N /\ i \in Nat /\ ~ GoodSoFar(w, s, records, i)
  OBVIOUS
<1>4. w[i] = IF i = 0
             THEN [ok |-> TRUE, head |-> records[1].prev, why |-> "none", count |-> 0]
             ELSE WalkStep(s, records[1], w[i - 1], records[i])
  BY <1>3 DEF Walks
<1>5. CASE i = 0
  <2>1. StandsAt(w[i], records[1].prev)
    BY <1>4, <1>5 DEF StandsAt
  <2>2. QED
    BY <1>3, <1>5, <2>1 DEF GoodSoFar
<1>6. CASE i # 0
  <2>1. i - 1 \in 0..N /\ i - 1 \notin T /\ i > 0
    BY <1>2, <1>3, <1>6
  <2>2. GoodSoFar(w, s, records, i - 1)
    BY <2>1
  <2>3. ASSUME NEW h, StandsAt(w[i - 1], h) PROVE FALSE
    <3>1. ~ GivenUp(w[i])
      BY <1>3 DEF GoodSoFar
    <3>2. /\ records[i].shard = s /\ records[i].prev = h
          /\ StandsAt(w[i], ChainStep(records[i].prev, records[i]))
      BY <1>4, <1>6, <2>3, <3>1, WalkStepIs
    <3>3. QED
      BY <1>3, <2>1, <2>3, <3>2 DEF GoodSoFar
  <2>4. GivenUp(w[i - 1])
    BY <2>2, <2>3 DEF GoodSoFar
  <2>5. GivenUp(w[i])
    BY <1>4, <1>6, <2>4, WalkStepIs
  <2>6. QED
    BY <1>3, <2>5 DEF GoodSoFar
<1>7. QED
  BY <1>5, <1>6

\* Where a walk stands, it stands at one head, and it has not been given up.
LEMMA OneHead ==
    ASSUME NEW w, NEW h, StandsAt(w, h)
    PROVE  /\ ~ GivenUp(w) /\ w.ok = TRUE /\ w.head = h
           /\ \A g : StandsAt(w, g) => g = h
<1>1. PICK c : w = [ok |-> TRUE, head |-> h, why |-> "none", count |-> c]
  BY DEF StandsAt
<1>2. w.ok = TRUE /\ w.head = h
  BY <1>1
<1>3. ~ GivenUp(w)
  <2>1. SUFFICES ASSUME NEW y, w = Rejected(y) PROVE FALSE
    BY DEF GivenUp
  <2>2. w.ok = FALSE
    BY <2>1 DEF Rejected
  <2>3. QED
    BY <1>2, <2>2
<1>4. ASSUME NEW g, StandsAt(w, g) PROVE g = h
  <2>1. PICK d : w = [ok |-> TRUE, head |-> g, why |-> "none", count |-> d]
    BY <1>4 DEF StandsAt
  <2>2. w.head = g
    BY <2>1
  <2>3. QED
    BY <1>2, <2>2
<1>5. QED
  BY <1>2, <1>3, <1>4

\* A walk that has not been given up at the end never was.
LEMMA NeverGivenUp ==
    ASSUME NEW s, NEW records, NEW N \in Nat, NEW w, Walks(w, s, records, N), ~ GivenUp(w[N])
    PROVE  \A i \in 0..N : ~ GivenUp(w[i])
<1> DEFINE T == {k \in 0..N : GivenUp(w[N - k])}
<1>1. SUFFICES ASSUME T # {} PROVE FALSE
  <2>1. SUFFICES ASSUME NEW i \in 0..N, GivenUp(w[i]) PROVE T # {}
    BY <1>1
  <2>2. N - i \in 0..N /\ N - (N - i) = i
    OBVIOUS
  <2>3. N - i \in T
    BY <2>1, <2>2
  <2>4. QED
    BY <2>3
<1>2. T \subseteq Nat
  OBVIOUS
<1> HIDE DEF T
<1>3. PICK k \in T : \A j \in T : k <= j
  BY <1>1, <1>2, LeastNumber
<1> USE DEF T
<1>4. k \in 0..N /\ GivenUp(w[N - k])
  OBVIOUS
<1>5. k # 0
  <2>1. k = 0 => N - k = N
    OBVIOUS
  <2>2. QED
    BY <1>4, <2>1
<1>6. k - 1 \in 0..N /\ k - 1 \notin T
  BY <1>3, <1>4, <1>5
<1>7. ~ GivenUp(w[N - (k - 1)])
  BY <1>6
<1>8. PICK m : m = N - (k - 1)
  OBVIOUS
<1>9. m \in 0..N /\ m # 0 /\ m - 1 = N - k
  BY <1>4, <1>5, <1>8
<1>10. w[m] = WalkStep(s, records[1], w[m - 1], records[m])
  BY <1>9 DEF Walks
<1>11. QED
  BY <1>4, <1>7, <1>8, <1>9, <1>10, WalkStepIs

\* A run the walk accepts is linked, and its head is the chain taken over its last record.
LEMMA WalkAccepts ==
    ASSUME NEW s, NEW RS, NEW records \in Seq(RS), records # <<>>, Walk(s, records).ok
    PROVE  /\ Linked(records, s)
           /\ Walk(s, records).head = ChainStep(records[Len(records)].prev, records[Len(records)])
<1> DEFINE N == Len(records)
<1>1. N \in Nat /\ N > 0
  BY EmptySeq
<1>2. \E w : Walks(w, s, records, N)
  BY <1>1, WalksExist
<1> DEFINE w == CHOOSE v : Walks(v, s, records, N)
<1>3. Walks(w, s, records, N)
  BY <1>2
<1>4. Walk(s, records) = IF w[N].ok THEN Stands(w[N].head) ELSE w[N]
  BY DEF Walk, Walks
<1> HIDE DEF w, N
<1>5. \A i \in 0..N : GoodSoFar(w, s, records, i)
  BY <1>1, <1>3, WalkGoesOn
<1>6. ~ GivenUp(w[N])
  <2>1. SUFFICES ASSUME NEW y, w[N] = Rejected(y) PROVE FALSE
    BY DEF GivenUp
  <2>2. w[N].ok = FALSE
    BY <2>1 DEF Rejected
  <2>3. Walk(s, records) = w[N]
    BY <1>4, <2>2
  <2>4. QED
    BY <2>2, <2>3
<1>7. \A i \in 0..N : ~ GivenUp(w[i])
  BY <1>1, <1>3, <1>6, NeverGivenUp
<1>8. ASSUME NEW i \in 1..N
      PROVE  /\ records[i].shard = s
             /\ StandsAt(w[i], ChainStep(records[i].prev, records[i]))
             /\ StandsAt(w[i - 1], records[i].prev)
  <2>1. i \in 0..N /\ i # 0 /\ i > 0
    BY <1>1
  <2>2. GoodSoFar(w, s, records, i) /\ ~ GivenUp(w[i])
    BY <1>5, <1>7, <2>1
  <2>3. QED
    BY <2>1, <2>2 DEF GoodSoFar
<1>9. ASSUME NEW i \in 1..(N - 1)
      PROVE  records[i + 1].prev = ChainStep(records[i].prev, records[i])
  <2>1. i \in 1..N /\ i + 1 \in 1..N /\ (i + 1) - 1 = i
    BY <1>1
  <2>2. StandsAt(w[i], ChainStep(records[i].prev, records[i]))
    BY <1>8, <2>1
  <2>3. StandsAt(w[i], records[i + 1].prev)
    BY <1>8, <2>1
  <2>4. QED
    BY <2>2, <2>3, OneHead
<1>10. Linked(records, s)
  BY <1>8, <1>9 DEF Linked, N
<1>11. N \in 1..N
  BY <1>1
<1>12. StandsAt(w[N], ChainStep(records[N].prev, records[N]))
  BY <1>8, <1>11
<1>13. w[N].ok = TRUE /\ w[N].head = ChainStep(records[N].prev, records[N])
  BY <1>12, OneHead
<1>14. Walk(s, records) = Stands(w[N].head)
  BY <1>4, <1>13
<1>15. Walk(s, records).head = w[N].head
  BY <1>14 DEF Stands
<1>16. QED
  BY <1>10, <1>13, <1>15 DEF N

-----------------------------------------------------------------------------
(* What the logs, the run under way and the copy hold.                     *)

Both == {Ours, Theirs}

\* The head after the first n records of a log of shard s.
HeadAt(log, s, n) == HeadOf(SubSeq(log, 1, n), s)

\* Every head the sender's logs ever had, and the records that name one of them.
LinksOf(L) == UNION {{HeadAt(L[s], s, n) : n \in 0..Len(L[s])} : s \in Both}
RecordsOf(L) ==
    [shard : Both, seq : Nat \cup 1..MaxLog[Ours], body : Bodies, prev : LinksOf(L)]

\* A log is its records counted up from one, each naming the head before it.
LogInOrder(log, s) ==
    \A i \in 1..Len(log) :
        log[i] = [shard |-> s, seq |-> i, body |-> log[i].body, prev |-> HeadAt(log, s, i - 1)]

LogsHold ==
    /\ logs = [s \in Both |-> logs[s]]
    /\ \A s \in Both : logs[s] \in Seq(RecordsOf(logs)) /\ LogInOrder(logs[s], s)
RunHolds == run = <<>> \/ \E r \in Seq(RecordsOf(logs)) : run = <<r>>
CopyHolds ==
    /\ adopted \in Seq(RecordsOf(logs))
    /\ Linked(adopted, Ours)
    /\ head = <<>> <=> adopted = <<>>
    /\ adopted # <<>> =>
          head = ChainStep(adopted[Len(adopted)].prev, adopted[Len(adopted)])

\* The inductive invariant: whatever arrives, the copy is linked record to record, and
\* every record of it names a head the sender's logs really had.
ReplicaInv == LogsHold /\ RunHolds /\ CopyHolds

\* A link is never the genesis of a shard, nor no head at all.
LEMMA LinkIsNew ==
    ASSUME NEW p, NEW r
    PROVE  ChainStep(p, r) # <<>> /\ \A s : ChainStep(p, r) # Genesis(s)
BY DEF ChainStep, Genesis

\* A link gives away what was hashed into it.
LEMMA LinkTells ==
    ASSUME NEW p, NEW r, NEW q, NEW t, ChainStep(p, r) = ChainStep(q, t)
    PROVE  p = q /\ r.seq = t.seq /\ r.shard = t.shard /\ r.body = t.body
BY DEF ChainStep

\* A record whose head a log of the sender had is a record of that log.
LEMMA HeadTells ==
    ASSUME NEW R, NEW log \in Seq(R), NEW s, LogInOrder(log, s),
           NEW n \in 0..Len(log), NEW r, HeadAt(log, s, n) = ChainStep(r.prev, r)
    PROVE  /\ n \in 1..Len(log)
           /\ r.seq = n /\ r.shard = s /\ r.body = log[n].body /\ r.prev = log[n].prev
<1>1. Len(log) \in Nat
  OBVIOUS
<1>2. n # 0
  <2>1. SUFFICES ASSUME n = 0 PROVE FALSE
    OBVIOUS
  <2>2. SubSeq(log, 1, 0) = <<>>
    OBVIOUS
  <2>3. HeadAt(log, s, n) = Genesis(s)
    BY <2>1, <2>2, HeadStarts DEF HeadAt
  <2>4. QED
    BY <2>3, LinkIsNew
<1>3. PICK m \in Nat : m = n - 1
  BY <1>1, <1>2
<1>4. m < Len(log) /\ m + 1 = n /\ n \in 1..Len(log)
  BY <1>1, <1>2, <1>3
<1>5. HeadAt(log, s, m + 1) = ChainStep(HeadAt(log, s, m), log[m + 1])
  BY <1>4, HeadGrows DEF HeadAt
<1>6. log[n] = [shard |-> s, seq |-> n, body |-> log[n].body, prev |-> HeadAt(log, s, m)]
  BY <1>3, <1>4 DEF LogInOrder
<1>7. log[n].seq = n /\ log[n].shard = s /\ log[n].prev = HeadAt(log, s, m)
  BY <1>6
<1>8. ChainStep(r.prev, r) = ChainStep(HeadAt(log, s, m), log[n])
  BY <1>4, <1>5
<1>9. r.prev = HeadAt(log, s, m) /\ r.seq = log[n].seq /\ r.shard = log[n].shard /\ r.body = log[n].body
  BY <1>8, LinkTells
<1>10. QED
  BY <1>4, <1>7, <1>9

\* Records that agree on every field are one record.
LEMMA SameRecord ==
    ASSUME NEW L, NEW r \in RecordsOf(L), NEW t \in RecordsOf(L),
           r.seq = t.seq, r.shard = t.shard, r.body = t.body, r.prev = t.prev
    PROVE  r = t
BY DEF RecordsOf

\* What is lost, repeated, swapped or changed on the way is still made of such records.
LEMMA DamageStays ==
    ASSUME LogsHold, NEW records \in Seq(RecordsOf(logs)), NEW a \in Damaged(records)
    PROVE  a \in Seq(RecordsOf(logs))
<1> DEFINE RS == RecordsOf(logs)
           prevs == {HeadOf(SubSeq(logs[Ours], 1, n), Ours) : n \in 0..Len(logs[Ours])}
<1>1. \A i \in DOMAIN records : records[i] \in RS
  OBVIOUS
<1>2. prevs \subseteq LinksOf(logs)
  BY DEF LinksOf, HeadAt, Both
<1>3. CASE \E i \in DOMAIN records : a = RemoveAt(records, i)
  BY <1>3 DEF RemoveAt
<1>4. CASE \E i \in DOMAIN records : a = InsertAt(records, i, records[i])
  BY <1>4 DEF InsertAt
<1>5. CASE \E i \in DOMAIN records \ {Len(records)} :
              a = [records EXCEPT ![i] = records[i + 1], ![i + 1] = records[i]]
  BY <1>5
<1>6. ASSUME NEW i \in DOMAIN records, NEW t \in RS, a = [records EXCEPT ![i] = t]
      PROVE  a \in Seq(RS)
  BY <1>6
<1>7. CASE \E i \in DOMAIN records, b \in Bodies : a = [records EXCEPT ![i].body = b]
  <2>1. PICK i \in DOMAIN records, b \in Bodies : a = [records EXCEPT ![i].body = b]
    BY <1>7
  <2>2. a = [records EXCEPT ![i] = [records[i] EXCEPT !.body = b]]
    BY <2>1
  <2>3. records[i] \in RecordsOf(logs)
    BY <1>1
  <2>4. [records[i] EXCEPT !.body = b] \in RS
    BY <2>3 DEF RecordsOf
  <2>5. QED
    BY <1>6, <2>2, <2>4
<1>8. CASE \E i \in DOMAIN records, n \in 1..MaxLog[Ours] : a = [records EXCEPT ![i].seq = n]
  <2>1. PICK i \in DOMAIN records, n \in 1..MaxLog[Ours] : a = [records EXCEPT ![i].seq = n]
    BY <1>8
  <2>2. a = [records EXCEPT ![i] = [records[i] EXCEPT !.seq = n]]
    BY <2>1
  <2>3. records[i] \in RecordsOf(logs)
    BY <1>1
  <2>4. [records[i] EXCEPT !.seq = n] \in RS
    BY <2>3 DEF RecordsOf
  <2>5. QED
    BY <1>6, <2>2, <2>4
<1>9. CASE \E i \in DOMAIN records, s \in {Ours, Theirs} : a = [records EXCEPT ![i].shard = s]
  <2>1. PICK i \in DOMAIN records, s \in {Ours, Theirs} : a = [records EXCEPT ![i].shard = s]
    BY <1>9
  <2>2. a = [records EXCEPT ![i] = [records[i] EXCEPT !.shard = s]]
    BY <2>1
  <2>3. records[i] \in RecordsOf(logs)
    BY <1>1
  <2>4. [records[i] EXCEPT !.shard = s] \in RS
    BY <2>3 DEF RecordsOf, Both
  <2>5. QED
    BY <1>6, <2>2, <2>4
<1>10. CASE \E i \in DOMAIN records, p \in prevs : a = [records EXCEPT ![i].prev = p]
  <2>1. PICK i \in DOMAIN records, p \in prevs : a = [records EXCEPT ![i].prev = p]
    BY <1>10
  <2>2. a = [records EXCEPT ![i] = [records[i] EXCEPT !.prev = p]]
    BY <2>1
  <2>3. records[i] \in RecordsOf(logs) /\ p \in LinksOf(logs)
    BY <1>1, <1>2, <2>1
  <2>4. [records[i] EXCEPT !.prev = p] \in RS
    BY <2>3 DEF RecordsOf
  <2>5. QED
    BY <1>6, <2>2, <2>4
<1>11. QED
  BY <1>3, <1>4, <1>5, <1>7, <1>8, <1>9, <1>10 DEF Damaged

\* A sequence over a set is one over any set that contains it.
LEMMA WiderSeq ==
    ASSUME NEW A, NEW B, A \subseteq B, NEW q \in Seq(A)
    PROVE  q \in Seq(B)
OBVIOUS

\* A head the logs had, and so a record made over one, is still there when they have grown.
LEMMA LogsGrow ==
    ASSUME LogsHold, NEW s \in Both, NEW body \in Bodies,
           logs' = [logs EXCEPT ![s] = Append(@, [shard |-> s, seq |-> Len(@) + 1,
                                                  body |-> body, prev |-> HeadOf(@, s)])]
    PROVE  /\ RecordsOf(logs) \subseteq RecordsOf(logs')
           /\ LogsHold'
<1> DEFINE r == [shard |-> s, seq |-> Len(logs[s]) + 1, body |-> body, prev |-> HeadOf(logs[s], s)]
<1>1. logs' = [logs EXCEPT ![s] = Append(logs[s], r)]
  OBVIOUS
<1>2. logs = [t \in Both |-> logs[t]]
  BY DEF LogsHold
<1>3. \A t \in Both : logs'[t] = IF t = s THEN Append(logs[s], r) ELSE logs[t]
  BY <1>1, <1>2
<1>4. \A t \in Both : logs[t] \in Seq(RecordsOf(logs)) /\ LogInOrder(logs[t], t)
  BY DEF LogsHold
<1> HIDE DEF r
<1>5. ASSUME NEW t \in Both, NEW n \in 0..Len(logs[t])
      PROVE  /\ n \in 0..Len(logs'[t])
             /\ SubSeq(logs'[t], 1, n) = SubSeq(logs[t], 1, n)
             /\ HeadAt(logs'[t], t, n) = HeadAt(logs[t], t, n)
  <2>1. n \in 0..Len(logs'[t]) /\ SubSeq(logs'[t], 1, n) = SubSeq(logs[t], 1, n)
    <3>1. CASE t # s
      BY <1>3, <3>1
    <3>2. CASE t = s
      <4>1. logs'[t] = Append(logs[t], r)
        BY <1>3, <3>2
      <4>2. logs[t] \in Seq(RecordsOf(logs))
        BY <1>4
      <4>3. PICK A : A = RecordsOf(logs) \cup {r}
        OBVIOUS
      <4>4. logs[t] \in Seq(A) /\ r \in A
        BY <4>2, <4>3
      <4>5. QED
        BY <4>1, <4>4
    <3>3. QED
      BY <3>1, <3>2
  <2>2. QED
    BY <2>1 DEF HeadAt
<1>6. LinksOf(logs) \subseteq LinksOf(logs')
  <2>1. SUFFICES ASSUME NEW t \in Both, NEW n \in 0..Len(logs[t])
                 PROVE  HeadAt(logs[t], t, n) \in LinksOf(logs')
    BY DEF LinksOf
  <2>2. n \in 0..Len(logs'[t]) /\ HeadAt(logs'[t], t, n) = HeadAt(logs[t], t, n)
    BY <1>5
  <2>3. QED
    BY <2>2 DEF LinksOf
<1>7. RecordsOf(logs) \subseteq RecordsOf(logs')
  BY <1>6 DEF RecordsOf
<1>8. r \in RecordsOf(logs')
  <2>1. Len(logs[s]) \in Nat /\ Len(logs[s]) \in 0..Len(logs[s])
    BY <1>4
  <2>2. SubSeq(logs[s], 1, Len(logs[s])) = logs[s]
    BY <1>4
  <2>3. HeadOf(logs[s], s) \in LinksOf(logs)
    <3>1. HeadOf(logs[s], s) = HeadAt(logs[s], s, Len(logs[s]))
      BY <2>2 DEF HeadAt
    <3>2. QED
      BY <2>1, <3>1 DEF LinksOf
  <2>4. Len(logs[s]) + 1 \in Nat
    BY <2>1
  <2>5. QED
    BY <1>6, <2>3, <2>4 DEF RecordsOf, r
<1>9. ASSUME NEW t \in Both
      PROVE  logs'[t] \in Seq(RecordsOf(logs')) /\ LogInOrder(logs'[t], t)
  <2>1. logs[t] \in Seq(RecordsOf(logs'))
    BY <1>4, <1>7, WiderSeq
  <2>2. CASE t # s
    <3>1. logs'[t] = logs[t]
      BY <1>3, <2>2
    <3>2. QED
      BY <1>4, <2>1, <3>1
  <2>3. CASE t = s
    <3>1. logs'[t] = Append(logs[t], r)
      BY <1>3, <2>3
    <3>2. PICK N \in Nat : N = Len(logs[t])
      BY <1>4
    <3>3. /\ logs'[t] \in Seq(RecordsOf(logs')) /\ Len(logs'[t]) = N + 1
          /\ \A i \in 1..N : logs'[t][i] = logs[t][i]
          /\ logs'[t][N + 1] = r
      BY <1>8, <2>1, <3>1, <3>2
    <3>4. ASSUME NEW i \in 1..(N + 1)
          PROVE  logs'[t][i] = [shard |-> t, seq |-> i, body |-> logs'[t][i].body,
                                prev |-> HeadAt(logs'[t], t, i - 1)]
      <4>1. i - 1 \in 0..Len(logs[t])
        BY <3>2
      <4>2. HeadAt(logs'[t], t, i - 1) = HeadAt(logs[t], t, i - 1)
        BY <1>5, <4>1
      <4>3. CASE i \in 1..N
        BY <1>4, <3>2, <3>3, <4>2, <4>3 DEF LogInOrder
      <4>4. CASE i = N + 1
        <5>1. SubSeq(logs[t], 1, i - 1) = logs[t]
          BY <1>4, <3>2, <4>4
        <5>2. r.body = body
          BY DEF r
        <5>3. QED
          BY <2>3, <3>2, <3>3, <4>2, <4>4, <5>1, <5>2 DEF r, HeadAt
      <4>5. QED
        BY <3>2, <4>3, <4>4
    <3>5. QED
      BY <3>3, <3>4 DEF LogInOrder
  <2>4. QED
    BY <2>2, <2>3
<1>10. logs' = [t \in Both |-> logs'[t]]
  BY <1>1, <1>2
<1>11. QED
  BY <1>7, <1>9, <1>10 DEF LogsHold

\* The accepted run goes on from the copy.
LEMMA CopyGrows ==
    ASSUME NEW RS, NEW have \in Seq(RS), NEW more \in Seq(RS), more # <<>>,
           Linked(have, Ours), Linked(more, Ours),
           have # <<>> => more[1].prev = ChainStep(have[Len(have)].prev, have[Len(have)])
    PROVE  /\ have \o more \in Seq(RS) /\ have \o more # <<>>
           /\ Linked(have \o more, Ours)
           /\ (have \o more)[Len(have \o more)] = more[Len(more)]
<1>1. PICK a \in Nat : a = Len(have)
  OBVIOUS
<1>2. PICK b \in Nat : b = Len(more) /\ b > 0
  BY EmptySeq
<1>3. PICK both : both = have \o more
  OBVIOUS
<1>4. /\ both \in Seq(RS) /\ Len(both) = a + b
      /\ \A i \in 1..a : both[i] = have[i]
      /\ \A i \in 1..b : both[a + i] = more[i]
  BY <1>1, <1>2, <1>3
<1>5. both # <<>>
  BY <1>2, <1>4
<1>6. both[a + b] = more[b]
  BY <1>2, <1>4
<1>7. ASSUME NEW i \in 1..(a + b) PROVE both[i].shard = Ours
  <2>1. CASE i <= a
    BY <1>1, <1>4, <2>1 DEF Linked
  <2>2. CASE i > a
    <3>1. i - a \in 1..b /\ a + (i - a) = i
      BY <2>2
    <3>2. both[i] = more[i - a]
      BY <1>4, <3>1
    <3>3. QED
      BY <1>2, <3>1, <3>2 DEF Linked
  <2>3. QED
    BY <2>1, <2>2
<1>8. ASSUME NEW i \in 1..(a + b - 1)
      PROVE  both[i + 1].prev = ChainStep(both[i].prev, both[i])
  <2>1. CASE i < a
    <3>1. i \in 1..(a - 1) /\ i \in 1..a /\ i + 1 \in 1..a
      BY <2>1
    <3>2. both[i] = have[i] /\ both[i + 1] = have[i + 1]
      BY <1>4, <3>1
    <3>3. QED
      BY <1>1, <3>1, <3>2 DEF Linked
  <2>2. CASE i = a
    <3>1. both[i] = have[a] /\ both[i + 1] = more[1] /\ have # <<>>
      <4>1. i \in 1..a /\ 1 \in 1..b
        BY <1>2, <2>2
      <4>2. both[i] = have[i] /\ both[a + 1] = more[1]
        BY <1>4, <4>1
      <4>3. a # 0
        BY <2>2
      <4>4. have # <<>>
        BY <1>1, <4>3
      <4>5. QED
        BY <2>2, <4>2, <4>4
    <3>2. QED
      BY <1>1, <3>1
  <2>3. CASE i > a
    <3>1. PICK k \in Nat : k = i - a
      BY <2>3
    <3>2. k \in 1..(b - 1) /\ k \in 1..b /\ k + 1 \in 1..b /\ a + k = i /\ a + (k + 1) = i + 1
      BY <1>2, <2>3, <3>1
    <3>3. both[i] = more[k] /\ both[i + 1] = more[k + 1]
      BY <1>4, <3>2
    <3>4. QED
      BY <1>2, <3>2, <3>3 DEF Linked
  <2>4. QED
    BY <1>1, <2>1, <2>2, <2>3
<1>9. Linked(both, Ours)
  BY <1>4, <1>7, <1>8 DEF Linked
<1>10. QED
  BY <1>2, <1>3, <1>4, <1>5, <1>6, <1>9

\* What the receiver answers with yes is linked, goes on from what it holds, and leaves
\* it at the head over the last record.
LEMMA AnswerIs ==
    ASSUME NEW RS, NEW records \in Seq(RS), Answer(records).ok
    PROVE  /\ records # <<>> /\ Linked(records, Ours)
           /\ Answer(records).head = ChainStep(records[Len(records)].prev, records[Len(records)])
           /\ head # <<>> => records[1].prev = head
<1>1. \A y : Rejected(y).ok = FALSE
  BY DEF Rejected
<1>2. records # <<>>
  <2>1. records = <<>> => Answer(records) = Rejected("Empty")
    BY DEF Answer, AcceptUnanchored, AcceptFrom
  <2>2. QED
    BY <1>1, <2>1
<1>3. head # <<>> => records[1].prev = head
  <2>1. head # <<>> /\ records[1].prev # head => Answer(records) = Rejected("NotAContinuation")
    BY <1>2 DEF Answer, AcceptFrom
  <2>2. QED
    BY <1>1, <2>1
<1>4. Answer(records) = Walk(Ours, records)
  BY <1>2, <1>3 DEF Answer, AcceptUnanchored, AcceptFrom
<1>5. Walk(Ours, records).ok
  BY <1>4
<1>6. QED
  BY <1>2, <1>3, <1>4, <1>5, WalkAccepts

\* Nothing is written, sent or taken at the start.
LEMMA ReplicaStarts == ReplicaInit => ReplicaInv
<1> SUFFICES ASSUME ReplicaInit PROVE ReplicaInv
  OBVIOUS
<1>1. \A s \in Both : logs[s] = <<>>
  BY DEF ReplicaInit, Both
<1>2. logs = [s \in Both |-> logs[s]]
  BY DEF ReplicaInit, Both
<1>3. LogsHold
  <2>1. SUFFICES ASSUME NEW s \in Both
                 PROVE  logs[s] \in Seq(RecordsOf(logs)) /\ LogInOrder(logs[s], s)
    BY <1>2 DEF LogsHold
  <2>2. logs[s] = <<>> /\ Len(logs[s]) = 0
    BY <1>1
  <2>3. 1..Len(logs[s]) = {}
    BY <2>2
  <2>4. LogInOrder(logs[s], s)
    BY <2>3 DEF LogInOrder
  <2>5. QED
    BY <2>2, <2>4
<1>4. QED
  BY <1>3 DEF ReplicaInit, ReplicaInv, RunHolds, CopyHolds, Linked

\* The sender writes a record.
LEMMA WriteHolds ==
    ASSUME ReplicaInv, NEW s \in Both, Write(s)
    PROVE  ReplicaInv'
<1>1. PICK body \in Bodies :
          logs' = [logs EXCEPT ![s] = Append(@, [shard |-> s, seq |-> Len(@) + 1,
                                                 body |-> body, prev |-> HeadOf(@, s)])]
  BY DEF Write
<1>2. LogsHold' /\ RecordsOf(logs) \subseteq RecordsOf(logs')
  BY <1>1, LogsGrow DEF ReplicaInv
<1>3. run' = run /\ head' = head /\ adopted' = adopted
  BY DEF Write
<1>4. RunHolds'
  <2>1. CASE run = <<>>
    BY <1>3, <2>1 DEF RunHolds
  <2>2. CASE run # <<>>
    <3>1. PICK r \in Seq(RecordsOf(logs)) : run = <<r>>
      BY <2>2 DEF ReplicaInv, RunHolds
    <3>2. r \in Seq(RecordsOf(logs'))
      BY <1>2, <3>1, WiderSeq
    <3>3. QED
      BY <1>3, <3>1, <3>2 DEF RunHolds
  <2>3. QED
    BY <2>1, <2>2
<1>5. adopted' \in Seq(RecordsOf(logs'))
  BY <1>2, <1>3, WiderSeq DEF ReplicaInv, CopyHolds
<1>6. CopyHolds'
  BY <1>3, <1>5 DEF ReplicaInv, CopyHolds
<1>7. QED
  BY <1>2, <1>4, <1>6 DEF ReplicaInv

\* A stretch of a log is sent, whole or damaged.
LEMMA SendHolds ==
    ASSUME ReplicaInv, SendRun
    PROVE  ReplicaInv'
<1>0. PICK s \in Both : \E i, j \in DOMAIN logs[s] :
          \E arrives \in {SubSeq(logs[s], i, j)} \cup Damaged(SubSeq(logs[s], i, j)) :
             run' = <<arrives>>
  BY DEF SendRun, Both
<1>9. PICK i \in DOMAIN logs[s], j \in DOMAIN logs[s] :
          \E arrives \in {SubSeq(logs[s], i, j)} \cup Damaged(SubSeq(logs[s], i, j)) :
             run' = <<arrives>>
  BY <1>0
<1>1. PICK arrives \in {SubSeq(logs[s], i, j)} \cup Damaged(SubSeq(logs[s], i, j)) :
          run' = <<arrives>>
  BY <1>9
<1>2. logs[s] \in Seq(RecordsOf(logs)) /\ LogsHold
  BY DEF ReplicaInv, LogsHold
<1>3. SubSeq(logs[s], i, j) \in Seq(RecordsOf(logs))
  BY <1>2
<1>4. arrives \in Seq(RecordsOf(logs))
  BY <1>1, <1>2, <1>3, DamageStays
<1>5. logs' = logs /\ head' = head /\ adopted' = adopted
  BY DEF SendRun
<1>6. LogsHold' /\ CopyHolds'
  BY <1>5 DEF ReplicaInv, LogsHold, CopyHolds
<1>7. RunHolds'
  BY <1>1, <1>4, <1>5 DEF RunHolds
<1>8. QED
  BY <1>6, <1>7 DEF ReplicaInv

\* The receiver takes a run or refuses it.
LEMMA ReceiveHolds ==
    ASSUME ReplicaInv, Receive
    PROVE  ReplicaInv'
<1>1. logs' = logs /\ run' = <<>>
  BY DEF Receive
<1>2. LogsHold' /\ RunHolds'
  BY <1>1 DEF ReplicaInv, LogsHold, RunHolds
<1>3. PICK r \in Seq(RecordsOf(logs)) : run = <<r>>
  BY DEF ReplicaInv, RunHolds, Receive
<1>4. run[1] = r
  BY <1>3
<1>5. CASE ~ Answer(r).ok
  <2>1. head' = head /\ adopted' = adopted
    BY <1>4, <1>5 DEF Receive
  <2>2. CopyHolds'
    BY <1>1, <2>1 DEF ReplicaInv, CopyHolds
  <2>3. QED
    BY <1>2, <2>2 DEF ReplicaInv
<1>6. CASE Answer(r).ok
  <2>1. head' = Answer(r).head /\ adopted' = adopted \o r
    BY <1>4, <1>6 DEF Receive
  <2>2. /\ r # <<>> /\ Linked(r, Ours)
        /\ Answer(r).head = ChainStep(r[Len(r)].prev, r[Len(r)])
        /\ head # <<>> => r[1].prev = head
    BY <1>3, <1>6, AnswerIs
  <2>3. /\ adopted \in Seq(RecordsOf(logs)) /\ Linked(adopted, Ours)
        /\ adopted # <<>> => r[1].prev = ChainStep(adopted[Len(adopted)].prev, adopted[Len(adopted)])
    BY <2>2 DEF ReplicaInv, CopyHolds
  <2>4. /\ adopted' \in Seq(RecordsOf(logs)) /\ adopted' # <<>>
        /\ Linked(adopted', Ours)
        /\ adopted'[Len(adopted')] = r[Len(r)]
    BY <1>3, <2>1, <2>2, <2>3, CopyGrows
  <2>5. head' = ChainStep(adopted'[Len(adopted')].prev, adopted'[Len(adopted')])
    BY <2>1, <2>2, <2>4
  <2>6. head' # <<>>
    BY <2>5, LinkIsNew
  <2>7. CopyHolds'
    BY <1>1, <2>4, <2>5, <2>6 DEF CopyHolds
  <2>8. QED
    BY <1>2, <2>7 DEF ReplicaInv
<1>7. QED
  BY <1>5, <1>6

\* Every step keeps it.
LEMMA ReplicaStep == ReplicaInv /\ [ReplicaNext]_replicaVars => ReplicaInv'
<1> SUFFICES ASSUME ReplicaInv, [ReplicaNext]_replicaVars PROVE ReplicaInv'
  OBVIOUS
<1>1. CASE SendRun
  BY <1>1, SendHolds
<1>2. CASE Receive
  BY <1>2, ReceiveHolds
<1>3. CASE \E s \in {Ours, Theirs} : Write(s)
  BY <1>3, WriteHolds DEF Both
<1>4. CASE UNCHANGED replicaVars
  <2>1. logs' = logs /\ run' = run /\ head' = head /\ adopted' = adopted
    BY <1>4 DEF replicaVars
  <2>2. QED
    BY <2>1 DEF ReplicaInv, LogsHold, RunHolds, CopyHolds
<1>5. QED
  BY <1>1, <1>2, <1>3, <1>4 DEF ReplicaNext

-----------------------------------------------------------------------------
(* The copy is the log.                                                    *)

\* A record of the copy whose head some log had is that log's own, in its place.
LEMMA HadIsReal ==
    ASSUME ReplicaInv, NEW r \in RecordsOf(logs), r.shard = Ours,
           ChainStep(r.prev, r) \in LinksOf(logs)
    PROVE  r.seq \in 1..Len(logs[Ours]) /\ r = logs[Ours][r.seq]
<1>1. PICK s \in Both : \E n \in 0..Len(logs[s]) : ChainStep(r.prev, r) = HeadAt(logs[s], s, n)
  BY DEF LinksOf
<1>2. PICK n \in 0..Len(logs[s]) : HeadAt(logs[s], s, n) = ChainStep(r.prev, r)
  BY <1>1
<1>3. logs[s] \in Seq(RecordsOf(logs)) /\ LogInOrder(logs[s], s)
  BY DEF ReplicaInv, LogsHold
<1>4. /\ n \in 1..Len(logs[s])
      /\ r.seq = n /\ r.shard = s /\ r.body = logs[s][n].body /\ r.prev = logs[s][n].prev
  BY <1>2, <1>3, HeadTells
<1>5. logs[s][n] = [shard |-> s, seq |-> n, body |-> logs[s][n].body, prev |-> HeadAt(logs[s], s, n - 1)]
  BY <1>3, <1>4 DEF LogInOrder
<1>6. logs[s][n].seq = n /\ logs[s][n].shard = s
  BY <1>5
<1>7. logs[s][n] \in RecordsOf(logs)
  BY <1>3, <1>4
<1>8. r = logs[s][n]
  BY <1>4, <1>6, <1>7, SameRecord
<1>9. QED
  BY <1>4, <1>8

\* Every record of the copy but the last is the log's.
LEMMA AllButLast ==
    ASSUME ReplicaInv, NEW i \in 1..(Len(adopted) - 1)
    PROVE  adopted[i].seq \in 1..Len(logs[Ours]) /\ adopted[i] = logs[Ours][adopted[i].seq]
<1>1. adopted \in Seq(RecordsOf(logs)) /\ Linked(adopted, Ours)
  BY DEF ReplicaInv, CopyHolds
<1>2. i \in 1..Len(adopted) /\ i + 1 \in 1..Len(adopted)
  BY <1>1
<1>3. adopted[i] \in RecordsOf(logs) /\ adopted[i + 1] \in RecordsOf(logs)
  BY <1>1, <1>2
<1>4. adopted[i].shard = Ours /\ adopted[i + 1].prev = ChainStep(adopted[i].prev, adopted[i])
  BY <1>1, <1>2 DEF Linked
<1>5. adopted[i + 1].prev \in LinksOf(logs)
  BY <1>3 DEF RecordsOf
<1>6. QED
  BY <1>3, <1>4, <1>5, HadIsReal

\* The log record that names another by its head is the one right after it.
LEMMA NamesTheOneBefore ==
    ASSUME ReplicaInv, NEW s \in Both, NEW m \in 1..Len(logs[s]), NEW r,
           logs[s][m].prev = ChainStep(r.prev, r)
    PROVE  /\ m - 1 \in 1..Len(logs[s]) /\ r.seq = m - 1 /\ r.shard = s
           /\ r.body = logs[s][m - 1].body /\ r.prev = logs[s][m - 1].prev
<1>1. logs[s] \in Seq(RecordsOf(logs)) /\ LogInOrder(logs[s], s)
  BY DEF ReplicaInv, LogsHold
<1>2. PICK k \in Nat : k = m - 1
  BY <1>1
<1>3. k \in 0..Len(logs[s])
  BY <1>1, <1>2
<1>4. logs[s][m] = [shard |-> s, seq |-> m, body |-> logs[s][m].body, prev |-> HeadAt(logs[s], s, k)]
  BY <1>1, <1>2 DEF LogInOrder
<1>5. HeadAt(logs[s], s, k) = ChainStep(r.prev, r)
  BY <1>4
<1>6. /\ k \in 1..Len(logs[s]) /\ r.seq = k /\ r.shard = s
      /\ r.body = logs[s][k].body /\ r.prev = logs[s][k].prev
  BY <1>1, <1>3, <1>5, HeadTells
<1>7. QED
  BY <1>2, <1>6

\* Record by record the copy counts up.
LEMMA CountsUp ==
    ASSUME ReplicaInv, NEW i \in 1..(Len(adopted) - 1),
           adopted[i + 1] = logs[Ours][adopted[i + 1].seq],
           adopted[i + 1].seq \in 1..Len(logs[Ours])
    PROVE  adopted[i + 1].seq = adopted[i].seq + 1
<1>1. adopted[i + 1].prev = ChainStep(adopted[i].prev, adopted[i])
  BY DEF ReplicaInv, CopyHolds, Linked
<1>2. PICK m \in 1..Len(logs[Ours]) : m = adopted[i + 1].seq
  OBVIOUS
<1>3. logs[Ours][m].prev = ChainStep(adopted[i].prev, adopted[i])
  BY <1>1, <1>2
<1>4. adopted[i].seq = m - 1
  BY <1>3, NamesTheOneBefore DEF Both
<1>5. Len(logs[Ours]) \in Nat
  BY DEF ReplicaInv, LogsHold, Both
<1>6. QED
  BY <1>2, <1>4, <1>5

\* So every record but the last stands where the first one puts it.
LEMMA InTheirPlace ==
    ASSUME ReplicaInv
    PROVE  \A i \in 1..(Len(adopted) - 1) : adopted[i].seq = adopted[1].seq + i - 1
<1> DEFINE T == {i \in 1..(Len(adopted) - 1) : adopted[i].seq # adopted[1].seq + i - 1}
<1> SUFFICES ASSUME T # {} PROVE FALSE
  OBVIOUS
<1>0. Len(adopted) \in Nat /\ Len(logs[Ours]) \in Nat
  BY DEF ReplicaInv, CopyHolds, LogsHold, Both
<1>1. T \subseteq Nat
  BY <1>0
<1> HIDE DEF T
<1>2. PICK i \in T : \A k \in T : i <= k
  BY <1>1, LeastNumber
<1> USE DEF T
<1>3. i \in 1..(Len(adopted) - 1) /\ adopted[i].seq # adopted[1].seq + i - 1
  OBVIOUS
<1>4. adopted[1].seq \in Int /\ adopted[i].seq \in Int
  <2>1. 1 \in 1..(Len(adopted) - 1)
    BY <1>0, <1>3
  <2>2. QED
    BY <1>0, <1>3, <2>1, AllButLast
<1>5. i # 1
  BY <1>3, <1>4
<1>6. PICK k \in Nat : k = i - 1
  BY <1>0, <1>3
<1>7. k \in 1..(Len(adopted) - 1) /\ k \notin T /\ k + 1 = i
  BY <1>0, <1>2, <1>3, <1>5, <1>6
<1>8. adopted[k].seq = adopted[1].seq + k - 1
  BY <1>7
<1>9. adopted[k + 1].seq = adopted[k].seq + 1
  BY <1>3, <1>7, AllButLast, CountsUp
<1>10. QED
  BY <1>3, <1>4, <1>7, <1>8, <1>9

\* The invariant is enough.
LEMMA ReplicaFollows == ReplicaInv => ReplicaIsTheLog
<1> SUFFICES ASSUME ReplicaInv, NEW n \in {Len(adopted)}, n > 0,
                    NEW from, from = IF n = 1 THEN 1 ELSE adopted[1].seq
             PROVE  /\ \A i \in 1..n - 1 : /\ from + i - 1 \in DOMAIN logs[Ours]
                                           /\ adopted[i] = logs[Ours][from + i - 1]
                    /\ n > 1 /\ from + n - 1 \in DOMAIN logs[Ours]
                             /\ adopted[n] = logs[Ours][from + n - 1]
                       => head = HeadOf(SubSeq(logs[Ours], 1, from + n - 1), Ours)
                    /\ n > 1 /\ ~ (/\ from + n - 1 \in DOMAIN logs[Ours]
                                   /\ adopted[n] = logs[Ours][from + n - 1])
                       => \A s \in {Ours, Theirs} : \A i \in DOMAIN logs[s] : logs[s][i].prev # head
  BY DEF ReplicaIsTheLog
<1>1. adopted \in Seq(RecordsOf(logs)) /\ Linked(adopted, Ours)
  BY DEF ReplicaInv, CopyHolds
<1>2. n = Len(adopted) /\ n \in Nat
  BY <1>1
<1>3. \A s \in Both : logs[s] \in Seq(RecordsOf(logs)) /\ LogInOrder(logs[s], s)
  BY DEF ReplicaInv, LogsHold
<1>4. Ours \in Both
  BY DEF Both
<1>5. logs[Ours] \in Seq(RecordsOf(logs)) /\ LogInOrder(logs[Ours], Ours)
  BY <1>3, <1>4
<1>6. DOMAIN logs[Ours] = 1..Len(logs[Ours]) /\ Len(logs[Ours]) \in Nat
  BY <1>5
<1>7. head = ChainStep(adopted[n].prev, adopted[n])
  <2>1. adopted # <<>>
    BY <1>2
  <2>2. QED
    BY <1>2, <2>1 DEF ReplicaInv, CopyHolds
<1>8. ASSUME NEW i \in 1..n - 1
      PROVE  from + i - 1 \in DOMAIN logs[Ours] /\ adopted[i] = logs[Ours][from + i - 1]
  <2>1. n # 1 /\ i \in 1..(Len(adopted) - 1)
    BY <1>2
  <2>2. adopted[i].seq = from + i - 1
    BY <2>1, InTheirPlace
  <2>3. QED
    BY <1>6, <2>1, <2>2, AllButLast
<1>9. ASSUME n > 1
      PROVE  /\ n - 1 \in 1..(Len(adopted) - 1) /\ n - 1 \in 1..n - 1
             /\ adopted[n].prev = ChainStep(adopted[n - 1].prev, adopted[n - 1])
             /\ adopted[n - 1].seq = from + (n - 1) - 1
             /\ from + (n - 1) - 1 \in 1..Len(logs[Ours])
             /\ from \in Int
  <2>1. n - 1 \in 1..(Len(adopted) - 1) /\ n - 1 \in 1..n - 1 /\ (n - 1) + 1 = n /\ n # 1
    BY <1>2, <1>9
  <2>2. adopted[(n - 1) + 1].prev = ChainStep(adopted[n - 1].prev, adopted[n - 1])
    BY <1>1, <2>1 DEF Linked
  <2>3. adopted[n - 1].seq = from + (n - 1) - 1
    BY <2>1, InTheirPlace
  <2>4. 1 \in 1..(Len(adopted) - 1)
    BY <1>2, <2>1
  <2>5. adopted[1].seq \in 1..Len(logs[Ours])
    BY <2>4, AllButLast
  <2>6. from \in Int
    BY <1>6, <2>1, <2>5
  <2>7. QED
    BY <1>6, <1>8, <2>1, <2>2, <2>3, <2>6
<1>10. ASSUME n > 1, from + n - 1 \in DOMAIN logs[Ours], adopted[n] = logs[Ours][from + n - 1]
       PROVE  head = HeadOf(SubSeq(logs[Ours], 1, from + n - 1), Ours)
  <2>1. PICK m \in Nat : m = from + (n - 1) - 1
    BY <1>6, <1>9, <1>10
  <2>2. m + 1 = from + n - 1 /\ m < Len(logs[Ours])
    <3>1. from \in Int /\ from + n - 1 \in 1..Len(logs[Ours])
      BY <1>6, <1>9, <1>10
    <3>2. PICK l \in Nat : l = Len(logs[Ours])
      BY <1>6
    <3>3. m + 1 = from + n - 1
      BY ONLY <1>2, <2>1, <3>1
    <3>4. m + 1 \in 1..l
      BY ONLY <3>1, <3>2, <3>3
    <3>5. m < l
      BY ONLY <3>4, <2>1, <3>2
    <3>6. QED
      BY <3>2, <3>3, <3>5
  <2>3. HeadOf(SubSeq(logs[Ours], 1, m + 1), Ours)
        = ChainStep(HeadAt(logs[Ours], Ours, m), logs[Ours][m + 1])
    BY <1>5, <2>1, <2>2, HeadGrows DEF HeadAt
  <2>4. m + 1 \in 1..Len(logs[Ours]) /\ (m + 1) - 1 = m
    BY <1>6, <2>1, <2>2
  <2>5. logs[Ours][m + 1] = [shard |-> Ours, seq |-> m + 1, body |-> logs[Ours][m + 1].body,
                             prev |-> HeadAt(logs[Ours], Ours, m)]
    BY <1>5, <2>4 DEF LogInOrder
  <2>6. logs[Ours][m + 1].prev = HeadAt(logs[Ours], Ours, m)
    BY <2>5
  <2>7. adopted[n] = logs[Ours][m + 1]
    BY <1>10, <2>2
  <2>8. QED
    BY <1>7, <2>2, <2>3, <2>6, <2>7
<1>11. ASSUME n > 1, NEW s \in Both, NEW i \in DOMAIN logs[s], logs[s][i].prev = head
       PROVE  from + n - 1 \in DOMAIN logs[Ours] /\ adopted[n] = logs[Ours][from + n - 1]
  <2>1. i \in 1..Len(logs[s])
    BY <1>3
  <2>2. logs[s][i].prev = ChainStep(adopted[n].prev, adopted[n])
    BY <1>7, <1>11
  <2>3. n \in 1..Len(adopted)
    BY <1>2
  <2>4. adopted[n] \in RecordsOf(logs) /\ adopted[n].shard = Ours
    BY <1>1, <2>3 DEF Linked
  <2>5. logs[s][i] \in RecordsOf(logs)
    BY <1>3, <2>1
  <2>6. logs[s][i].prev \in LinksOf(logs)
    BY <2>5 DEF RecordsOf
  <2>7. adopted[n].seq \in 1..Len(logs[Ours]) /\ adopted[n] = logs[Ours][adopted[n].seq]
    BY <2>2, <2>4, <2>6, HadIsReal
  <2>8. (n - 1) + 1 = n
    BY <1>2
  <2>9. adopted[n].seq = adopted[n - 1].seq + 1
    BY <1>9, <1>11, <2>7, <2>8, CountsUp
  <2>10. adopted[n].seq = from + n - 1
    <3>1. from \in Int /\ adopted[n - 1].seq = from + (n - 1) - 1
      BY <1>9, <1>11
    <3>2. QED
      BY ONLY <1>2, <2>9, <3>1
  <2>11. QED
    BY <1>6, <2>7, <2>10
<1>12. QED
  BY <1>8, <1>10, <1>11 DEF Both

\* Replication is verified (trailryx-federation's receiver): whatever the network loses,
\* repeats, reorders or damages, the copy is a stretch of the sender's log in order, all
\* but possibly its last record, and after a false last record nothing real continues it.
THEOREM ReplicaHolds == ReplicaSpec => []ReplicaIsTheLog
<1>1. ReplicaInit => ReplicaInv
  BY ReplicaStarts
<1>2. ReplicaInv /\ [ReplicaNext]_replicaVars => ReplicaInv'
  BY ReplicaStep
<1>3. ReplicaInv => ReplicaIsTheLog
  BY ReplicaFollows
<1>4. QED
  BY <1>1, <1>2, <1>3, PTL DEF ReplicaSpec

-----------------------------------------------------------------------------
(* Whole records in a number of bytes.                                     *)

\* How many records of R bytes fit into m, and what is left over.
LEMMA WholeRecords ==
    ASSUME NEW R \in Nat \ {0}, NEW m \in Nat
    PROVE  m \div R \in Nat /\ (m \div R) * R <= m /\ m < (m \div R) * R + R
OBVIOUS

\* One record more is R bytes more.
LEMMA OneMore ==
    ASSUME NEW R \in Nat \ {0}, NEW a \in Nat
    PROVE  a * R \in Nat /\ (a + 1) * R = a * R + R
OBVIOUS

\* The last record before a ends where a begins.
LEMMA OneLess ==
    ASSUME NEW R \in Nat \ {0}, NEW a \in Nat \ {0}
    PROVE  (a - 1) * R \in Nat /\ a * R = (a - 1) * R + R
OBVIOUS

\* More records are more bytes.
LEMMA MoreRecords ==
    ASSUME NEW R \in Nat \ {0}, NEW a \in Nat, NEW b \in Nat
    PROVE  /\ a <= b => a * R <= b * R
           /\ a < b => a * R + R <= b * R
OBVIOUS

-----------------------------------------------------------------------------
(* The bytes of a file.                                                    *)

Byte == Nat \X Nat

\* A record is RecordLen bytes, each with its number and its place.
LEMMA EncodeIs ==
    ASSUME ShardConstants, NEW n \in Nat
    PROVE  /\ Encode(n) \in Seq(Byte) /\ Len(Encode(n)) = RecordLen
           /\ \A i \in 1..RecordLen : Encode(n)[i] = <<n, i>>
           /\ Verifies(Encode(n)) /\ Encode(n)[1][1] = n
<1>1. Encode(n) \in [1..RecordLen -> Byte]
  BY DEF Encode, Byte, ShardConstants
<1>2. RecordLen \in Nat /\ 1 \in 1..RecordLen
  BY DEF ShardConstants
<1>3. Encode(n) \in Seq(Byte) /\ Len(Encode(n)) = RecordLen
  BY <1>1, <1>2
<1>4. \A i \in 1..RecordLen : Encode(n)[i] = <<n, i>>
  BY DEF Encode
<1>5. Encode(n)[1][1] = n
  BY <1>2, <1>4
<1>6. Verifies(Encode(n))
  BY <1>3, <1>5 DEF Verifies
<1>7. QED
  BY <1>3, <1>4, <1>5, <1>6

\* What follows in a sequence made of two.
LEMMA AfterIt ==
    ASSUME NEW a \in Seq(Byte), NEW b \in Seq(Byte)
    PROVE  /\ a \o b \in Seq(Byte) /\ Len(a \o b) = Len(a) + Len(b)
           /\ \A j \in 1..Len(b) : (a \o b)[Len(a) + j] = b[j]
OBVIOUS

\* And what comes first.
LEMMA BeforeIt ==
    ASSUME NEW a \in Seq(Byte), NEW b \in Seq(Byte)
    PROVE  \A i \in 1..(Len(a) + Len(b)) : (a \o b)[i] = IF i <= Len(a) THEN a[i] ELSE b[i - Len(a)]
BY ConcatProperties

\* The beginning of a sequence.
LEMMA PrefixIs ==
    ASSUME NEW a \in Seq(Byte), NEW m \in 0..Len(a)
    PROVE  /\ SubSeq(a, 1, m) \in Seq(Byte) /\ Len(SubSeq(a, 1, m)) = m
           /\ \A i \in 1..m : SubSeq(a, 1, m)[i] = a[i]
OBVIOUS

\* A stretch inside a sequence.
LEMMA StretchIs ==
    ASSUME NEW a \in Seq(Byte), NEW x \in Nat, NEW y \in Nat, x + y <= Len(a)
    PROVE  /\ SubSeq(a, x + 1, x + y) \in Seq(Byte) /\ Len(SubSeq(a, x + 1, x + y)) = y
           /\ \A i \in 1..y : SubSeq(a, x + 1, x + y)[i] = a[x + i]
OBVIOUS

\* The bytes are the records one to w and then the first d bytes of number n.
InOrder(bytes, w, n, d) ==
    /\ bytes \in Seq(Byte)
    /\ Len(bytes) = w * RecordLen + d
    /\ \A k \in 1..w : RecordAt(bytes, k) = Encode(k)
    /\ SubSeq(bytes, w * RecordLen + 1, Len(bytes)) = SubSeq(Encode(n), 1, d)

\* A record inside a prefix is the one in the whole.
LEMMA RecordInPrefix ==
    ASSUME ShardConstants, NEW bytes \in Seq(Byte), NEW m \in 0..Len(bytes),
           NEW k \in Nat \ {0}, k * RecordLen <= m
    PROVE  RecordAt(SubSeq(bytes, 1, m), k) = RecordAt(bytes, k)
<1>1. RecordLen \in Nat \ {0}
  BY DEF ShardConstants
<1>2. PICK a \in Nat : a = (k - 1) * RecordLen
  BY <1>1, OneLess
<1>3. PICK b \in Nat : b = k * RecordLen /\ b = a + RecordLen
  BY <1>1, <1>2, OneLess
<1>4. b <= m
  BY <1>3
<1>5. SubSeq(SubSeq(bytes, 1, m), a + 1, b) = SubSeq(bytes, a + 1, b)
  BY <1>1, <1>3, <1>4
<1>6. QED
  BY <1>2, <1>3, <1>5 DEF RecordAt

\* A record inside some bytes is there when more follow.
LEMMA RecordWithMore ==
    ASSUME ShardConstants, NEW bytes \in Seq(Byte), NEW more \in Seq(Byte),
           NEW k \in Nat \ {0}, k * RecordLen <= Len(bytes)
    PROVE  RecordAt(bytes \o more, k) = RecordAt(bytes, k)
<1>1. RecordLen \in Nat \ {0}
  BY DEF ShardConstants
<1>2. PICK a \in Nat : a = (k - 1) * RecordLen
  BY <1>1, OneLess
<1>3. PICK b \in Nat : b = k * RecordLen /\ b = a + RecordLen
  BY <1>1, <1>2, OneLess
<1>4. b <= Len(bytes)
  BY <1>3
<1>5. SubSeq(bytes \o more, a + 1, b) = SubSeq(bytes, a + 1, b)
  BY <1>1, <1>3, <1>4
<1>6. QED
  BY <1>2, <1>3, <1>5 DEF RecordAt

\* Bytes taken of the record under way leave the file in order.
LEMMA BytesGrow ==
    ASSUME ShardConstants, NEW w \in Nat, NEW d \in 0..(RecordLen - 1), NEW p \in 0..(RecordLen - d),
           NEW bytes, InOrder(bytes, w, w + 1, d),
           NEW more, more = bytes \o SubSeq(Encode(w + 1), d + 1, d + p)
    PROVE  InOrder(more, w, w + 1, d + p)
<1>1. RecordLen \in Nat \ {0}
  BY DEF ShardConstants
<1>2. PICK W \in Nat : W = w * RecordLen
  BY <1>1, OneMore
<1>3. PICK e \in Seq(Byte) : e = Encode(w + 1) /\ Len(e) = RecordLen
  BY EncodeIs
<1>4. PICK c : c = SubSeq(e, d + 1, d + p)
  OBVIOUS
<1>5. c \in Seq(Byte) /\ Len(c) = p /\ \A i \in 1..p : c[i] = e[d + i]
  <2>1. d \in Nat /\ p \in Nat /\ d + p <= Len(e)
    BY <1>1, <1>3
  <2>2. QED
    BY <1>4, <2>1, StretchIs
<1>0. d \in Nat /\ p \in Nat /\ d + p <= RecordLen
  BY <1>1
<1>6. bytes \in Seq(Byte) /\ Len(bytes) = W + d /\ SubSeq(bytes, W + 1, Len(bytes)) = SubSeq(e, 1, d)
  BY <1>2, <1>3 DEF InOrder
<1>12. bytes \in Seq(Byte) /\ Len(bytes) = W + d
  BY <1>6
<1>13. c \in Seq(Byte) /\ Len(c) = p
  BY <1>5
<1>14. W \in Nat
  OBVIOUS
<1>7. more = bytes \o c
  BY <1>3, <1>4
<1>15. /\ more \in Seq(Byte) /\ Len(more) = Len(bytes) + Len(c)
       /\ \A j \in 1..Len(c) : more[Len(bytes) + j] = c[j]
  <2>1. bytes \o c \in Seq(Byte) /\ Len(bytes \o c) = Len(bytes) + Len(c)
    BY <1>12, <1>13, AfterIt
  <2>2. \A j \in 1..Len(c) : (bytes \o c)[Len(bytes) + j] = c[j]
    BY <1>12, <1>13, AfterIt
  <2>3. QED
    BY ONLY <1>7, <2>1, <2>2
<1>8. more \in Seq(Byte) /\ Len(more) = W + (d + p)
  BY ONLY <1>0, <1>12, <1>13, <1>14, <1>15
<1>9. ASSUME NEW k \in 1..w PROVE RecordAt(more, k) = Encode(k)
  <2>1. k \in Nat \ {0} /\ k * RecordLen <= W
    BY <1>1, <1>2, MoreRecords
  <2>2. k * RecordLen \in Nat
    BY <1>1, OneMore
  <2>3. k * RecordLen <= Len(bytes)
    BY ONLY <1>0, <1>14, <1>12, <2>1, <2>2
  <2>4. RecordAt(bytes \o c, k) = RecordAt(bytes, k)
    BY <1>5, <1>6, <2>1, <2>3, RecordWithMore
  <2>5. QED
    BY <1>7, <2>4 DEF InOrder
<1>10. SubSeq(more, W + 1, Len(more)) = SubSeq(e, 1, d + p)
  <2>1. PICK left : left = SubSeq(more, W + 1, Len(more))
    OBVIOUS
  <2>2. PICK right : right = SubSeq(e, 1, d + p)
    OBVIOUS
  <2>3. left \in Seq(Byte) /\ Len(left) = d + p /\ \A i \in 1..(d + p) : left[i] = more[W + i]
    <3>1. PICK y \in Nat : y = d + p
      BY <1>0
    <3>2. W + y <= Len(more) /\ Len(more) = W + y /\ W \in Nat
      BY <1>8, <1>14, <3>1
    <3>3. left = SubSeq(more, W + 1, W + y)
      BY <2>1, <3>2
    <3>4. left \in Seq(Byte) /\ Len(left) = y /\ \A i \in 1..y : left[i] = more[W + i]
      BY <1>8, <3>2, <3>3, StretchIs
    <3>5. QED
      BY <3>1, <3>4
  <2>4. right \in Seq(Byte) /\ Len(right) = d + p /\ \A i \in 1..(d + p) : right[i] = e[i]
    BY <1>1, <1>3, <2>2
  <2>5. ASSUME NEW i \in 1..(d + p) PROVE left[i] = right[i]
    <3>1. CASE i <= d
      <4>1. i \in 1..d
        BY <1>1, <3>1
      <4>2. more[W + i] = bytes[W + i]
        BY ONLY <1>0, <1>14, <1>13, <1>12, <1>7, <4>1
      <4>3. SubSeq(bytes, W + 1, Len(bytes))[i] = bytes[W + i]
        BY <1>1, <1>2, <1>6, <4>1
      <4>4. SubSeq(e, 1, d)[i] = e[i]
        BY <1>1, <1>3, <4>1
      <4>5. QED
        BY <1>6, <2>3, <2>4, <4>2, <4>3, <4>4
    <3>2. CASE i > d
      <4>1. PICK j \in 1..p : i = d + j
        <5>1. i - d \in 1..p /\ i = d + (i - d)
          BY <1>1, <3>2
        <5>2. QED
          BY <5>1
      <4>2. W + i = Len(bytes) + j
        BY <1>1, <1>2, <1>6, <4>1
      <4>3. more[Len(bytes) + j] = c[j]
        BY <1>13, <1>15, <4>1
      <4>4. QED
        BY <1>5, <2>3, <2>4, <4>1, <4>2, <4>3
    <3>3. QED
      BY <1>1, <3>1, <3>2
  <2>6. left = right
    BY <2>3, <2>4, <2>5, SeqEqual
  <2>7. QED
    BY <2>1, <2>2, <2>6
<1>11. QED
  BY <1>2, <1>3, <1>8, <1>9, <1>10 DEF InOrder

\* A record whose last byte is taken is one more record of the file.
LEMMA RecordDone ==
    ASSUME ShardConstants, NEW w \in Nat, NEW bytes, InOrder(bytes, w, w + 1, RecordLen)
    PROVE  \A n : InOrder(bytes, w + 1, n, 0)
<1>1. RecordLen \in Nat \ {0}
  BY DEF ShardConstants
<1>2. PICK W \in Nat : W = w * RecordLen /\ (w + 1) * RecordLen = W + RecordLen
  BY <1>1, OneMore
<1>3. bytes \in Seq(Byte) /\ Len(bytes) = W + RecordLen
  BY <1>2 DEF InOrder
<1>4. PICK e \in Seq(Byte) : e = Encode(w + 1) /\ Len(e) = RecordLen
  BY EncodeIs
<1>5. SubSeq(e, 1, RecordLen) = e
  BY <1>1, <1>4
<1>6. SubSeq(bytes, W + 1, W + RecordLen) = e
  BY <1>2, <1>3, <1>4, <1>5 DEF InOrder
<1>7. RecordAt(bytes, w + 1) = e
  <2>1. (w + 1) - 1 = w
    OBVIOUS
  <2>2. QED
    BY <1>2, <1>6, <2>1 DEF RecordAt
<1>8. \A k \in 1..(w + 1) : RecordAt(bytes, k) = Encode(k)
  <2>1. SUFFICES ASSUME NEW k \in 1..(w + 1) PROVE RecordAt(bytes, k) = Encode(k)
    OBVIOUS
  <2>2. k \in 1..w \/ k = w + 1
    OBVIOUS
  <2>3. QED
    BY <1>4, <1>7, <2>2 DEF InOrder
<1>9. ASSUME NEW n PROVE SubSeq(bytes, W + RecordLen + 1, Len(bytes)) = SubSeq(Encode(n), 1, 0)
  <2>1. SubSeq(bytes, W + RecordLen + 1, Len(bytes)) = <<>>
    BY <1>1, <1>2, <1>3
  <2>2. SubSeq(Encode(n), 1, 0) = <<>>
    BY <1>1 DEF Encode
  <2>3. QED
    BY <2>1, <2>2
<1>10. QED
  BY <1>1, <1>2, <1>3, <1>8, <1>9 DEF InOrder

-----------------------------------------------------------------------------
(* Recovery.                                                               *)

\* A cut of m bytes in which c records are found and nothing else to speak of.
RecoversTo(cut, m, c) ==
    /\ c \in Nat /\ c * RecordLen <= m
    /\ Recovered(cut).count = c
    /\ Recovered(cut).discarded = m - c * RecordLen
    /\ ~ Recovered(cut).outOfOrder
    /\ \A k \in 1..c : RecordAt(cut, k) = Encode(k)

\* Of bytes in order cut off anywhere every whole record is recovered, and no orphan
\* is met behind the last.
LEMMA RecoveredIs ==
    ASSUME ShardConstants, NEW w \in Nat, NEW n, NEW d \in 0..(RecordLen - 1),
           NEW bytes, InOrder(bytes, w, n, d),
           NEW m \in 0..Len(bytes), NEW cut, cut = SubSeq(bytes, 1, m)
    PROVE  RecoversTo(cut, m, m \div RecordLen)
<1>1. RecordLen \in Nat \ {0}
  BY DEF ShardConstants
<1>2. bytes \in Seq(Byte) /\ Len(bytes) = w * RecordLen + d
  BY DEF InOrder
<1>3. m \in Nat /\ m <= w * RecordLen + d /\ w * RecordLen \in Nat /\ d \in Nat /\ d < RecordLen
  BY <1>1, <1>2, OneMore
<1>4. PICK c \in Nat : c = m \div RecordLen /\ c * RecordLen <= m
  BY <1>1, <1>3, WholeRecords
<1>5. c * RecordLen \in Nat
  BY <1>1, OneMore
<1>6. c <= w
  <2>1. SUFFICES ASSUME w < c PROVE FALSE
    OBVIOUS
  <2>2. w * RecordLen + RecordLen <= c * RecordLen
    BY <1>1, <2>1, MoreRecords
  <2>3. PICK a \in Nat, b \in Nat : a = w * RecordLen /\ b = c * RecordLen
    BY <1>3, <1>5
  <2>4. QED
    BY ONLY <1>1, <1>3, <1>4, <2>2, <2>3
<1>7. cut \in Seq(Byte) /\ Len(cut) = m
  BY <1>2, <1>3
<1>8. ASSUME NEW k \in 1..c PROVE RecordAt(cut, k) = Encode(k)
  <2>1. k \in Nat \ {0} /\ k * RecordLen <= c * RecordLen /\ k \in 1..w /\ k * RecordLen \in Nat
    BY <1>1, <1>6, MoreRecords, OneMore
  <2>2. k * RecordLen <= m
    BY ONLY <1>3, <1>4, <1>5, <2>1
  <2>3. RecordAt(cut, k) = RecordAt(bytes, k)
    BY <1>2, <2>1, <2>2, RecordInPrefix
  <2>4. QED
    BY <2>1, <2>3 DEF InOrder
<1> DEFINE good(x) == \A k \in 1..x : Verifies(RecordAt(cut, k)) /\ RecordAt(cut, k)[1][1] = k
           count == CHOOSE x \in 0..c : good(x) /\ (x < c => ~good(x + 1))
<1>9. \A x \in 0..c : good(x)
  BY <1>8, EncodeIs
<1>10. count = c
  <2>1. c \in 0..c /\ good(c) /\ (c < c => ~good(c + 1))
    BY <1>9
  <2>2. count \in 0..c /\ (count < c => ~good(count + 1))
    <3> HIDE DEF good
    <3>1. QED
      BY <2>1
  <2> HIDE DEF count, good
  <2>3. count < c => count + 1 \in 0..c
    BY <2>2
  <2>4. ~ (count < c)
    BY <1>9, <2>2, <2>3
  <2>5. QED
    BY <2>2, <2>4
<1>11. Recovered(cut) = [count |-> count, discarded |-> Len(cut) - count * RecordLen,
                         outOfOrder |-> count < c /\ Verifies(RecordAt(cut, count + 1))]
  BY <1>4, <1>7 DEF Recovered
<1> HIDE DEF count, good
<1>12. Recovered(cut).count = c /\ Recovered(cut).discarded = m - c * RecordLen
  BY <1>7, <1>10, <1>11
<1>13. Recovered(cut).outOfOrder = (count < c /\ Verifies(RecordAt(cut, count + 1)))
  BY <1>11
<1>14. ~ (count < c)
  BY <1>10
<1>15. ~ Recovered(cut).outOfOrder
  BY <1>13, <1>14
<1>16. QED
  BY <1>4, <1>8, <1>12, <1>15 DEF RecoversTo

-----------------------------------------------------------------------------
(* One shard and its file.                                                 *)

FileForm == [durable : Seq(Byte), dirty : Seq(Byte)]

\* What a shard keeps in memory: a record under way is the next one, and not whole.
InMemory(s) ==
    /\ s = [written |-> s.written, acked |-> s.acked, degraded |-> s.degraded,
            sinceSync |-> s.sinceSync, pendingSeq |-> s.pendingSeq, pendingDone |-> s.pendingDone]
    /\ s.written \in Nat /\ s.acked \in Nat
    /\ s.pendingDone \in 0..(RecordLen - 1)
    /\ IF s.pendingSeq = 0 THEN s.pendingDone = 0 ELSE s.pendingSeq = s.written + 1

\* What was called durable is.
Durable(s, file) == s.acked * RecordLen <= Len(file.durable)

OneShard(s, file) ==
    /\ InMemory(s)
    /\ file \in FileForm
    /\ InOrder(ReadAll(file), s.written, s.pendingSeq, s.pendingDone)

\* All that is read of a file is its bytes.
LEMMA ReadAllIs ==
    ASSUME NEW file \in FileForm
    PROVE  /\ ReadAll(file) \in Seq(Byte) /\ file.durable \in Seq(Byte) /\ file.dirty \in Seq(Byte)
           /\ Len(ReadAll(file)) = Len(file.durable) + Len(file.dirty)
<1>1. file.durable \in Seq(Byte) /\ file.dirty \in Seq(Byte)
  BY DEF FileForm
<1>2. QED
  BY <1>1, AfterIt DEF ReadAll

\* A shard recovers from a power cut with every whole record it finds, and none that it
\* called durable is gone if the disk kept what it called durable.
LEMMA CrashIs ==
    ASSUME ShardConstants, NEW s, NEW file, OneShard(s, file), NEW f \in CrashedFiles(file)
    PROVE  /\ OneShard(Recover(s, f), RecoveredFile(f))
           /\ Durable(Recover(s, f), RecoveredFile(f))
           /\ ~ Recovered(f.durable).outOfOrder
           /\ Durable(s, file) => ~ (Recovered(f.durable).count < s.acked)
<1>1. RecordLen \in Nat \ {0}
  BY DEF ShardConstants
<1>2. file \in FileForm /\ InMemory(s)
  BY DEF OneShard
<1>3. PICK a \in Seq(Byte), b \in Seq(Byte) : a = file.durable /\ b = file.dirty
  BY <1>2, ReadAllIs
<1>4. PICK keep \in 0..Len(b) : f = [durable |-> a \o SubSeq(b, 1, keep), dirty |-> <<>>]
  BY <1>3 DEF CrashedFiles
<1>5. PICK bytes \in Seq(Byte) : bytes = a \o b /\ bytes = ReadAll(file)
  BY <1>2, <1>3, ReadAllIs DEF ReadAll
<1>6. PICK m \in Nat : m = Len(a) + keep
  OBVIOUS
<1>31. Len(bytes) = Len(a) + Len(b)
  BY <1>5, AfterIt
<1>32. Len(a) \in Nat /\ Len(b) \in Nat
  OBVIOUS
<1>33. m \in 0..Len(bytes) /\ m \in 0..(Len(a) + Len(b))
  BY ONLY <1>31, <1>32, <1>6, keep \in 0..Len(b)
<1>7. PICK cut \in Seq(Byte) : cut = SubSeq(bytes, 1, m)
  BY <1>33, PrefixIs
<1>8. m \in 0..Len(bytes) /\ Len(cut) = m /\ \A i \in 1..m : cut[i] = bytes[i]
  BY <1>7, <1>33, PrefixIs
<1>9. a \o SubSeq(b, 1, keep) = cut
  <2>1. PICK x : x = a \o SubSeq(b, 1, keep)
    OBVIOUS
  <2>2. x \in Seq(Byte) /\ Len(x) = m
    BY <1>6, <2>1
  <2>3. ASSUME NEW i \in 1..m PROVE x[i] = cut[i]
    <3>1. cut[i] = bytes[i]
      BY <1>7, <1>8
    <3>2. bytes[i] = IF i <= Len(a) THEN a[i] ELSE b[i - Len(a)]
      <4>1. i \in 1..(Len(a) + Len(b))
        BY ONLY <1>32, <1>33, i \in 1..m
      <4>2. QED
        BY <1>5, <4>1, BeforeIt
    <3>3. x[i] = IF i <= Len(a) THEN a[i] ELSE b[i - Len(a)]
      BY <1>6, <2>1
    <3>4. QED
      BY <3>1, <3>2, <3>3
  <2>4. x = cut
    BY <1>8, <2>2, <2>3, SeqEqual
  <2>5. QED
    BY <2>1, <2>4
<1>10. f = [durable |-> cut, dirty |-> <<>>] /\ f.durable = cut /\ f.dirty = <<>> /\ ReadAll(f) = cut
  <2>1. f = [durable |-> cut, dirty |-> <<>>]
    BY <1>4, <1>9
  <2>2. cut \o <<>> = cut
    OBVIOUS
  <2>3. QED
    BY <2>1, <2>2 DEF ReadAll
<1>11. InOrder(bytes, s.written, s.pendingSeq, s.pendingDone)
  BY <1>5 DEF OneShard
<1>12. s.written \in Nat /\ s.pendingDone \in 0..(RecordLen - 1) /\ s.acked \in Nat
  BY <1>2 DEF InMemory
<1>34. RecoversTo(cut, m, m \div RecordLen)
  BY <1>7, <1>8, <1>11, <1>12, RecoveredIs
<1>13. PICK c \in Nat : /\ c = m \div RecordLen /\ c * RecordLen <= m
                        /\ Recovered(cut).count = c
                        /\ Recovered(cut).discarded = m - c * RecordLen
                        /\ ~ Recovered(cut).outOfOrder
                        /\ \A k \in 1..c : RecordAt(cut, k) = Encode(k)
  BY <1>34 DEF RecoversTo
<1>14. PICK C \in Nat : C = c * RecordLen /\ C <= m
  BY <1>1, <1>13, OneMore
<1>15. PICK r : r = Recover(s, f)
  OBVIOUS
<1>16. r = [written |-> c, acked |-> SmallerOf(s.acked, c), degraded |-> FALSE, sinceSync |-> 0,
            pendingSeq |-> 0, pendingDone |-> 0]
  BY <1>10, <1>13, <1>15 DEF Recover, Fresh
<1>17. r.written = c /\ r.acked = SmallerOf(s.acked, c) /\ r.pendingSeq = 0 /\ r.pendingDone = 0
  BY <1>16
<1>18. r.acked \in Nat /\ r.acked <= c
  BY <1>12, <1>17 DEF SmallerOf
<1>19. InMemory(r)
  <2>1. r = [written |-> r.written, acked |-> r.acked, degraded |-> r.degraded,
             sinceSync |-> r.sinceSync, pendingSeq |-> r.pendingSeq, pendingDone |-> r.pendingDone]
    BY <1>16
  <2>2. 0 \in 0..(RecordLen - 1)
    BY <1>1
  <2>3. QED
    BY <1>17, <1>18, <2>1, <2>2 DEF InMemory
<1>20. PICK kept \in Seq(Byte) : kept = SubSeq(cut, 1, C) /\ Len(kept) = C
  <2>1. C \in 0..Len(cut)
    BY <1>8, <1>14
  <2>2. QED
    BY <2>1, PrefixIs
<1>21. RecoveredFile(f) = [durable |-> kept, dirty |-> <<>>]
  <2>1. CASE m - C > 0
    <3>1. RecoveredFile(f) = Truncate(f, C)
      BY <1>10, <1>13, <1>14, <2>1 DEF RecoveredFile
    <3>2. C <= Len(f.durable)
      BY <1>8, <1>10, <1>14
    <3>3. QED
      BY <1>10, <1>20, <3>1, <3>2 DEF Truncate
  <2>2. CASE ~ (m - C > 0)
    <3>1. RecoveredFile(f) = f
      BY <1>10, <1>13, <1>14, <2>2 DEF RecoveredFile
    <3>2. C = m
      BY <1>14, <2>2
    <3>3. kept = cut
      BY <1>8, <1>20, <3>2
    <3>4. QED
      BY <1>10, <3>1, <3>3
  <2>3. QED
    BY <2>1, <2>2
<1>22. PICK g : g = RecoveredFile(f)
  OBVIOUS
<1>23. g.durable = kept /\ g \in FileForm /\ ReadAll(g) = kept
  <2>1. g = [durable |-> kept, dirty |-> <<>>]
    BY <1>21, <1>22
  <2>2. kept \o <<>> = kept
    OBVIOUS
  <2>3. QED
    BY <2>1, <2>2 DEF ReadAll, FileForm
<1>24. \A k \in 1..c : RecordAt(kept, k) = Encode(k)
  <2>1. SUFFICES ASSUME NEW k \in 1..c PROVE RecordAt(kept, k) = Encode(k)
    OBVIOUS
  <2>2. k \in Nat \ {0} /\ k * RecordLen <= c * RecordLen
    BY <1>1, MoreRecords
  <2>3. k * RecordLen <= C /\ C \in 0..Len(cut)
    BY <1>8, <1>14, <2>2
  <2>4. RecordAt(kept, k) = RecordAt(cut, k)
    BY <1>20, <2>2, <2>3, RecordInPrefix
  <2>5. QED
    BY <1>13, <2>4
<1>25. InOrder(kept, c, 0, 0)
  <2>1. Len(kept) = c * RecordLen + 0
    BY <1>14, <1>20
  <2>2. SubSeq(kept, C + 1, Len(kept)) = <<>>
    BY <1>14, <1>20
  <2>3. SubSeq(Encode(0), 1, 0) = <<>>
    BY <1>1 DEF Encode
  <2>4. QED
    BY <1>14, <1>20, <1>24, <2>1, <2>2, <2>3 DEF InOrder
<1>26. OneShard(r, g)
  BY <1>17, <1>19, <1>23, <1>25 DEF OneShard
<1>27. Durable(r, g)
  <2>1. r.acked * RecordLen <= c * RecordLen
    BY <1>1, <1>18, MoreRecords
  <2>2. QED
    BY <1>14, <1>20, <1>23, <2>1 DEF Durable
<1>28. ASSUME Durable(s, file), c < s.acked PROVE FALSE
  <2>1. c * RecordLen + RecordLen <= s.acked * RecordLen
    BY <1>1, <1>12, <1>28, MoreRecords
  <2>2. PICK A \in Nat : A = s.acked * RecordLen
    BY <1>1, <1>12, OneMore
  <2>3. A <= Len(a)
    BY <1>3, <1>28, <2>2 DEF Durable
  <2>4. m < C + RecordLen
    BY <1>1, <1>13, <1>14, WholeRecords
  <2>5. Len(a) <= m
    BY <1>6
  <2>6. C + RecordLen <= A
    BY <1>14, <2>1, <2>2
  <2>7. Len(a) \in Nat
    OBVIOUS
  <2>8. QED
    BY ONLY <1>1, <1>6, <1>14, <2>2, <2>3, <2>4, <2>5, <2>6, <2>7
<1>29. QED
  BY <1>10, <1>13, <1>15, <1>22, <1>26, <1>27, <1>28

\* A record under way, or the next one begun.
LEMMA PendingIs ==
    ASSUME ShardConstants, NEW s, NEW file, OneShard(s, file)
    PROVE  /\ OneShard(Pending(s), file)
           /\ Pending(s).pendingSeq = Pending(s).written + 1
           /\ Pending(s).written = s.written /\ Pending(s).acked = s.acked
<1>1. InMemory(s) /\ InOrder(ReadAll(file), s.written, s.pendingSeq, s.pendingDone) /\ file \in FileForm
  BY DEF OneShard
<1>2. s.written \in Nat /\ s.acked \in Nat /\ s.pendingDone \in 0..(RecordLen - 1)
  BY <1>1 DEF InMemory
<1>3. CASE s.pendingSeq # 0
  <2>1. Pending(s) = s
    BY <1>3 DEF Pending
  <2>2. s.pendingSeq = s.written + 1
    BY <1>1, <1>3 DEF InMemory
  <2>3. QED
    BY <2>1, <2>2
<1>4. CASE s.pendingSeq = 0
  <2>1. PICK b : b = Pending(s)
    OBVIOUS
  <2>2. b = [s EXCEPT !.pendingSeq = s.written + 1, !.pendingDone = 0]
    BY <1>4, <2>1 DEF Pending
  <2>3. s = [written |-> s.written, acked |-> s.acked, degraded |-> s.degraded,
             sinceSync |-> s.sinceSync, pendingSeq |-> s.pendingSeq, pendingDone |-> s.pendingDone]
    BY <1>1 DEF InMemory
  <2>4. b = [written |-> s.written, acked |-> s.acked, degraded |-> s.degraded,
             sinceSync |-> s.sinceSync, pendingSeq |-> s.written + 1, pendingDone |-> 0]
    BY <2>2, <2>3
  <2>5. b.written = s.written /\ b.acked = s.acked /\ b.pendingSeq = s.written + 1 /\ b.pendingDone = 0
    BY <2>4
  <2>6. 0 \in 0..(RecordLen - 1)
    BY DEF ShardConstants
  <2>7. InMemory(b)
    BY <1>2, <2>4, <2>5, <2>6 DEF InMemory
  <2>8. s.pendingDone = 0
    BY <1>1, <1>4 DEF InMemory
  <2>9. \A n : SubSeq(Encode(n), 1, 0) = <<>>
    BY DEF Encode, ShardConstants
  <2>10. InOrder(ReadAll(file), b.written, b.pendingSeq, b.pendingDone)
    BY <1>1, <2>5, <2>8, <2>9 DEF InOrder
  <2>11. QED
    BY <1>1, <2>1, <2>5, <2>7, <2>10 DEF OneShard
<1>5. QED
  BY <1>3, <1>4

\* The file takes part of the record, or all the rest of it.
LEMMA PushIs ==
    ASSUME ShardConstants, NEW b, NEW file, OneShard(b, file), b.pendingSeq = b.written + 1,
           NEW push \in Pushes(b)
    PROVE  /\ OneShard(Pushed(b, push), Append_(file, b, push))
           /\ Append_(file, b, push).durable = file.durable
           /\ Pushed(b, push).acked = b.acked
           /\ Pushed(b, push).written \in {b.written, b.written + 1}
<1>1. RecordLen \in Nat \ {0}
  BY DEF ShardConstants
<1>2. InMemory(b) /\ InOrder(ReadAll(file), b.written, b.written + 1, b.pendingDone) /\ file \in FileForm
  BY DEF OneShard
<1>3. PICK w \in Nat, d \in 0..(RecordLen - 1) : w = b.written /\ d = b.pendingDone
  BY <1>2 DEF InMemory
<1>4. PICK p \in 0..(RecordLen - d) : p = push[1]
  <2>1. push \in {<<RecordLen - d, FALSE>>} \cup ({0} \cup 1..RecordLen - d - 1) \X {TRUE}
                 \cup (0..RecordLen - d - 2) \X {FALSE}
    BY <1>3 DEF Pushes
  <2>2. push[1] = RecordLen - d \/ push[1] \in {0} \cup 1..(RecordLen - d - 1)
        \/ push[1] \in 0..(RecordLen - d - 2)
    <3>1. CASE push = <<RecordLen - d, FALSE>>
      BY <3>1
    <3>2. CASE push \in ({0} \cup 1..RecordLen - d - 1) \X {TRUE}
      BY <3>2
    <3>3. CASE push \in (0..RecordLen - d - 2) \X {FALSE}
      BY <3>3
    <3>4. QED
      BY <2>1, <3>1, <3>2, <3>3
  <2>3. push[1] \in 0..(RecordLen - d)
    BY <1>1, <2>2
  <2>4. QED
    BY <2>3
<1>5. PICK more : more = SubSeq(Encode(w + 1), d + 1, d + p)
  OBVIOUS
<1>6. more \in Seq(Byte)
  <2>1. Encode(w + 1) \in Seq(Byte) /\ Len(Encode(w + 1)) = RecordLen
    BY EncodeIs
  <2>2. d + 1 \in Int /\ d + p \in Int /\ 1 <= d + 1 /\ d + p <= RecordLen
    BY <1>1
  <2>3. QED
    BY <1>5, <2>1, <2>2
<1>7. PICK g : g = Append_(file, b, push)
  OBVIOUS
<1>8. PICK x \in Seq(Byte), y \in Seq(Byte) : file = [durable |-> x, dirty |-> y]
  BY <1>2 DEF FileForm
<1>9. g = [durable |-> x, dirty |-> y \o more]
  BY <1>3, <1>4, <1>5, <1>7, <1>8 DEF Append_
<1>10. g.durable = file.durable /\ g \in FileForm
  BY <1>6, <1>8, <1>9 DEF FileForm
<1>11. ReadAll(g) = ReadAll(file) \o more
  <2>1. Assoc(x, y, more)
    BY <1>6, Associates
  <2>2. ReadAll(g) = x \o (y \o more) /\ ReadAll(file) = x \o y
    BY <1>8, <1>9 DEF ReadAll
  <2>3. QED
    BY ONLY <2>1, <2>2, Zenon DEF Assoc
<1>12. InOrder(ReadAll(g), w, w + 1, d + p)
  BY <1>2, <1>3, <1>5, <1>11, BytesGrow
<1>13. b = [written |-> w, acked |-> b.acked, degraded |-> b.degraded,
            sinceSync |-> b.sinceSync, pendingSeq |-> w + 1, pendingDone |-> d]
  BY <1>2, <1>3 DEF InMemory
<1>14. b.acked \in Nat
  BY <1>2 DEF InMemory
<1>15. PICK c : c = Pushed(b, push)
  OBVIOUS
<1>16. CASE d + p < RecordLen
  <2> DEFINE x1 == push[2] \/ b.degraded
  <2>1. c = [b EXCEPT !.pendingDone = d + p, !.degraded = x1]
    BY <1>3, <1>4, <1>15, <1>16 DEF Pushed
  <2> HIDE DEF x1
  <2>2. PICK v : c = [b EXCEPT !.pendingDone = d + p, !.degraded = v]
    BY <2>1, Zenon
  <2>3. c = [written |-> w, acked |-> b.acked, degraded |-> v,
             sinceSync |-> b.sinceSync, pendingSeq |-> w + 1, pendingDone |-> d + p]
    <3>1. PICK u : u = [b EXCEPT !.pendingDone = d + p]
      OBVIOUS
    <3>2. u = [written |-> w, acked |-> b.acked, degraded |-> b.degraded,
               sinceSync |-> b.sinceSync, pendingSeq |-> w + 1, pendingDone |-> d + p]
      BY <1>13, <3>1
    <3>3. c = [u EXCEPT !.degraded = v]
      BY <2>2, <3>1, Zenon
    <3>4. QED
      BY ONLY <3>2, <3>3
  <2>4. c.written = w /\ c.acked = b.acked /\ c.pendingSeq = w + 1 /\ c.pendingDone = d + p
    BY <2>3
  <2>5. d + p \in 0..(RecordLen - 1)
    BY <1>1, <1>16
  <2>6. InMemory(c)
    <3>1. c = [written |-> c.written, acked |-> c.acked, degraded |-> c.degraded,
               sinceSync |-> c.sinceSync, pendingSeq |-> c.pendingSeq, pendingDone |-> c.pendingDone]
      BY <2>3
    <3>2. w + 1 # 0
      OBVIOUS
    <3>3. QED
      BY <1>14, <2>4, <2>5, <3>1, <3>2 DEF InMemory
  <2>7. OneShard(c, g)
    BY <1>10, <1>12, <2>4, <2>6 DEF OneShard
  <2>8. QED
    BY <1>3, <1>7, <1>10, <1>15, <2>4, <2>7
<1>17. CASE ~ (d + p < RecordLen)
  <2>1. d + p = RecordLen
    BY <1>1, <1>17
  <2>2. c = [b EXCEPT !.written = w + 1, !.sinceSync = b.sinceSync + 1, !.degraded = FALSE,
                      !.pendingSeq = 0, !.pendingDone = 0]
    BY <1>3, <1>4, <1>15, <1>17 DEF Pushed
  <2>3. c = [written |-> w + 1, acked |-> b.acked, degraded |-> FALSE,
             sinceSync |-> b.sinceSync + 1, pendingSeq |-> 0, pendingDone |-> 0]
    BY <1>13, <2>2
  <2>4. c.written = w + 1 /\ c.acked = b.acked /\ c.pendingSeq = 0 /\ c.pendingDone = 0
    BY <2>3
  <2>5. 0 \in 0..(RecordLen - 1)
    BY <1>1
  <2>6. InMemory(c)
    <3>1. c = [written |-> c.written, acked |-> c.acked, degraded |-> c.degraded,
               sinceSync |-> c.sinceSync, pendingSeq |-> c.pendingSeq, pendingDone |-> c.pendingDone]
      BY <2>3
    <3>2. QED
      BY <1>14, <2>4, <2>5, <3>1 DEF InMemory
  <2>7. InOrder(ReadAll(g), w + 1, 0, 0)
    BY <1>12, <2>1, RecordDone
  <2>8. OneShard(c, g)
    BY <1>10, <2>4, <2>6, <2>7 DEF OneShard
  <2>9. QED
    BY <1>3, <1>7, <1>10, <1>15, <2>4, <2>8
<1>18. QED
  BY <1>16, <1>17

\* What a flush calls durable is durable, if it was flushed.
LEMMA FlushIs ==
    ASSUME ShardConstants, NEW c, NEW g, OneShard(c, g)
    PROVE  /\ OneShard(Synced(c), Fsync(g)) /\ OneShard(Synced(c), g)
           /\ OneShard([c EXCEPT !.degraded = TRUE], g)
           /\ Durable(Synced(c), Fsync(g))
           /\ Durable(c, g) => Durable([c EXCEPT !.degraded = TRUE], g)
           /\ Synced(c).written = c.written /\ [c EXCEPT !.degraded = TRUE].written = c.written
<1>1. RecordLen \in Nat \ {0}
  BY DEF ShardConstants
<1>2. InMemory(c) /\ InOrder(ReadAll(g), c.written, c.pendingSeq, c.pendingDone) /\ g \in FileForm
  BY DEF OneShard
<1>3. c = [written |-> c.written, acked |-> c.acked, degraded |-> c.degraded,
           sinceSync |-> c.sinceSync, pendingSeq |-> c.pendingSeq, pendingDone |-> c.pendingDone]
  BY <1>2 DEF InMemory
<1>4. PICK y : y = Synced(c)
  OBVIOUS
<1>5. y = [written |-> c.written, acked |-> c.written, degraded |-> FALSE,
           sinceSync |-> 0, pendingSeq |-> c.pendingSeq, pendingDone |-> c.pendingDone]
  BY <1>3, <1>4 DEF Synced
<1>6. /\ y.written = c.written /\ y.acked = c.written
      /\ y.pendingSeq = c.pendingSeq /\ y.pendingDone = c.pendingDone
  BY <1>5
<1>7. InMemory(y)
  <2>1. y = [written |-> y.written, acked |-> y.acked, degraded |-> y.degraded,
             sinceSync |-> y.sinceSync, pendingSeq |-> y.pendingSeq, pendingDone |-> y.pendingDone]
    BY <1>5
  <2>2. QED
    BY <1>2, <1>6, <2>1 DEF InMemory
<1>8. PICK z : z = [c EXCEPT !.degraded = TRUE]
  OBVIOUS
<1>9. z = [written |-> c.written, acked |-> c.acked, degraded |-> TRUE,
           sinceSync |-> c.sinceSync, pendingSeq |-> c.pendingSeq, pendingDone |-> c.pendingDone]
  BY <1>3, <1>8
<1>10. /\ z.written = c.written /\ z.acked = c.acked
       /\ z.pendingSeq = c.pendingSeq /\ z.pendingDone = c.pendingDone
  BY <1>9
<1>11. InMemory(z)
  <2>1. z = [written |-> z.written, acked |-> z.acked, degraded |-> z.degraded,
             sinceSync |-> z.sinceSync, pendingSeq |-> z.pendingSeq, pendingDone |-> z.pendingDone]
    BY <1>9
  <2>2. QED
    BY <1>2, <1>10, <2>1 DEF InMemory
<1>12. PICK h : h = Fsync(g)
  OBVIOUS
<1>13. h.durable = ReadAll(g) /\ h \in FileForm /\ ReadAll(h) = ReadAll(g)
  <2>1. ReadAll(g) \in Seq(Byte)
    BY <1>2, ReadAllIs
  <2>2. h = [durable |-> ReadAll(g), dirty |-> <<>>]
    BY <1>12 DEF Fsync
  <2>3. PICK e \in Seq(Byte) : e = ReadAll(g)
    BY <2>1
  <2>4. h = [durable |-> e, dirty |-> <<>>] /\ e \o <<>> = e
    BY <2>2, <2>3
  <2>5. h.durable = e /\ h.dirty = <<>> /\ h \in FileForm
    BY <2>4 DEF FileForm
  <2>6. ReadAll(h) = e \o <<>>
    BY <2>5 DEF ReadAll
  <2>7. QED
    BY <2>3, <2>4, <2>5, <2>6
<1>14. OneShard(y, h) /\ OneShard(y, g) /\ OneShard(z, g)
  BY <1>2, <1>6, <1>7, <1>10, <1>11, <1>13 DEF OneShard
<1>15. Durable(y, h)
  <2>1. PICK W \in Nat, d \in Nat : W = c.written * RecordLen /\ d = c.pendingDone
    BY <1>1, <1>2, OneMore DEF InMemory
  <2>2. Len(h.durable) = W + d
    BY <1>2, <1>13, <2>1 DEF InOrder
  <2>3. W <= W + d
    OBVIOUS
  <2>4. QED
    BY <1>6, <2>1, <2>2, <2>3 DEF Durable
<1>16. Durable(c, g) => Durable(z, g)
  BY <1>10 DEF Durable
<1>17. QED
  BY <1>4, <1>6, <1>8, <1>10, <1>12, <1>14, <1>15, <1>16

\* What a tick leaves: the file in order, and what was called durable durable unless the
\* disk lied about it.
Ticked(s, file, o) ==
    /\ OneShard(o[1], o[2])
    /\ s.written <= o[1].written
    /\ o[3] \in BOOLEAN
    /\ Durable(s, file) => Durable(o[1], o[2]) \/ o[3] = TRUE

\* Every outcome of a tick is one of these.
LEMMA TickIs ==
    ASSUME ShardConstants, NEW s, NEW file, OneShard(s, file), NEW o \in TickOutcomes(s, file)
    PROVE  Ticked(s, file, o)
<1>1. PICK b : b = Pending(s)
  OBVIOUS
<1>2. OneShard(b, file) /\ b.pendingSeq = b.written + 1 /\ b.written = s.written /\ b.acked = s.acked
  BY <1>1, PendingIs
<1>3. PICK push \in Pushes(b) :
          LET c == Pushed(b, push)
              g == Append_(file, b, push)
          IN  \/ o = <<c, g, FALSE>>
              \/ o = <<Synced(c), Fsync(g), FALSE>>
              \/ o = <<Synced(c), g, TRUE>>
              \/ o = <<[c EXCEPT !.degraded = TRUE], g, FALSE>>
  <2>1. PICK push \in Pushes(b) :
            LET x == [s |-> Pushed(b, push), file |-> Append_(file, b, push)]
            IN  o \in IF ~SyncDue(x.s) THEN {<<x.s, x.file, FALSE>>}
                      ELSE {<<Synced(x.s), Fsync(x.file), FALSE>>,
                            <<Synced(x.s), x.file, TRUE>>,
                            <<[x.s EXCEPT !.degraded = TRUE], x.file, FALSE>>}
    BY <1>1 DEF TickOutcomes
  <2>2. QED
    BY <2>1
<1>4. PICK c : c = Pushed(b, push)
  OBVIOUS
<1>5. PICK g : g = Append_(file, b, push)
  OBVIOUS
<1>6. /\ OneShard(c, g) /\ g.durable = file.durable /\ c.acked = b.acked
      /\ c.written \in {b.written, b.written + 1}
  BY <1>2, <1>4, <1>5, PushIs
<1>7. s.written <= c.written
  <2>1. s.written \in Nat
    BY DEF OneShard, InMemory
  <2>2. QED
    BY <1>2, <1>6, <2>1
<1>8. Durable(s, file) => Durable(c, g)
  BY <1>2, <1>6 DEF Durable
<1>9. PICK y : y = Synced(c)
  OBVIOUS
<1>10. PICK z : z = [c EXCEPT !.degraded = TRUE]
  OBVIOUS
<1>11. PICK h : h = Fsync(g)
  OBVIOUS
<1>12. /\ OneShard(y, h) /\ OneShard(y, g) /\ OneShard(z, g)
       /\ Durable(y, h) /\ (Durable(c, g) => Durable(z, g))
       /\ y.written = c.written /\ z.written = c.written
  BY <1>6, <1>9, <1>10, <1>11, FlushIs
<1>13. o = <<c, g, FALSE>> \/ o = <<y, h, FALSE>> \/ o = <<y, g, TRUE>> \/ o = <<z, g, FALSE>>
  BY <1>3, <1>4, <1>5, <1>9, <1>10, <1>11
<1>14. CASE o = <<c, g, FALSE>>
  <2>1. o[1] = c /\ o[2] = g /\ o[3] = FALSE
    BY <1>14
  <2>2. QED
    BY <1>6, <1>7, <1>8, <2>1 DEF Ticked
<1>15. CASE o = <<y, h, FALSE>>
  <2>1. o[1] = y /\ o[2] = h /\ o[3] = FALSE
    BY <1>15
  <2>2. QED
    BY <1>7, <1>12, <2>1 DEF Ticked
<1>16. CASE o = <<y, g, TRUE>>
  <2>1. o[1] = y /\ o[2] = g /\ o[3] = TRUE
    BY <1>16
  <2>2. QED
    BY <1>7, <1>12, <2>1 DEF Ticked
<1>17. CASE o = <<z, g, FALSE>>
  <2>1. o[1] = z /\ o[2] = g /\ o[3] = FALSE
    BY <1>17
  <2>2. QED
    BY <1>7, <1>8, <1>12, <2>1 DEF Ticked
<1>18. QED
  BY <1>13, <1>14, <1>15, <1>16, <1>17

-----------------------------------------------------------------------------
(* The bus.                                                                *)

\* A message that speaks of no record its speaker has not written: a ping of its
\* sender's, a pong of the one it answers.
Speaker(e) == IF e.kind = "ping" THEN e.from ELSE e.to
Messages(sh) ==
    {e \in [due : Nat, from : ShardIds, to : ShardIds, kind : {"ping", "pong"}, nonce : Nat] :
        e.nonce <= sh[Speaker(e)].written}

\* Of the messages due there is one to take.
LEMMA RecvIs ==
    ASSUME NEW M, M \subseteq [due : Nat, from : ShardIds, to : ShardIds,
                               kind : {"ping", "pong"}, nonce : Nat],
           NEW q \in Seq(M), NEW time, NEW me, Deliverable(q, time, me) # {}
    PROVE  Recv(q, time, me) \in Deliverable(q, time, me)
<1> DEFINE D == Deliverable(q, time, me)
           T == {q[i].due : i \in D}
<1>1. D \subseteq DOMAIN q /\ DOMAIN q \subseteq Nat
  BY DEF Deliverable
<1>2. \A i \in D : q[i].due \in Nat
  <2>1. SUFFICES ASSUME NEW i \in D PROVE q[i].due \in Nat
    OBVIOUS
  <2>2. q[i] \in M
    BY <1>1
  <2>3. q[i] \in [due : Nat, from : ShardIds, to : ShardIds, kind : {"ping", "pong"}, nonce : Nat]
    BY <2>2
  <2>4. QED
    BY <2>3
<1> HIDE DEF D
<1>3. T \subseteq Nat /\ T # {}
  BY <1>2 DEF D
<1> HIDE DEF T
<1>4. PICK t \in T : \A y \in T : t <= y
  BY <1>3, LeastNumber
<1>5. PICK k \in D : t = q[k].due
  BY <1>4 DEF T
<1> DEFINE U == {i \in D : q[i].due = t}
<1>6. U \subseteq Nat /\ U # {}
  BY <1>1, <1>5
<1> HIDE DEF U
<1>7. PICK i \in U : \A j \in U : i <= j
  BY <1>6, LeastNumber
<1>8. i \in D /\ q[i].due = t
  BY <1>7 DEF U
<1>9. ASSUME NEW j \in D PROVE q[i].due < q[j].due \/ (q[i].due = q[j].due /\ i <= j)
  <2>1. q[j].due \in T /\ q[j].due \in Nat /\ t \in Nat
    BY <1>2, <1>3, <1>4 DEF T
  <2>2. t <= q[j].due
    BY <1>4, <2>1
  <2>3. CASE q[j].due = t
    <3>1. j \in U
      BY <2>3 DEF U
    <3>2. QED
      BY <1>7, <1>8, <2>3, <3>1
  <2>4. CASE q[j].due # t
    BY <1>8, <2>1, <2>2, <2>4
  <2>5. QED
    BY <2>3, <2>4
<1>10. \E x \in D : \A j \in D : q[x].due < q[j].due \/ (q[x].due = q[j].due /\ x <= j)
  BY <1>8, <1>9
<1>11. QED
  BY <1>10 DEF Recv, D

\* Copies of a message that may be sent may be sent.
LEMMA SendIs ==
    ASSUME NEW sh, NEW q \in Seq(Messages(sh)), NEW time \in Nat, ShardConstants,
           NEW fate \in SendFates, NEW from \in ShardIds, NEW to \in ShardIds,
           NEW kind \in {"ping", "pong"}, NEW nonce \in Nat,
           nonce <= sh[IF kind = "ping" THEN from ELSE to].written
    PROVE  Send(q, time, fate, from, to, kind, nonce) \in Seq(Messages(sh))
<1>1. PICK n \in 0..2 : fate \in [1..n -> 0..MaxDelay]
  BY DEF SendFates
<1>2. PICK copies : copies = [i \in DOMAIN fate |-> [due |-> time + fate[i], from |-> from, to |-> to,
                                                    kind |-> kind, nonce |-> nonce]]
  OBVIOUS
<1>3. ASSUME NEW i \in 1..n
      PROVE  [due |-> time + fate[i], from |-> from, to |-> to, kind |-> kind, nonce |-> nonce]
             \in Messages(sh)
  <2>1. time + fate[i] \in Nat
    BY <1>1, <1>3 DEF ShardConstants
  <2>2. PICK e : e = [due |-> time + fate[i], from |-> from, to |-> to, kind |-> kind, nonce |-> nonce]
    OBVIOUS
  <2>3. e \in [due : Nat, from : ShardIds, to : ShardIds, kind : {"ping", "pong"}, nonce : Nat]
    BY <2>1, <2>2
  <2>4. Speaker(e) = IF kind = "ping" THEN from ELSE to
    BY <2>2 DEF Speaker
  <2>5. e.nonce <= sh[Speaker(e)].written
    BY <2>2, <2>4
  <2>6. QED
    BY <2>2, <2>3, <2>5 DEF Messages
<1>4. copies \in [1..n -> Messages(sh)]
  BY <1>1, <1>2, <1>3
<1>5. copies \in Seq(Messages(sh))
  BY <1>4
<1>6. Send(q, time, fate, from, to, kind, nonce) = q \o copies
  BY <1>2 DEF Send
<1>7. QED
  BY <1>5, <1>6

\* Taking one message leaves only such messages, the answer to it among them.
LEMMA OnMsgIs ==
    ASSUME NEW sh, NEW q \in Seq(Messages(sh)), NEW time \in Nat, ShardConstants,
           NEW fate \in SendFates, NEW me \in ShardIds
    PROVE  OnMsg(q, time, me, fate) \in Seq(Messages(sh))
<1>1. CASE Deliverable(q, time, me) = {}
  BY <1>1 DEF OnMsg
<1>2. CASE Deliverable(q, time, me) # {}
  <2>1. PICK i : i = Recv(q, time, me)
    OBVIOUS
  <2>2. i \in DOMAIN q
    <3>1. Messages(sh) \subseteq [due : Nat, from : ShardIds, to : ShardIds,
                                  kind : {"ping", "pong"}, nonce : Nat]
      BY DEF Messages
    <3>2. i \in Deliverable(q, time, me)
      BY <1>2, <2>1, <3>1, RecvIs
    <3>3. QED
      BY <3>2 DEF Deliverable
  <2>3. q[i] \in Messages(sh)
    BY <2>2
  <2>4. /\ q[i].from \in ShardIds /\ q[i].to \in ShardIds /\ q[i].nonce \in Nat
        /\ q[i].kind \in {"ping", "pong"}
        /\ q[i].nonce <= sh[Speaker(q[i])].written
    BY <2>3 DEF Messages
  <2>5. PICK rest \in Seq(Messages(sh)) : rest = RemoveAt(q, i)
    <3>1. RemoveAt(q, i) \in Seq(Messages(sh))
      BY <2>2 DEF RemoveAt
    <3>2. QED
      BY <3>1
  <2>6. CASE q[i].kind = "ping"
    <3>1. OnMsg(q, time, me, fate) = Send(rest, time, fate, me, q[i].from, "pong", q[i].nonce)
      BY <1>2, <2>1, <2>5, <2>6 DEF OnMsg
    <3>2. Speaker(q[i]) = q[i].from
      BY <2>6 DEF Speaker
    <3>3. q[i].nonce <= sh[IF "pong" = "ping" THEN me ELSE q[i].from].written
      BY <2>4, <3>2
    <3>4. Send(rest, time, fate, me, q[i].from, "pong", q[i].nonce) \in Seq(Messages(sh))
      BY <2>4, <3>3, SendIs
    <3>5. QED
      BY <3>1, <3>4
  <2>7. CASE q[i].kind # "ping"
    BY <1>2, <2>1, <2>5, <2>7 DEF OnMsg
  <2>8. QED
    BY <2>6, <2>7
<1>3. QED
  BY <1>1, <1>2

\* v is the queue after each of the first n messages taken.
Takes(v, q, time, me, fates, n) ==
    v = [i \in 0..n |-> IF i = 0 THEN q ELSE OnMsg(v[i - 1], time, me, fates[i])]

\* The queues can be lined up for any number of messages.
LEMMA TakesExist ==
    ASSUME NEW q, NEW time, NEW me, NEW fates, NEW N \in Nat
    PROVE  \E v : Takes(v, q, time, me, fates, N)
<1> DEFINE T == {n \in Nat : ~ \E v : Takes(v, q, time, me, fates, n)}
<1> SUFFICES ASSUME N \in T PROVE FALSE
  OBVIOUS
<1>1. T \subseteq Nat /\ T # {}
  OBVIOUS
<1> HIDE DEF T
<1>2. PICK n \in T : \A k \in T : n <= k
  BY <1>1, LeastNumber
<1> USE DEF T
<1>3. n \in Nat /\ ~ \E v : Takes(v, q, time, me, fates, n)
  OBVIOUS
<1>4. CASE n = 0
  <2> DEFINE v == [i \in 0..0 |-> q]
  <2>1. v = [i \in 0..0 |-> IF i = 0 THEN q ELSE OnMsg(v[i - 1], time, me, fates[i])]
    OBVIOUS
  <2>2. Takes(v, q, time, me, fates, n)
    BY <1>4, <2>1 DEF Takes
  <2>3. QED
    BY <1>3, <2>2
<1>5. CASE n # 0
  <2>1. n - 1 \in Nat /\ n - 1 \notin T
    BY <1>2, <1>3, <1>5
  <2>2. PICK v : Takes(v, q, time, me, fates, n - 1)
    BY <2>1
  <2> DEFINE g == [i \in 0..n |-> IF i = n THEN OnMsg(v[n - 1], time, me, fates[n]) ELSE v[i]]
  <2>3. ASSUME NEW i \in 0..n
        PROVE  g[i] = IF i = 0 THEN q ELSE OnMsg(g[i - 1], time, me, fates[i])
    <3>1. CASE i = n
      <4>0. n \in 0..n /\ n - 1 \in 0..n /\ n - 1 # n
        BY <1>3, <1>5
      <4>1. g[i] = OnMsg(v[n - 1], time, me, fates[n]) /\ g[n - 1] = v[n - 1]
        BY <3>1, <4>0
      <4>2. QED
        BY <1>5, <3>1, <4>1
    <3>2. CASE i # n
      <4>1. i \in 0..(n - 1) /\ g[i] = v[i]
        BY <1>3, <3>2
      <4>2. v[i] = IF i = 0 THEN q ELSE OnMsg(v[i - 1], time, me, fates[i])
        BY <2>2, <4>1 DEF Takes
      <4>3. i # 0 => i - 1 \in 0..n /\ i - 1 # n
        BY <1>3, <4>1
      <4>4. i # 0 => g[i - 1] = v[i - 1]
        BY <4>3
      <4>5. QED
        BY <4>1, <4>2, <4>4
    <3>3. QED
      BY <3>1, <3>2
  <2>4. g = [i \in 0..n |-> g[i]]
    OBVIOUS
  <2> HIDE DEF g
  <2>5. g = [i \in 0..n |-> IF i = 0 THEN q ELSE OnMsg(g[i - 1], time, me, fates[i])]
    BY <2>3, <2>4
  <2>6. QED
    BY <1>3, <2>5 DEF Takes
<1>6. QED
  BY <1>4, <1>5

\* So does taking them all.
LEMMA OnMsgsIs ==
    ASSUME NEW sh, NEW q \in Seq(Messages(sh)), NEW time \in Nat, ShardConstants,
           NEW fates \in Seq(SendFates), NEW me \in ShardIds
    PROVE  OnMsgs(q, time, me, fates) \in Seq(Messages(sh))
<1>1. Len(fates) \in Nat
  OBVIOUS
<1>2. \E v : Takes(v, q, time, me, fates, Len(fates))
  BY <1>1, TakesExist
<1> DEFINE v == CHOOSE u : Takes(u, q, time, me, fates, Len(fates))
<1>3. Takes(v, q, time, me, fates, Len(fates))
  BY <1>2
<1>4. OnMsgs(q, time, me, fates) = v[Len(fates)]
  BY DEF OnMsgs, Takes
<1> HIDE DEF v
<1> DEFINE T == {i \in 0..Len(fates) : v[i] \notin Seq(Messages(sh))}
<1>5. T = {}
  <2>1. SUFFICES ASSUME T # {} PROVE FALSE
    OBVIOUS
  <2>2. T \subseteq Nat
    BY <1>1
  <2> HIDE DEF T
  <2>3. PICK i \in T : \A k \in T : i <= k
    BY <2>1, <2>2, LeastNumber
  <2> USE DEF T
  <2>4. i \in 0..Len(fates) /\ v[i] \notin Seq(Messages(sh))
    OBVIOUS
  <2>5. v[i] = IF i = 0 THEN q ELSE OnMsg(v[i - 1], time, me, fates[i])
    BY <1>3, <2>4 DEF Takes
  <2>6. i # 0
    BY <2>4, <2>5
  <2>7. i - 1 \in 0..Len(fates) /\ i - 1 \notin T
    BY <1>1, <2>3, <2>4, <2>6
  <2>8. v[i - 1] \in Seq(Messages(sh))
    BY <2>7
  <2>9. fates[i] \in SendFates
    BY <2>4, <2>6
  <2>10. QED
    BY <2>4, <2>5, <2>6, <2>8, <2>9, OnMsgIs
<1>6. Len(fates) \in 0..Len(fates)
  BY <1>1
<1>7. QED
  BY <1>4, <1>5, <1>6

-----------------------------------------------------------------------------
(* All shards.                                                             *)

\* The inductive invariant: every file is in order, what a shard called durable is so
\* unless a flush was a lie, and every message is one its speaker can stand by.
ShardInv ==
    /\ shard = [s \in ShardIds |-> shard[s]] /\ disk = [s \in ShardIds |-> disk[s]]
    /\ step \in Nat
    /\ \A s \in ShardIds : OneShard(shard[s], disk[s])
    /\ ~ lied => \A s \in ShardIds : Durable(shard[s], disk[s])
    /\ ~ gap
    /\ lost => lied
    /\ queue \in Seq(Messages(shard))

\* Every shard starts with nothing on an empty disk.
LEMMA ShardStarts ==
    ASSUME ShardConstants, ShardInit
    PROVE  ShardInv
<1>1. PICK none : none = [durable |-> <<>>, dirty |-> <<>>]
  OBVIOUS
<1>2. none \in FileForm /\ none.durable = <<>> /\ none.dirty = <<>> /\ ReadAll(none) = <<>>
  <2>1. <<>> \in Seq(Byte) /\ <<>> \o <<>> = <<>>
    OBVIOUS
  <2>2. none.durable = <<>> /\ none.dirty = <<>>
    BY <1>1
  <2>3. QED
    BY <1>1, <2>1, <2>2 DEF FileForm, ReadAll
<1>3. RecordLen \in Nat \ {0}
  BY DEF ShardConstants
<1>4. InOrder(<<>>, 0, 0, 0)
  <2>1. <<>> \in Seq(Byte) /\ Len(<<>>) = 0 /\ 0 * RecordLen = 0
    BY <1>3
  <2>2. SubSeq(<<>>, 0 + 1, 0) = <<>>
    OBVIOUS
  <2>3. SubSeq(Encode(0), 1, 0) = <<>>
    BY <1>3 DEF Encode
  <2>4. 1..0 = {}
    OBVIOUS
  <2>5. QED
    BY <2>1, <2>2, <2>3, <2>4 DEF InOrder
<1>5. OneShard(Fresh, none)
  <2>1. /\ Fresh = [written |-> Fresh.written, acked |-> Fresh.acked, degraded |-> Fresh.degraded,
                    sinceSync |-> Fresh.sinceSync, pendingSeq |-> Fresh.pendingSeq,
                    pendingDone |-> Fresh.pendingDone]
        /\ Fresh.written = 0 /\ Fresh.acked = 0 /\ Fresh.pendingSeq = 0 /\ Fresh.pendingDone = 0
    BY DEF Fresh
  <2>2. 0 \in 0..(RecordLen - 1)
    BY <1>3
  <2>3. InMemory(Fresh)
    BY <2>1, <2>2 DEF InMemory
  <2>4. QED
    BY <1>2, <1>4, <2>1, <2>3 DEF OneShard
<1>6. none \in CrashedFiles(none)
  <2>1. 0 \in 0..Len(none.dirty) /\ none.durable \o SubSeq(none.dirty, 1, 0) = <<>>
    BY <1>2
  <2>2. QED
    BY <1>1, <2>1 DEF CrashedFiles
<1>7. OneShard(Recover(Fresh, none), RecoveredFile(none)) /\ Durable(Recover(Fresh, none), RecoveredFile(none))
  BY <1>5, <1>6, CrashIs
<1>8. RecoveredFile(none) = none
  <2>1. 0 \in 0..Len(<<>>) /\ SubSeq(<<>>, 1, 0) = <<>>
    OBVIOUS
  <2>2. RecoversTo(<<>>, 0, 0 \div RecordLen)
    <3>1. 0 \in 0..(RecordLen - 1)
      BY <1>3
    <3>2. QED
      BY <1>4, <2>1, <3>1, RecoveredIs
  <2>3. 0 \div RecordLen = 0
    BY <1>3
  <2>4. Recovered(<<>>).discarded = 0 - 0 * RecordLen
    BY <2>2, <2>3 DEF RecoversTo
  <2>5. ~ (Recovered(ReadAll(none)).discarded > 0)
    BY <1>2, <1>3, <2>4
  <2>6. QED
    BY <2>5 DEF RecoveredFile
<1>9. \A s \in ShardIds : shard[s] = Recover(Fresh, none) /\ disk[s] = none
  BY <1>1 DEF ShardInit
<1>10. shard = [s \in ShardIds |-> shard[s]] /\ disk = [s \in ShardIds |-> disk[s]]
  BY DEF ShardInit
<1>11. QED
  BY <1>7, <1>8, <1>9, <1>10 DEF ShardInit, ShardInv

\* Messages stay good while their speakers write on.
LEMMA MessagesStay ==
    ASSUME NEW old, NEW new, \A s \in ShardIds : /\ old[s].written \in Nat /\ new[s].written \in Nat
                                                /\ old[s].written <= new[s].written
    PROVE  Messages(old) \subseteq Messages(new)
<1>1. SUFFICES ASSUME NEW e \in Messages(old) PROVE e \in Messages(new)
  OBVIOUS
<1>2. e \in [due : Nat, from : ShardIds, to : ShardIds, kind : {"ping", "pong"}, nonce : Nat]
      /\ e.nonce <= old[Speaker(e)].written
  BY DEF Messages
<1>3. Speaker(e) \in ShardIds /\ e.nonce \in Nat
  BY <1>2 DEF Speaker
<1>4. e.nonce <= new[Speaker(e)].written
  <2>1. PICK t \in ShardIds : t = Speaker(e)
    BY <1>3
  <2>2. PICK x \in Nat, y \in Nat : x = old[t].written /\ y = new[t].written /\ x <= y
    OBVIOUS
  <2>3. e.nonce <= x
    BY <1>2, <2>1, <2>2
  <2>4. e.nonce <= y
    BY <1>3, <2>2, <2>3
  <2>5. QED
    BY <2>1, <2>2, <2>4
<1>5. QED
  BY <1>2, <1>4 DEF Messages

\* A step of one shard.
LEMMA StepHolds ==
    ASSUME ShardConstants, ShardInv, NEW me \in ShardIds, StepOf(me)
    PROVE  ShardInv'
<1>1. PICK o \in TickOutcomes(shard[me], disk[me]), ping \in PingFates(me),
              fates \in AnswerFates(me) :
          /\ shard' = [shard EXCEPT ![me] = o[1]]
          /\ disk' = [disk EXCEPT ![me] = o[2]]
          /\ lied' = (lied \/ o[3])
          /\ queue' = OnMsgs(Pinged(queue, step + 1, me, ping, o[1].written), step + 1, me, fates)
  BY DEF StepOf
<1>2. step' = step + 1 /\ gap' = gap /\ lost' = lost /\ step + 1 \in Nat
  BY DEF StepOf, ShardInv
<1>3. \A s \in ShardIds : OneShard(shard[s], disk[s])
  BY DEF ShardInv
<1>4. Ticked(shard[me], disk[me], o)
  BY <1>1, <1>3, TickIs
<1>5. \A s \in ShardIds : /\ shard'[s] = IF s = me THEN o[1] ELSE shard[s]
                          /\ disk'[s] = IF s = me THEN o[2] ELSE disk[s]
  BY <1>1 DEF ShardInv
<1>6. shard' = [s \in ShardIds |-> shard'[s]] /\ disk' = [s \in ShardIds |-> disk'[s]]
  BY <1>1 DEF ShardInv
<1>7. \A s \in ShardIds : OneShard(shard'[s], disk'[s])
  BY <1>3, <1>4, <1>5 DEF Ticked
<1>8. ~ lied' => ~ lied /\ o[3] # TRUE
  <2>1. o[3] \in BOOLEAN
    BY <1>4 DEF Ticked
  <2>2. lied' = (lied \/ o[3])
    BY <1>1
  <2>3. QED
    BY <2>1, <2>2, Zenon
<1>9. ~ lied' => \A s \in ShardIds : Durable(shard'[s], disk'[s])
  <2>1. SUFFICES ASSUME ~ lied', NEW s \in ShardIds PROVE Durable(shard'[s], disk'[s])
    OBVIOUS
  <2>2. Durable(shard[s], disk[s]) /\ Durable(shard[me], disk[me])
    BY <1>8, <2>1 DEF ShardInv
  <2>3. Durable(o[1], o[2])
    BY <1>4, <1>8, <2>1, <2>2 DEF Ticked
  <2>4. QED
    BY <1>5, <2>2, <2>3
<1>10. lost' => lied'
  <2>1. lied' = (lied \/ o[3]) /\ (lost => lied) /\ lost' = lost
    BY <1>1, <1>2 DEF ShardInv
  <2>2. QED
    BY <2>1, Zenon
<1>11. \A s \in ShardIds : /\ shard[s].written \in Nat /\ shard'[s].written \in Nat
                           /\ shard[s].written <= shard'[s].written
  <2>1. SUFFICES ASSUME NEW s \in ShardIds
                 PROVE  /\ shard[s].written \in Nat /\ shard'[s].written \in Nat
                        /\ shard[s].written <= shard'[s].written
    OBVIOUS
  <2>2. shard[s].written \in Nat /\ shard'[s].written \in Nat
    BY <1>3, <1>7 DEF OneShard, InMemory
  <2>3. CASE s = me
    BY <1>4, <1>5, <2>2, <2>3 DEF Ticked
  <2>4. CASE s # me
    BY <1>5, <2>2, <2>4
  <2>5. QED
    BY <2>3, <2>4
<1>12. queue \in Seq(Messages(shard'))
  <2>1. Messages(shard) \subseteq Messages(shard')
    BY <1>11, MessagesStay
  <2>2. queue \in Seq(Messages(shard))
    BY DEF ShardInv
  <2>3. QED
    BY <2>1, <2>2, WiderSeq
<1>13. PICK q : q = Pinged(queue, step + 1, me, ping, o[1].written)
  OBVIOUS
<1>14. q \in Seq(Messages(shard'))
  <2>1. CASE ping = <<>>
    BY <1>12, <1>13, <2>1 DEF Pinged
  <2>2. CASE ping # <<>>
    <3>1. PICK to \in ShardIds \ {me}, f \in SendFates : ping = <<to, f>>
      BY <2>2 DEF PingFates
    <3>2. q = Send(queue, step + 1, f, me, to, "ping", o[1].written)
      BY <1>13, <2>2, <3>1 DEF Pinged
    <3>3. o[1].written = shard'[me].written /\ o[1].written \in Nat
      BY <1>5, <1>11
    <3>4. o[1].written <= shard'[IF "ping" = "ping" THEN me ELSE to].written
      BY <3>3
    <3>5. QED
      BY <1>2, <1>12, <3>1, <3>2, <3>3, <3>4, SendIs
  <2>3. QED
    BY <2>1, <2>2
<1>15. fates \in Seq(SendFates)
  <2>1. PICK due : due = Deliverable(queue, step + 1, me)
    OBVIOUS
  <2>2. queue \in Seq(Messages(shard))
    BY DEF ShardInv
  <2>3. Len(queue) \in Nat /\ due \in SUBSET (1..Len(queue))
    BY <2>1, <2>2 DEF Deliverable
  <2>4. IsFiniteSet(1..Len(queue))
    BY <2>3, FS_Interval
  <2>5. Cardinality(due) \in Nat
    BY <2>3, <2>4, FS_Subset, FS_CardinalityType
  <2>6. PICK n \in Nat : n = Cardinality(due)
    BY <2>5
  <2>7. fates \in [1..n -> SendFates]
    BY <1>1, <2>1, <2>6 DEF AnswerFates
  <2>8. QED
    BY <2>7
<1>16. queue' \in Seq(Messages(shard'))
  BY <1>1, <1>2, <1>13, <1>14, <1>15, OnMsgsIs
<1>17. QED
  BY <1>2, <1>6, <1>7, <1>9, <1>10, <1>16 DEF ShardInv

\* The power goes out and every shard recovers.
LEMMA PowerCutHolds ==
    ASSUME ShardConstants, ShardInv, PowerCut
    PROVE  ShardInv'
<1>1. PICK files \in [ShardIds -> UNION {CrashedFiles(disk[s]) : s \in ShardIds}] :
          /\ \A s \in ShardIds : files[s] \in CrashedFiles(disk[s])
          /\ shard' = [s \in ShardIds |-> Recover(shard[s], files[s])]
          /\ disk' = [s \in ShardIds |-> RecoveredFile(files[s])]
          /\ gap' = (gap \/ \E s \in ShardIds : Recovered(files[s].durable).outOfOrder)
          /\ lost' = (lost \/ \E s \in ShardIds : Recovered(files[s].durable).count < shard[s].acked)
  BY DEF PowerCut
<1>2. step' = step /\ lied' = lied /\ queue' = <<>>
  BY DEF PowerCut, BusCleared
<1>3. ASSUME NEW s \in ShardIds
      PROVE  /\ OneShard(shard'[s], disk'[s]) /\ Durable(shard'[s], disk'[s])
             /\ ~ Recovered(files[s].durable).outOfOrder
             /\ ~ lied => ~ (Recovered(files[s].durable).count < shard[s].acked)
  <2>1. OneShard(shard[s], disk[s]) /\ (~ lied => Durable(shard[s], disk[s]))
    BY DEF ShardInv
  <2>2. files[s] \in CrashedFiles(disk[s])
    BY <1>1
  <2>3. shard'[s] = Recover(shard[s], files[s]) /\ disk'[s] = RecoveredFile(files[s])
    BY <1>1
  <2>4. QED
    BY <2>1, <2>2, <2>3, CrashIs
<1>4. ~ gap'
  BY <1>1, <1>3 DEF ShardInv
<1>5. lost' => lied'
  BY <1>1, <1>2, <1>3 DEF ShardInv
<1>6. shard' = [s \in ShardIds |-> shard'[s]] /\ disk' = [s \in ShardIds |-> disk'[s]]
  BY <1>1
<1>7. queue' \in Seq(Messages(shard'))
  BY <1>2
<1>8. step' \in Nat
  BY <1>2 DEF ShardInv
<1>9. QED
  BY <1>3, <1>4, <1>5, <1>6, <1>7, <1>8 DEF ShardInv

\* Every step keeps it.
LEMMA ShardStep ==
    ASSUME ShardConstants, ShardInv, [ShardNext]_shardVars
    PROVE  ShardInv'
<1>1. CASE PowerCut
  BY <1>1, PowerCutHolds
<1>2. CASE \E me \in ShardIds : StepOf(me)
  BY <1>2, StepHolds
<1>3. CASE UNCHANGED shardVars
  <2>1. /\ shard' = shard /\ disk' = disk /\ queue' = queue /\ step' = step
        /\ lied' = lied /\ gap' = gap /\ lost' = lost
    BY <1>3 DEF shardVars
  <2>2. QED
    BY <2>1 DEF ShardInv
<1>4. QED
  BY <1>1, <1>2, <1>3 DEF ShardNext

\* The invariant is enough.
LEMMA ShardFollows ==
    ASSUME ShardConstants, ShardInv
    PROVE  ShardKeepsItsPromise
<1>1. \A s \in ShardIds : FileIsInOrder(shard[s], ReadAll(disk[s]))
  BY DEF ShardInv, OneShard, InOrder, FileIsInOrder
<1>2. ASSUME NEW i \in DOMAIN queue
      PROVE  queue[i].nonce <= shard[IF queue[i].kind = "ping" THEN queue[i].from
                                     ELSE queue[i].to].written
  <2>1. queue[i] \in Messages(shard)
    BY DEF ShardInv
  <2>2. QED
    BY <2>1 DEF Messages, Speaker
<1>3. QED
  BY <1>1, <1>2 DEF ShardInv, ShardKeepsItsPromise

\* The durability contract of a simulated shard (trailryx-core's sim and shard on
\* trailryx-sim's disk and bus): on a disk that does not lie no power cut takes a record
\* called durable, no recovery meets a gap or an orphan, every file is in order, and no
\* message outlives the record it speaks of.
THEOREM ShardHolds == ShardSpec => []ShardKeepsItsPromise
<1>1. ShardInit => ShardInv
  BY ShardAssumption, ShardStarts
<1>2. ShardInv /\ [ShardNext]_shardVars => ShardInv'
  BY ShardAssumption, ShardStep
<1>3. ShardInv => ShardKeepsItsPromise
  BY ShardAssumption, ShardFollows
<1>4. QED
  BY <1>1, <1>2, <1>3, PTL DEF ShardSpec

-----------------------------------------------------------------------------
(* Requests one behind the other.                                          *)

\* f is what the first of the parts give one behind the other, up to each of n.
Joins(f, parts, n) ==
    f = [i \in 1..n |-> IF i = 1 THEN parts[i] ELSE f[i - 1] \o parts[i]]

\* The joined parts can be lined up for any number of them.
LEMMA JoinsExist ==
    ASSUME NEW parts, NEW N \in Nat
    PROVE  \E f : Joins(f, parts, N)
<1> DEFINE T == {n \in Nat : ~ \E f : Joins(f, parts, n)}
<1> SUFFICES ASSUME N \in T PROVE FALSE
  OBVIOUS
<1>1. T \subseteq Nat /\ T # {}
  OBVIOUS
<1> HIDE DEF T
<1>2. PICK n \in T : \A k \in T : n <= k
  BY <1>1, LeastNumber
<1> USE DEF T
<1>3. n \in Nat /\ ~ \E f : Joins(f, parts, n)
  OBVIOUS
<1>4. CASE n = 0
  <2> DEFINE f == [i \in 1..0 |-> parts]
  <2>1. f = [i \in 1..0 |-> IF i = 1 THEN parts[i] ELSE f[i - 1] \o parts[i]]
    OBVIOUS
  <2>2. Joins(f, parts, n)
    BY <1>4, <2>1 DEF Joins
  <2>3. QED
    BY <1>3, <2>2
<1>5. CASE n # 0
  <2>1. n - 1 \in Nat /\ n - 1 \notin T
    BY <1>2, <1>3, <1>5
  <2>2. PICK f : Joins(f, parts, n - 1)
    BY <2>1
  <2> DEFINE g == [i \in 1..n |-> IF i = n THEN (IF n = 1 THEN parts[n] ELSE f[n - 1] \o parts[n])
                                  ELSE f[i]]
  <2>3. ASSUME NEW i \in 1..n
        PROVE  g[i] = IF i = 1 THEN parts[i] ELSE g[i - 1] \o parts[i]
    <3>1. CASE i = n /\ n # 1
      <4>0. n \in 1..n /\ n - 1 \in 1..n /\ n - 1 # n
        BY <1>3, <1>5, <3>1
      <4>1. g[i] = f[n - 1] \o parts[n] /\ g[n - 1] = f[n - 1]
        BY <3>1, <4>0
      <4>2. QED
        BY <3>1, <4>1
    <3>2. CASE i = n /\ n = 1
      BY <3>2
    <3>3. CASE i # n
      <4>1. i \in 1..(n - 1) /\ g[i] = f[i]
        BY <1>3, <3>3
      <4>2. f[i] = IF i = 1 THEN parts[i] ELSE f[i - 1] \o parts[i]
        BY <2>2, <4>1 DEF Joins
      <4>3. i # 1 => i - 1 \in 1..n /\ i - 1 # n
        BY <1>3, <4>1
      <4>4. i # 1 => g[i - 1] = f[i - 1]
        BY <4>3
      <4>5. QED
        BY <4>1, <4>2, <4>4
    <3>4. QED
      BY <3>1, <3>2, <3>3
  <2>4. g = [i \in 1..n |-> g[i]]
    OBVIOUS
  <2> HIDE DEF g
  <2>5. g = [i \in 1..n |-> IF i = 1 THEN parts[i] ELSE g[i - 1] \o parts[i]]
    BY <2>3, <2>4
  <2>6. QED
    BY <1>3, <2>5 DEF Joins
<1>6. QED
  BY <1>4, <1>5

\* FlattenSeq is the last of them.
LEMMA FlattenIs ==
    ASSUME NEW parts, Len(parts) \in Nat, Len(parts) # 0
    PROVE  \E f : Joins(f, parts, Len(parts)) /\ FlattenSeq(parts) = f[Len(parts)]
<1>1. \E f : Joins(f, parts, Len(parts))
  BY JoinsExist
<1> DEFINE f == CHOOSE g : Joins(g, parts, Len(parts))
<1>2. Joins(f, parts, Len(parts))
  BY <1>1
<1>3. FlattenSeq(parts) = f[Len(parts)]
  BY DEF FlattenSeq, Joins
<1>4. QED
  BY <1>2, <1>3

\* What begins with the same parts is joined the same way as far as they go.
LEMMA JoinsAgree ==
    ASSUME NEW parts, NEW more, NEW n \in Nat, NEW m \in Nat, n <= m,
           Alike(parts, more, n),
           NEW f, Joins(f, parts, n), NEW g, Joins(g, more, m)
    PROVE  \A i \in 1..n : f[i] = g[i]
<1> DEFINE T == {i \in 1..n : f[i] # g[i]}
<1> SUFFICES ASSUME T # {} PROVE FALSE
  OBVIOUS
<1>1. T \subseteq Nat
  OBVIOUS
<1> HIDE DEF T
<1>2. PICK i \in T : \A k \in T : i <= k
  BY <1>1, LeastNumber
<1> USE DEF T
<1>3. i \in 1..n /\ i \in 1..m /\ f[i] # g[i]
  OBVIOUS
<1>4. f[i] = IF i = 1 THEN parts[i] ELSE f[i - 1] \o parts[i]
  BY <1>3 DEF Joins
<1>5. g[i] = IF i = 1 THEN more[i] ELSE g[i - 1] \o more[i]
  BY <1>3 DEF Joins
<1> parts[i] = more[i]
  BY <1>3 DEF Alike
<1>6. CASE i = 1
  BY <1>3, <1>4, <1>5, <1>6
<1>7. CASE i # 1
  <2>1. i - 1 \in 1..n /\ i - 1 \notin T
    BY <1>2, <1>3, <1>7
  <2>2. f[i - 1] = g[i - 1]
    BY <2>1
  <2>3. QED
    BY <1>3, <1>4, <1>5, <1>7, <2>2
<1>8. QED
  BY <1>6, <1>7

\* Parts made of bytes give bytes.
LEMMA JoinsBytes ==
    ASSUME NEW B, NEW parts \in Seq(Seq(B)), NEW f, Joins(f, parts, Len(parts))
    PROVE  \A i \in 1..Len(parts) : f[i] \in Seq(B)
<1> DEFINE T == {i \in 1..Len(parts) : f[i] \notin Seq(B)}
<1> SUFFICES ASSUME T # {} PROVE FALSE
  OBVIOUS
<1>1. T \subseteq Nat
  OBVIOUS
<1> HIDE DEF T
<1>2. PICK i \in T : \A k \in T : i <= k
  BY <1>1, LeastNumber
<1> USE DEF T
<1>3. i \in 1..Len(parts) /\ f[i] \notin Seq(B) /\ parts[i] \in Seq(B)
  OBVIOUS
<1>4. f[i] = IF i = 1 THEN parts[i] ELSE f[i - 1] \o parts[i]
  BY <1>3 DEF Joins
<1>5. i # 1
  BY <1>3, <1>4
<1>6. i - 1 \in 1..Len(parts) /\ i - 1 \notin T
  BY <1>2, <1>3, <1>5
<1>7. f[i - 1] \in Seq(B)
  BY <1>6
<1>8. QED
  BY <1>3, <1>4, <1>5, <1>7

\* One part more comes at the end.
LEMMA FlattenAppend ==
    ASSUME NEW B, NEW parts \in Seq(Seq(B)), NEW e \in Seq(B)
    PROVE  FlattenSeq(parts) \in Seq(B) /\ FlattenSeq(Append(parts, e)) = FlattenSeq(parts) \o e
<1>0. PICK n \in Nat : n = Len(parts)
  OBVIOUS
<1>1. PICK more : more = Append(parts, e)
  OBVIOUS
<1>2. more \in Seq(Seq(B)) /\ Len(more) = n + 1 /\ more[n + 1] = e
      /\ \A i \in 1..n : parts[i] = more[i]
  BY <1>0, <1>1
<1>3. PICK g : Joins(g, more, n + 1) /\ FlattenSeq(more) = g[n + 1]
  <2>1. Len(more) \in Nat /\ Len(more) # 0
    BY <1>2
  <2>2. \E g : Joins(g, more, Len(more)) /\ FlattenSeq(more) = g[Len(more)]
    BY <2>1, FlattenIs
  <2>3. QED
    BY <1>2, <2>2
<1>4. n + 1 \in 1..(n + 1)
  OBVIOUS
<1>5. g[n + 1] = IF n + 1 = 1 THEN more[n + 1] ELSE g[(n + 1) - 1] \o more[n + 1]
  BY <1>3, <1>4 DEF Joins
<1>6. CASE n = 0
  <2>1. parts = <<>> /\ FlattenSeq(parts) = parts
    <3>1. Len(parts) = 0
      BY <1>0, <1>6
    <3>2. parts = <<>>
      BY <3>1
    <3>3. FlattenSeq(parts) = parts
      BY <3>1, Zenon DEF FlattenSeq
    <3>4. QED
      BY <3>2, <3>3
  <2>2. <<>> \o e = e
    OBVIOUS
  <2>3. FlattenSeq(more) = e
    BY <1>2, <1>3, <1>5, <1>6
  <2>4. <<>> \in Seq(B)
    OBVIOUS
  <2>5. FlattenSeq(parts) = <<>> /\ FlattenSeq(Append(parts, e)) = e
    BY <1>1, <2>1, <2>3
  <2>6. QED
    BY <2>2, <2>4, <2>5
<1>7. CASE n # 0
  <2>1. PICK f : Joins(f, parts, n) /\ FlattenSeq(parts) = f[n]
    <3>1. \E f : Joins(f, parts, Len(parts)) /\ FlattenSeq(parts) = f[Len(parts)]
      BY <1>0, <1>7, FlattenIs
    <3>2. QED
      BY <1>0, <3>1
  <2>2. n \in 1..n /\ n <= n + 1 /\ n + 1 # 1 /\ (n + 1) - 1 = n
    BY <1>7
  <2>3. f[n] = g[n]
    <3>1. PICK m \in Nat : m = n + 1
      OBVIOUS
    <3>2. Joins(f, parts, n) /\ Joins(g, more, m) /\ n <= m
      BY <1>3, <2>1, <2>2, <3>1
    <3>3. Alike(parts, more, n)
      BY <1>2 DEF Alike
    <3>4. \A i \in 1..n : f[i] = g[i]
      BY <3>2, <3>3, JoinsAgree
    <3>5. QED
      BY <2>2, <3>4
  <2>4. f[n] \in Seq(B)
    <3>1. Joins(f, parts, Len(parts)) /\ n \in 1..Len(parts)
      BY <1>0, <2>1, <2>2
    <3>2. QED
      BY <3>1, JoinsBytes
  <2>5. FlattenSeq(more) = g[n] \o e
    BY <1>2, <1>3, <1>5, <2>2
  <2>6. QED
    BY <1>1, <2>1, <2>3, <2>4, <2>5
<1>8. QED
  BY <1>6, <1>7

-----------------------------------------------------------------------------
(* The requests read.                                                      *)

Request == [head : Seq(WireByte), body : Seq(WireByte)]
BytesOf(t) == FlattenSeq([i \in DOMAIN t |-> t[i].head \o t[i].body])

\* One request more.
LEMMA BytesAppend ==
    ASSUME NEW t \in Seq(Request), NEW r \in Request
    PROVE  BytesOf(t) \in Seq(WireByte) /\ BytesOf(Append(t, r)) = BytesOf(t) \o (r.head \o r.body)
<1>1. PICK parts : parts = [i \in DOMAIN t |-> t[i].head \o t[i].body]
  OBVIOUS
<1>2. PICK e \in Seq(WireByte) : e = r.head \o r.body
  <2>1. PICK g \in Seq(WireByte), h \in Seq(WireByte) : g = r.head /\ h = r.body
    BY DEF Request
  <2>2. g \o h \in Seq(WireByte)
    OBVIOUS
  <2>3. QED
    BY <2>1, <2>2
<1>3. PICK n \in Nat : n = Len(t) /\ DOMAIN t = 1..n
  OBVIOUS
<1>4. parts \in Seq(Seq(WireByte)) /\ Len(parts) = n
  <2>1. \A i \in 1..n : t[i].head \o t[i].body \in Seq(WireByte)
    <3>1. SUFFICES ASSUME NEW i \in 1..n PROVE t[i].head \o t[i].body \in Seq(WireByte)
      OBVIOUS
    <3>2. t[i] \in Request
      BY <1>3
    <3>3. PICK g \in Seq(WireByte), h \in Seq(WireByte) : g = t[i].head /\ h = t[i].body
      BY <3>2 DEF Request
    <3>4. g \o h \in Seq(WireByte)
      OBVIOUS
    <3>5. QED
      BY <3>3, <3>4
  <2>2. parts \in [1..n -> Seq(WireByte)]
    BY <1>1, <1>3, <2>1
  <2>3. QED
    BY <2>2
<1>5. PICK u : u = Append(t, r)
  OBVIOUS
<1>6. DOMAIN u = 1..(n + 1) /\ u[n + 1] = r /\ \A i \in 1..n : u[i] = t[i]
  BY <1>3, <1>5
<1>7. [i \in DOMAIN u |-> u[i].head \o u[i].body] = Append(parts, e)
  <2>1. PICK q : q = [i \in 1..(n + 1) |-> u[i].head \o u[i].body]
    OBVIOUS
  <2>2. q[n + 1] = e /\ \A i \in 1..n : q[i] = parts[i]
    <3>0. n + 1 \in 1..(n + 1)
      OBVIOUS
    <3>1. q[n + 1] = e
      <4>1. q[n + 1] = u[n + 1].head \o u[n + 1].body
        BY <2>1, <3>0
      <4>2. QED
        BY <1>2, <1>6, <4>1
    <3>2. ASSUME NEW i \in 1..n PROVE q[i] = parts[i]
      <4>1. i \in 1..(n + 1) /\ i \in DOMAIN t /\ u[i] = t[i]
        BY <1>3, <1>6
      <4>2. QED
        BY <1>1, <2>1, <4>1
    <3>3. QED
      BY <3>1, <3>2
  <2>3. Append(parts, e) = [i \in 1..(n + 1) |-> IF i = n + 1 THEN e ELSE parts[i]]
    <3>1. PICK z : z = Append(parts, e)
      OBVIOUS
    <3>2. /\ z \in Seq(Seq(WireByte)) /\ DOMAIN z = 1..(n + 1) /\ z[n + 1] = e
          /\ \A i \in 1..n : z[i] = parts[i]
      BY <1>4, <3>1
    <3>3. z = [i \in 1..(n + 1) |-> z[i]]
      BY <3>2
    <3>4. \A i \in 1..(n + 1) : z[i] = IF i = n + 1 THEN e ELSE parts[i]
      BY <3>2
    <3>5. QED
      BY <3>1, <3>3, <3>4
  <2>4. \A i \in 1..(n + 1) : q[i] = IF i = n + 1 THEN e ELSE parts[i]
    BY <2>2
  <2>5. QED
    BY <1>6, <2>1, <2>3, <2>4
<1>8. FlattenSeq(parts) \in Seq(WireByte) /\ FlattenSeq(Append(parts, e)) = FlattenSeq(parts) \o e
  BY <1>4, FlattenAppend
<1>9. QED
  BY <1>1, <1>2, <1>5, <1>7, <1>8 DEF BytesOf

-----------------------------------------------------------------------------
(* The scanner.                                                            *)

\* Lines end in CRLF and in nothing else, up to and with position n.
Lines(b, n) ==
    \A i \in 1..n : /\ b[i] # "nul"
                    /\ b[i] = "cr" => i < n /\ b[i + 1] = "lf"
                    /\ b[i] = "lf" => i > 1 /\ b[i - 1] = "cr"
NoEmptyLine(b, n) == \A k \in 1..n : ~ EmptyLineAt(b, k)

\* What has been scanned: whole lines, none of them empty, and a part of the next.
ScanHolds(b, scan, line) ==
    /\ scan \in 0..Len(b) /\ line \in 0..scan
    /\ Lines(b, scan) /\ NoEmptyLine(b, scan)
    /\ line = 0 \/ (line >= 2 /\ b[line - 1] = "cr" /\ b[line] = "lf")
    /\ \A i \in (line + 1)..scan : b[i] \notin {"cr", "lf"}

\* Where a head ends: with its first empty line.
HeadFound(b, end) ==
    /\ end \in 1..Len(b)
    /\ Lines(b, end) /\ NoEmptyLine(b, end - 1) /\ EmptyLineAt(b, end)

ScanGood(b, s) ==
    /\ s.found \in {"more", "end", "400", "431"}
    /\ s = Scan(s.found, s.scan, s.line)
    /\ s.found = "more" => ScanHolds(b, s.scan, s.line)
    /\ s.found = "end" => HeadFound(b, s.scan)

\* More bytes change nothing about what was scanned.
LEMMA ScanGoesOn ==
    ASSUME NEW b \in Seq(WireByte), NEW c \in Seq(WireByte), NEW scan, NEW line,
           ScanHolds(b, scan, line)
    PROVE  ScanHolds(b \o c, scan, line)
<1>1. PICK n \in Nat, m \in Nat : n = Len(b) /\ m = Len(c)
  OBVIOUS
<1>2. PICK d : d = b \o c
  OBVIOUS
<1>3. d \in Seq(WireByte) /\ Len(d) = n + m /\ \A i \in 1..n : d[i] = b[i]
  BY <1>1, <1>2
<1>4. scan \in 0..n /\ line \in 0..scan /\ scan \in 0..Len(d)
  BY <1>1, <1>3 DEF ScanHolds
<1>5. Lines(d, scan)
  <2>1. SUFFICES ASSUME NEW i \in 1..scan
                 PROVE  /\ d[i] # "nul"
                        /\ d[i] = "cr" => i < scan /\ d[i + 1] = "lf"
                        /\ d[i] = "lf" => i > 1 /\ d[i - 1] = "cr"
    BY DEF Lines
  <2>2. /\ b[i] # "nul"
        /\ b[i] = "cr" => i < scan /\ b[i + 1] = "lf"
        /\ b[i] = "lf" => i > 1 /\ b[i - 1] = "cr"
    BY DEF ScanHolds, Lines
  <2>3. d[i] = b[i] /\ (i < scan => d[i + 1] = b[i + 1]) /\ (i > 1 => d[i - 1] = b[i - 1])
    <3>1. i \in 1..n /\ (i < scan => i + 1 \in 1..n) /\ (i > 1 => i - 1 \in 1..n)
      BY <1>4
    <3>2. QED
      BY <1>3, <3>1
  <2>4. QED
    BY <2>2, <2>3
<1>6. NoEmptyLine(d, scan)
  <2>1. SUFFICES ASSUME NEW k \in 1..scan, EmptyLineAt(d, k) PROVE EmptyLineAt(b, k)
    BY DEF ScanHolds, NoEmptyLine
  <2>2. k \in 1..n /\ k >= 2 /\ d[k] = b[k] /\ d[k - 1] = b[k - 1]
    BY <1>3, <1>4, <2>1 DEF EmptyLineAt
  <2>3. k >= 4 => d[k - 3] = b[k - 3] /\ d[k - 2] = b[k - 2]
    BY <1>3, <2>2
  <2>4. QED
    BY <1>1, <2>1, <2>2, <2>3 DEF EmptyLineAt
<1>7. line = 0 \/ (line >= 2 /\ d[line - 1] = "cr" /\ d[line] = "lf")
  <2>1. line # 0 => line >= 2 /\ b[line - 1] = "cr" /\ b[line] = "lf"
    BY DEF ScanHolds
  <2>2. line >= 2 => line \in 1..n /\ line - 1 \in 1..n
    BY <1>4
  <2>3. QED
    BY <1>3, <2>1, <2>2
<1>8. \A i \in (line + 1)..scan : d[i] \notin {"cr", "lf"}
  BY <1>3, <1>4 DEF ScanHolds
<1>9. QED
  BY <1>2, <1>4, <1>5, <1>6, <1>7, <1>8 DEF ScanHolds

\* An ordinary byte.
LEMMA ScanOrdinary ==
    ASSUME NEW b \in Seq(WireByte), NEW scan, NEW line, ScanHolds(b, scan, line),
           scan < Len(b), b[scan + 1] = "x"
    PROVE  ScanHolds(b, scan + 1, line)
<1>1. PICK n \in Nat : n = Len(b)
  OBVIOUS
<1>2. scan \in 0..n /\ line \in 0..scan /\ scan + 1 \in 0..n /\ line \in 0..(scan + 1)
  BY <1>1 DEF ScanHolds
<1>3. Lines(b, scan + 1)
  BY <1>2 DEF ScanHolds, Lines
<1>4. NoEmptyLine(b, scan + 1)
  BY <1>2 DEF ScanHolds, NoEmptyLine, EmptyLineAt
<1>5. \A i \in (line + 1)..(scan + 1) : b[i] \notin {"cr", "lf"}
  BY <1>2 DEF ScanHolds
<1>6. QED
  BY <1>1, <1>2, <1>3, <1>4, <1>5 DEF ScanHolds

\* The end of a line: the lines are still lines.
LEMMA ScanLines ==
    ASSUME NEW b \in Seq(WireByte), NEW scan, NEW line, ScanHolds(b, scan, line),
           scan + 1 < Len(b), b[scan + 1] = "cr", b[scan + 2] = "lf"
    PROVE  Lines(b, scan + 2)
<1>1. scan \in Nat
  BY DEF ScanHolds
<1>2. SUFFICES ASSUME NEW i \in 1..(scan + 2)
               PROVE  /\ b[i] # "nul"
                      /\ b[i] = "cr" => i < scan + 2 /\ b[i + 1] = "lf"
                      /\ b[i] = "lf" => i > 1 /\ b[i - 1] = "cr"
  BY DEF Lines
<1>3. CASE i \in 1..scan
  BY <1>1, <1>3 DEF ScanHolds, Lines
<1>4. CASE i = scan + 1
  <2>1. i + 1 = scan + 2 /\ i < scan + 2
    BY <1>1, <1>4
  <2>2. QED
    BY <1>4, <2>1
<1>5. CASE i = scan + 2
  <2>1. i - 1 = scan + 1 /\ i > 1
    BY <1>1, <1>5
  <2>2. QED
    BY <1>5, <2>1
<1>6. QED
  BY <1>1, <1>3, <1>4, <1>5

\* The end of a line that is not empty.
LEMMA ScanLine ==
    ASSUME NEW b \in Seq(WireByte), NEW scan, NEW line, ScanHolds(b, scan, line),
           scan + 1 < Len(b), b[scan + 1] = "cr", b[scan + 2] = "lf", scan # line
    PROVE  ScanHolds(b, scan + 2, scan + 2)
<1>1. PICK n \in Nat : n = Len(b)
  OBVIOUS
<1>2. /\ scan \in 1..n /\ line \in 0..scan /\ scan + 2 \in 0..n /\ scan \in (line + 1)..scan
      /\ (scan + 2) - 1 = scan + 1 /\ scan + 2 >= 2
  BY <1>1 DEF ScanHolds
<1>3. b[scan] # "lf"
  BY <1>2 DEF ScanHolds
<1>4. NoEmptyLine(b, scan + 2)
  <2>1. SUFFICES ASSUME NEW k \in 1..(scan + 2), EmptyLineAt(b, k) PROVE FALSE
    BY DEF NoEmptyLine
  <2>2. CASE k \in 1..scan
    BY <2>1, <2>2 DEF ScanHolds, NoEmptyLine
  <2>3. CASE k = scan + 1
    BY <2>1, <2>3 DEF EmptyLineAt
  <2>4. CASE k = scan + 2
    <3>1. k # 2 /\ k - 2 = scan
      BY <1>2, <2>4
    <3>2. QED
      BY <1>3, <2>1, <3>1 DEF EmptyLineAt
  <2>5. QED
    BY <1>2, <2>2, <2>3, <2>4
<1>5. Lines(b, scan + 2)
  BY ScanLines
<1>6. \A i \in ((scan + 2) + 1)..(scan + 2) : b[i] \notin {"cr", "lf"}
  BY <1>2
<1>7. QED
  BY <1>1, <1>2, <1>4, <1>5, <1>6 DEF ScanHolds

\* The empty line.
LEMMA ScanEnd ==
    ASSUME NEW b \in Seq(WireByte), NEW scan, NEW line, ScanHolds(b, scan, line),
           scan + 1 < Len(b), b[scan + 1] = "cr", b[scan + 2] = "lf", scan = line
    PROVE  HeadFound(b, scan + 2)
<1>1. PICK n \in Nat : n = Len(b)
  OBVIOUS
<1>2. scan \in 0..n /\ scan + 2 \in 1..n /\ (scan + 2) - 1 = scan + 1
  BY <1>1 DEF ScanHolds
<1>3. EmptyLineAt(b, scan + 2)
  <2>1. CASE scan = 0
    BY <1>1, <1>2, <2>1 DEF EmptyLineAt
  <2>2. CASE scan # 0
    <3>1. scan >= 2 /\ b[scan - 1] = "cr" /\ b[scan] = "lf"
      BY <2>2 DEF ScanHolds
    <3>2. (scan + 2) - 3 = scan - 1 /\ (scan + 2) - 2 = scan /\ scan + 2 >= 4 /\ scan + 2 <= n
      BY <1>2, <3>1
    <3>3. QED
      BY <1>1, <1>2, <3>1, <3>2 DEF EmptyLineAt
  <2>3. QED
    BY <2>1, <2>2
<1>4. NoEmptyLine(b, scan + 1)
  <2>1. SUFFICES ASSUME NEW k \in 1..(scan + 1), EmptyLineAt(b, k) PROVE FALSE
    BY DEF NoEmptyLine
  <2>2. CASE k \in 1..scan
    BY <2>1, <2>2 DEF ScanHolds, NoEmptyLine
  <2>3. CASE k = scan + 1
    BY <2>1, <2>3 DEF EmptyLineAt
  <2>4. QED
    BY <1>2, <2>2, <2>3
<1>5. Lines(b, scan + 2)
  BY ScanLines
<1>6. QED
  BY <1>1, <1>2, <1>3, <1>4, <1>5 DEF HeadFound

\* One turn of the scanner's loop.
LEMMA ScanStepIs ==
    ASSUME NEW b \in Seq(WireByte), NEW s, ScanGood(b, s)
    PROVE  ScanGood(b, ScanStep(b, s))
<1>1. CASE s.found # "more" \/ s.scan >= Len(b)
  BY <1>1 DEF ScanStep
<1>2. CASE s.found = "more" /\ ~ s.scan >= Len(b)
  <2>1. ScanHolds(b, s.scan, s.line)
    BY <1>2 DEF ScanGood
  <2>2. PICK k \in Nat, l \in Nat, n \in Nat : k = s.scan /\ l = s.line /\ n = Len(b) /\ k < n
    BY <1>2, <2>1 DEF ScanHolds
  <2>3. ScanHolds(b, k, l) /\ k + 1 \in 1..n /\ b[k + 1] \in WireByte
    BY <2>1, <2>2
  <2>4. ScanStep(b, s) =
            IF k >= MaxHeaderSection THEN Scan("431", k, l)
            ELSE IF b[k + 1] \in {"lf", "nul"} THEN Scan("400", k, l)
            ELSE IF b[k + 1] # "cr" THEN Scan("more", k + 1, l)
            ELSE IF k + 1 >= n THEN s
            ELSE IF b[k + 2] # "lf" THEN Scan("400", k, l)
            ELSE IF k = l THEN Scan("end", k + 2, l)
            ELSE Scan("more", k + 2, k + 2)
    BY <1>2, <2>2 DEF ScanStep
  <2>5. ScanGood(b, Scan("431", k, l)) /\ ScanGood(b, Scan("400", k, l))
    BY DEF ScanGood, Scan
  <2>6. ASSUME b[k + 1] \notin {"lf", "nul"}, b[k + 1] # "cr"
        PROVE  ScanGood(b, Scan("more", k + 1, l))
    <3>1. b[k + 1] = "x"
      BY <2>3, <2>6 DEF WireByte
    <3>2. ScanHolds(b, k + 1, l)
      BY <2>2, <2>3, <3>1, ScanOrdinary
    <3>3. QED
      BY <3>2 DEF ScanGood, Scan
  <2>7. ASSUME b[k + 1] = "cr", ~ k + 1 >= n, b[k + 2] = "lf"
        PROVE  /\ k = l => ScanGood(b, Scan("end", k + 2, l))
               /\ k # l => ScanGood(b, Scan("more", k + 2, k + 2))
    <3>1. k + 1 < Len(b)
      BY <2>2, <2>7
    <3>2. k = l => HeadFound(b, k + 2)
      BY <2>3, <2>7, <3>1, ScanEnd
    <3>3. k # l => ScanHolds(b, k + 2, k + 2)
      BY <2>3, <2>7, <3>1, ScanLine
    <3>4. QED
      BY <3>2, <3>3 DEF ScanGood, Scan
  <2>8. CASE k >= MaxHeaderSection \/ b[k + 1] \in {"lf", "nul"}
    BY <2>4, <2>5, <2>8
  <2>9. CASE ~ (k >= MaxHeaderSection) /\ b[k + 1] \notin {"lf", "nul"} /\ b[k + 1] # "cr"
    BY <2>4, <2>6, <2>9
  <2>10. CASE ~ (k >= MaxHeaderSection) /\ b[k + 1] = "cr"
    <3>1. CASE k + 1 >= n
      BY <2>4, <2>10, <3>1
    <3>2. CASE ~ (k + 1 >= n) /\ b[k + 2] # "lf"
      BY <2>4, <2>5, <2>10, <3>2
    <3>3. CASE ~ (k + 1 >= n) /\ b[k + 2] = "lf"
      BY <2>4, <2>7, <2>10, <3>3
    <3>4. QED
      BY <3>1, <3>2, <3>3
  <2>11. QED
    BY <2>8, <2>9, <2>10
<1>3. QED
  BY <1>1, <1>2

\* f is where the scanner is after each of the first n turns.
Scans(f, b, start, n) == f = [i \in 0..n |-> IF i = 0 THEN start ELSE ScanStep(b, f[i - 1])]

\* The turns can be lined up for any number of them.
LEMMA ScansExist ==
    ASSUME NEW b, NEW start, NEW N \in Nat
    PROVE  \E f : Scans(f, b, start, N)
<1> DEFINE T == {n \in Nat : ~ \E f : Scans(f, b, start, n)}
<1> SUFFICES ASSUME N \in T PROVE FALSE
  OBVIOUS
<1>1. T \subseteq Nat /\ T # {}
  OBVIOUS
<1> HIDE DEF T
<1>2. PICK n \in T : \A k \in T : n <= k
  BY <1>1, LeastNumber
<1> USE DEF T
<1>3. n \in Nat /\ ~ \E f : Scans(f, b, start, n)
  OBVIOUS
<1>4. CASE n = 0
  <2> DEFINE f == [i \in 0..0 |-> start]
  <2>1. f = [i \in 0..0 |-> IF i = 0 THEN start ELSE ScanStep(b, f[i - 1])]
    OBVIOUS
  <2>2. Scans(f, b, start, n)
    BY <1>4, <2>1 DEF Scans
  <2>3. QED
    BY <1>3, <2>2
<1>5. CASE n # 0
  <2>1. n - 1 \in Nat /\ n - 1 \notin T
    BY <1>2, <1>3, <1>5
  <2>2. PICK f : Scans(f, b, start, n - 1)
    BY <2>1
  <2> DEFINE g == [i \in 0..n |-> IF i = n THEN ScanStep(b, f[n - 1]) ELSE f[i]]
  <2>3. ASSUME NEW i \in 0..n
        PROVE  g[i] = IF i = 0 THEN start ELSE ScanStep(b, g[i - 1])
    <3>1. CASE i = n
      <4>0. n \in 0..n /\ n - 1 \in 0..n /\ n - 1 # n
        BY <1>3, <1>5
      <4>1. g[i] = ScanStep(b, f[n - 1]) /\ g[n - 1] = f[n - 1]
        BY <3>1, <4>0
      <4>2. QED
        BY <1>5, <3>1, <4>1
    <3>2. CASE i # n
      <4>1. i \in 0..(n - 1) /\ g[i] = f[i]
        BY <1>3, <3>2
      <4>2. f[i] = IF i = 0 THEN start ELSE ScanStep(b, f[i - 1])
        BY <2>2, <4>1 DEF Scans
      <4>3. i # 0 => i - 1 \in 0..n /\ i - 1 # n
        BY <1>3, <4>1
      <4>4. i # 0 => g[i - 1] = f[i - 1]
        BY <4>3
      <4>5. QED
        BY <4>1, <4>2, <4>4
    <3>3. QED
      BY <3>1, <3>2
  <2>4. g = [i \in 0..n |-> g[i]]
    OBVIOUS
  <2> HIDE DEF g
  <2>5. g = [i \in 0..n |-> IF i = 0 THEN start ELSE ScanStep(b, g[i - 1])]
    BY <2>3, <2>4
  <2>6. QED
    BY <1>3, <2>5 DEF Scans
<1>6. QED
  BY <1>4, <1>5

\* find_head_end goes on from where it was and finds the first empty line, if any.
LEMMA ScannedIs ==
    ASSUME NEW b \in Seq(WireByte), NEW scan, NEW line, ScanHolds(b, scan, line)
    PROVE  ScanGood(b, Scanned(b, scan, line))
<1>1. PICK n \in Nat : n = Len(b)
  OBVIOUS
<1>2. PICK start : start = Scan("more", scan, line)
  OBVIOUS
<1>3. ScanGood(b, start)
  BY <1>2 DEF ScanGood, Scan
<1>4. \E f : Scans(f, b, start, n)
  BY ScansExist
<1> DEFINE f == CHOOSE g : Scans(g, b, start, n)
<1>5. Scans(f, b, start, n)
  BY <1>4
<1>6. Scanned(b, scan, line) = f[n]
  BY <1>1, <1>2 DEF Scanned, Scans
<1> HIDE DEF f
<1> DEFINE T == {i \in 0..n : ~ ScanGood(b, f[i])}
<1>7. T = {}
  <2>1. SUFFICES ASSUME T # {} PROVE FALSE
    OBVIOUS
  <2>2. T \subseteq Nat
    OBVIOUS
  <2> HIDE DEF T
  <2>3. PICK i \in T : \A k \in T : i <= k
    BY <2>1, <2>2, LeastNumber
  <2> USE DEF T
  <2>4. i \in 0..n /\ ~ ScanGood(b, f[i])
    OBVIOUS
  <2>5. f[i] = IF i = 0 THEN start ELSE ScanStep(b, f[i - 1])
    BY <1>5, <2>4 DEF Scans
  <2>6. i # 0
    BY <1>3, <2>4, <2>5
  <2>7. i - 1 \in 0..n /\ i - 1 \notin T
    BY <2>3, <2>4, <2>6
  <2>8. ScanGood(b, f[i - 1])
    BY <2>7
  <2>9. ScanGood(b, ScanStep(b, f[i - 1]))
    BY <2>8, ScanStepIs
  <2>10. QED
    BY <2>4, <2>5, <2>6, <2>9
<1>8. n \in 0..n
  OBVIOUS
<1>9. QED
  BY <1>6, <1>7, <1>8

-----------------------------------------------------------------------------
(* The connection.                                                         *)

\* Of two numbers the smaller.
LEMMA MinIs ==
    ASSUME NEW a \in Int, NEW b \in Int
    PROVE  Min({a, b}) = IF a <= b THEN a ELSE b
<1>1. Min({a, b}) \in {a, b} /\ \A y \in {a, b} : Min({a, b}) <= y
  <2>1. \E x \in {a, b} : \A y \in {a, b} : x <= y
    OBVIOUS
  <2>2. QED
    BY <2>1 DEF Min
<1>2. QED
  BY <1>1

\* A sequence cut in two.
LEMMA Cut ==
    ASSUME NEW B, NEW s \in Seq(B), NEW i \in Nat, NEW j \in Nat, NEW k \in Nat,
           1 <= i, i <= j + 1, j <= k, k <= Len(s)
    PROVE  /\ SubSeq(s, i, j) \in Seq(B) /\ SubSeq(s, j + 1, k) \in Seq(B)
           /\ SubSeq(s, i, k) \in Seq(B)
           /\ SubSeq(s, i, j) \o SubSeq(s, j + 1, k) = SubSeq(s, i, k)
<1>1. \A a, c \in Nat : 1 <= a /\ c <= k => SubSeq(s, a, c) \in Seq(B)
  OBVIOUS
<1>2. SubSeq(s, i, j) \in Seq(B) /\ SubSeq(s, j + 1, k) \in Seq(B) /\ SubSeq(s, i, k) \in Seq(B)
  BY <1>1
<1>3. i \in 1..(Len(s) + 1) /\ j \in (i - 1)..Len(s) /\ k \in j..Len(s)
  OBVIOUS
<1>4. SubSeq(s, i, j) \o SubSeq(s, j + 1, k) = SubSeq(s, i, k)
  BY <1>3, ConcatAdjacentSubSeq
<1>5. QED
  BY <1>2, <1>4

\* What a head must be: lines, of which the last and no other is empty.
GoodHead(h) ==
    /\ CleanUpTo(h, Len(h)) /\ EmptyLineAt(h, Len(h))
    /\ \A k \in 1..(Len(h) - 1) : ~ EmptyLineAt(h, k)

\* What the scanner found is one.
LEMMA HeadIs ==
    ASSUME NEW b \in Seq(WireByte), NEW end, HeadFound(b, end)
    PROVE  end \in 1..Len(b) /\ SubSeq(b, 1, end) \in Seq(WireByte) /\ GoodHead(SubSeq(b, 1, end))
<1>1. PICK n \in Nat, e \in Nat : n = Len(b) /\ e = end /\ e \in 1..n
  BY DEF HeadFound
<1>2. PICK h : h = SubSeq(b, 1, e)
  OBVIOUS
<1>3. h \in Seq(WireByte) /\ Len(h) = e /\ \A i \in 1..e : h[i] = b[i]
  BY <1>1, <1>2
<1>4. CleanUpTo(h, e)
  <2>1. SUFFICES ASSUME NEW i \in 1..e
                 PROVE  /\ h[i] # "nul"
                        /\ h[i] = "cr" => i < e /\ h[i + 1] = "lf"
                        /\ h[i] = "lf" => i > 1 /\ h[i - 1] = "cr"
    BY <1>3 DEF CleanUpTo
  <2>2. /\ b[i] # "nul"
        /\ b[i] = "cr" => i < e /\ b[i + 1] = "lf"
        /\ b[i] = "lf" => i > 1 /\ b[i - 1] = "cr"
    BY <1>1 DEF HeadFound, Lines
  <2>3. h[i] = b[i] /\ (i < e => h[i + 1] = b[i + 1]) /\ (i > 1 => h[i - 1] = b[i - 1])
    <3>1. i \in 1..e /\ (i < e => i + 1 \in 1..e) /\ (i > 1 => i - 1 \in 1..e)
      OBVIOUS
    <3>2. QED
      BY <1>3, <3>1
  <2>4. QED
    BY <2>2, <2>3
<1>5. ASSUME NEW k \in 1..e PROVE EmptyLineAt(h, k) <=> EmptyLineAt(b, k)
  <2>1. h[k] = b[k] /\ (k >= 2 => h[k - 1] = b[k - 1])
        /\ (k >= 4 => h[k - 3] = b[k - 3] /\ h[k - 2] = b[k - 2])
    <3>1. (k >= 2 => k - 1 \in 1..e) /\ (k >= 4 => k - 3 \in 1..e /\ k - 2 \in 1..e)
      OBVIOUS
    <3>2. QED
      BY <1>3, <3>1
  <2>2. k <= e /\ k <= n
    BY <1>1
  <2>3. QED
    BY <1>1, <1>3, <2>1, <2>2 DEF EmptyLineAt
<1>6. EmptyLineAt(h, e)
  BY <1>1, <1>5 DEF HeadFound
<1>7. \A k \in 1..(e - 1) : ~ EmptyLineAt(h, k)
  BY <1>1, <1>5 DEF HeadFound, NoEmptyLine
<1>8. QED
  BY <1>1, <1>2, <1>3, <1>4, <1>6, <1>7 DEF GoodHead

\* The inductive invariant: what was taken and what is in the buffer is what was
\* sent so far, every head that was taken is one, and the scanner has read what it
\* thinks it has.
WireInv ==
    /\ sent \in Seq(WireByte) /\ arrived \in Nat /\ arrived <= Len(sent)
    /\ buf \in Seq(WireByte) /\ at \in Nat /\ at <= Len(buf)
    /\ took \in Seq(Request)
    /\ wire = Reading(wire.at, wire.scan, wire.line, wire.want)
    /\ ReadSoFar = SubSeq(sent, 1, arrived)
    /\ \A i \in DOMAIN took : GoodHead(took[i].head)
    /\ wire.at = "head" => at = 0 /\ ScanHolds(buf, wire.scan, wire.line)
    /\ wire.at = "parsed" => at = 0 /\ HeadFound(buf, wire.scan)
    /\ wire.at = "body" => took # <<>> /\ wire.want \in Nat

\* A connection starts with nothing.
LEMMA WireStarts ==
    ASSUME WireConstants, WireInit PROVE WireInv
<1>1. /\ sent \in Seq(WireByte) /\ arrived = 0 /\ buf = <<>> /\ at = 0 /\ took = <<>>
      /\ wire = Reading("head", 0, 0, 0)
  BY DEF WireInit, WireConstants
<1>2. /\ wire.at = "head" /\ wire.scan = 0 /\ wire.line = 0
      /\ wire = Reading(wire.at, wire.scan, wire.line, wire.want)
  BY <1>1 DEF Reading
<1>3. ScanHolds(buf, 0, 0)
  <2>1. Len(buf) = 0 /\ 1..0 = {} /\ (0 + 1)..0 = {}
    BY <1>1
  <2>2. QED
    BY <2>1 DEF ScanHolds, Lines, NoEmptyLine
<1>4. ReadSoFar = <<>>
  <2>1. [i \in DOMAIN took |-> took[i].head \o took[i].body] = <<>>
    BY <1>1
  <2>2. FlattenSeq(<<>>) = <<>>
    <3>1. Len(<<>>) = 0
      OBVIOUS
    <3>2. QED
      BY <3>1, Zenon DEF FlattenSeq
  <2>3. SubSeq(buf, at + 1, Len(buf)) = <<>> /\ <<>> \o <<>> = <<>>
    BY <1>1
  <2>4. QED
    BY <2>1, <2>2, <2>3 DEF ReadSoFar
<1>5. SubSeq(sent, 1, arrived) = <<>>
  BY <1>1
<1>6. QED
  BY <1>1, <1>2, <1>3, <1>4, <1>5 DEF WireInv

\* Where the reading ends, nothing of what was read changes.
LEMMA ReadingEnds ==
    ASSUME WireInv, UNCHANGED <<sent, arrived, buf, at, took>>, NEW status, Refuse(status),
           status \notin {"head", "parsed", "body"}
    PROVE  WireInv'
<1>1. wire' = [wire EXCEPT !.at = status] /\ wire = Reading(wire.at, wire.scan, wire.line, wire.want)
  BY DEF Refuse, WireInv
<1>2. wire'.at = status /\ wire' = Reading(wire'.at, wire'.scan, wire'.line, wire'.want)
  BY <1>1 DEF Reading
<1>3. ReadSoFar' = ReadSoFar
  BY DEF ReadSoFar
<1>4. QED
  BY <1>2, <1>3 DEF WireInv

\* What a read brings is what comes next of what was sent.
LEMMA PortionIs ==
    ASSUME WireConstants, WireInv, NEW b \in Seq(WireByte), NEW n \in Portions(b)
    PROVE  /\ n \in Nat /\ arrived + n \in Nat /\ arrived + n <= Len(sent)
           /\ SubSeq(sent, arrived + 1, arrived + n) \in Seq(WireByte)
           /\ SubSeq(sent, 1, arrived) \in Seq(WireByte)
           /\ SubSeq(sent, 1, arrived) \o SubSeq(sent, arrived + 1, arrived + n)
              = SubSeq(sent, 1, arrived + n)
<1>0. PICK m \in Nat, l \in Nat, a \in Nat, k \in Nat :
          m = Len(sent) /\ l = Len(b) /\ a = arrived /\ a <= m /\ k = MaxHeaderSection + ReadChunk
  BY DEF WireInv, WireConstants
<1>1. PICK x \in Int, y \in Int : x = m - a /\ y = k - l
  OBVIOUS
<1>2. Min({x, y}) = IF x <= y THEN x ELSE y
  BY MinIs
<1>3. n \in 1..Min({x, y})
  <2>1. n \in 1..Min({Len(sent) - arrived, MaxHeaderSection + ReadChunk - Len(b)})
    BY Zenon DEF Portions
  <2>2. Len(sent) - arrived = x /\ MaxHeaderSection + ReadChunk - Len(b) = y
    <3>1. Len(sent) - arrived = x
      BY <1>0, <1>1
    <3>2. MaxHeaderSection \in Nat /\ ReadChunk \in Nat /\ Len(b) \in Nat
      BY DEF WireConstants
    <3>3. QED
      BY <1>0, <1>1, <3>1, <3>2
  <2>3. QED
    BY <2>1, <2>2, Zenon
<1>4. n \in Nat /\ n <= x
  BY <1>2, <1>3
<1>5. a + n <= m /\ sent \in Seq(WireByte)
  <2>1. a + n <= m
    BY <1>1, <1>4
  <2>2. QED
    BY <2>1 DEF WireInv
<1>6. a <= a + n /\ a + n \in Nat
  BY <1>4
<1>7. /\ SubSeq(sent, 1, a) \in Seq(WireByte) /\ SubSeq(sent, a + 1, a + n) \in Seq(WireByte)
      /\ SubSeq(sent, 1, a) \o SubSeq(sent, a + 1, a + n) = SubSeq(sent, 1, a + n)
  <2>1. 1 \in Nat /\ 1 <= 1 /\ 1 <= a + 1 /\ a + n <= Len(sent)
    BY <1>0, <1>5
  <2>2. QED
    BY <1>5, <1>6, <2>1, Cut
<1>8. QED
  BY <1>0, <1>4, <1>5, <1>7

\* All that was read is bytes.
LEMMA ReadIs ==
    ASSUME WireInv
    PROVE  /\ BytesOf(took) \in Seq(WireByte) /\ SubSeq(buf, at + 1, Len(buf)) \in Seq(WireByte)
           /\ ReadSoFar = BytesOf(took) \o SubSeq(buf, at + 1, Len(buf))
<1>1. PICK none \in Seq(WireByte) : none = <<>>
  <2>1. <<>> \in Seq(WireByte)
    OBVIOUS
  <2>2. QED
    BY <2>1
<1>2. BytesOf(took) \in Seq(WireByte)
  <2>1. [head |-> none, body |-> none] \in Request
    BY DEF Request
  <2>2. took \in Seq(Request)
    BY DEF WireInv
  <2>3. QED
    BY <2>1, <2>2, BytesAppend
<1>3. PICK b \in Seq(WireByte), a \in Nat : b = buf /\ a = at
  BY DEF WireInv
<1>4. SubSeq(b, a + 1, Len(b)) \in Seq(WireByte)
  OBVIOUS
<1>5. QED
  BY <1>2, <1>3, <1>4 DEF ReadSoFar, BytesOf

\* A head being read.
LEMMA HeadBytesHolds ==
    ASSUME WireConstants, WireInv, HeadBytes
    PROVE  WireInv'
<1>1. PICK n \in Portions(buf) : /\ buf' = buf \o SubSeq(sent, arrived + 1, arrived + n)
                                 /\ arrived' = arrived + n
  BY DEF HeadBytes
<1>2. /\ wire.at = "head" /\ at = 0 /\ ScanHolds(buf, wire.scan, wire.line) /\ buf \in Seq(WireByte)
      /\ sent' = sent /\ at' = at /\ took' = took /\ wire' = AfterScan(buf', wire.scan, wire.line)
  BY DEF HeadBytes, WireInv
<1>3. PICK c \in Seq(WireByte) : c = SubSeq(sent, arrived + 1, arrived + n)
  BY <1>2, PortionIs
<1>4. /\ arrived + n \in Nat /\ arrived + n <= Len(sent)
      /\ SubSeq(sent, 1, arrived) \o c = SubSeq(sent, 1, arrived + n)
  BY <1>2, <1>3, PortionIs
<1>5. PICK b \in Seq(WireByte) : b = buf \o c /\ b = buf'
  <2>1. PICK a \in Seq(WireByte) : a = buf
    BY <1>2
  <2>2. a \o c \in Seq(WireByte)
    OBVIOUS
  <2>3. QED
    BY <1>1, <1>3, <2>1, <2>2
<1>6. ScanGood(b, Scanned(b, wire.scan, wire.line))
  <2>1. ScanHolds(b, wire.scan, wire.line)
    BY <1>2, <1>5, ScanGoesOn
  <2>2. QED
    BY <2>1, ScannedIs
<1>7. PICK s : s = Scanned(b, wire.scan, wire.line)
  OBVIOUS
<1>8. wire' = IF s.found = "more" THEN Reading("head", s.scan, s.line, 0)
              ELSE IF s.found = "end" THEN Reading("parsed", s.scan, 0, 0)
              ELSE Reading(s.found, 0, 0, 0)
  BY <1>2, <1>5, <1>7 DEF AfterScan
<1>9. /\ wire' = Reading(wire'.at, wire'.scan, wire'.line, wire'.want)
      /\ wire'.at = "head" => ScanHolds(b, wire'.scan, wire'.line)
      /\ wire'.at = "parsed" => HeadFound(b, wire'.scan)
      /\ wire'.at # "body"
  <2>0. ScanGood(b, s)
    BY <1>6, <1>7
  <2>1. CASE s.found = "more"
    <3>1. wire' = Reading("head", s.scan, s.line, 0)
      BY <1>8, <2>1
    <3>2. QED
      BY <2>0, <2>1, <3>1 DEF Reading, ScanGood
  <2>2. CASE s.found = "end"
    <3>1. wire' = Reading("parsed", s.scan, 0, 0)
      BY <1>8, <2>2
    <3>2. QED
      BY <2>0, <2>2, <3>1 DEF Reading, ScanGood
  <2>3. CASE s.found \in {"400", "431"}
    <3>1. wire' = Reading(s.found, 0, 0, 0)
      BY <1>8, <2>3
    <3>2. QED
      BY <2>3, <3>1 DEF Reading
  <2>4. QED
    BY <2>0, <2>1, <2>2, <2>3 DEF ScanGood
<1>10. ReadSoFar' = SubSeq(sent', 1, arrived')
  <2>1. PICK f \in Seq(WireByte) : f = BytesOf(took)
    BY ReadIs
  <2>2. SubSeq(buf, at + 1, Len(buf)) = buf /\ SubSeq(b, at + 1, Len(b)) = b
    <3>1. at + 1 = 1
      BY <1>2
    <3>2. SubSeq(buf, 1, Len(buf)) = buf /\ SubSeq(b, 1, Len(b)) = b
      BY <1>2, SubSeqFull
    <3>3. QED
      BY <3>1, <3>2
  <2>3. f \o buf = SubSeq(sent, 1, arrived)
    BY <2>1, <2>2, ReadIs DEF WireInv
  <2>4. (f \o buf) \o c = f \o (buf \o c)
    <3>1. Assoc(f, buf, c)
      BY <1>2, Associates
    <3>2. QED
      BY <3>1 DEF Assoc
  <2>5. ReadSoFar' = f \o b
    BY <1>2, <1>5, <2>1, <2>2 DEF ReadSoFar, BytesOf
  <2>6. QED
    BY <1>1, <1>2, <1>4, <1>5, <2>3, <2>4, <2>5
<1>11. sent' \in Seq(WireByte) /\ arrived' \in Nat /\ arrived' <= Len(sent') /\ at' \in Nat /\ at' <= Len(buf')
  <2>1. Len(b) \in Nat
    OBVIOUS
  <2>2. QED
    BY <1>1, <1>2, <1>4, <1>5, <2>1 DEF WireInv
<1>12. QED
  BY <1>2, <1>5, <1>9, <1>10, <1>11 DEF WireInv

\* The request is answered and the next one is read from an empty buffer.
LEMMA NextRequestHolds ==
    ASSUME WireInv, NextRequest
    PROVE  WireInv'
<1>1. CASE Len(buf) > at
  <2>1. Refuse("closed") /\ UNCHANGED <<sent, arrived, buf, at, took>>
    BY <1>1 DEF NextRequest
  <2>2. QED
    BY <2>1, ReadingEnds
<1>2. CASE ~ (Len(buf) > at)
  <2>1. /\ buf' = <<>> /\ at' = 0 /\ wire' = Reading("head", 0, 0, 0)
        /\ sent' = sent /\ arrived' = arrived /\ took' = took
    BY <1>2 DEF NextRequest
  <2>2. wire'.at = "head" /\ wire'.scan = 0 /\ wire'.line = 0
        /\ wire' = Reading(wire'.at, wire'.scan, wire'.line, wire'.want)
    BY <2>1 DEF Reading
  <2>3. ScanHolds(<<>>, 0, 0)
    <3>1. Len(<<>>) = 0 /\ 1..0 = {} /\ (0 + 1)..0 = {}
      OBVIOUS
    <3>2. QED
      BY <3>1 DEF ScanHolds, Lines, NoEmptyLine
  <2>4. SubSeq(buf, at + 1, Len(buf)) = <<>>
    <3>1. PICK b \in Seq(WireByte), a \in Nat : b = buf /\ a = at /\ Len(b) < a + 1
      BY <1>2 DEF WireInv
    <3>2. SubSeq(b, a + 1, Len(b)) = <<>>
      BY <3>1
    <3>3. QED
      BY <3>1, <3>2
  <2>5. SubSeq(buf', at' + 1, Len(buf')) = <<>>
    BY <2>1
  <2>6. ReadSoFar' = ReadSoFar
    BY <2>1, <2>4, <2>5 DEF ReadSoFar
  <2>7. <<>> \in Seq(WireByte) /\ 0 <= Len(<<>>) /\ 0 \in Nat
    OBVIOUS
  <2>8. QED
    BY <2>1, <2>2, <2>3, <2>6, <2>7 DEF WireInv
<1>3. QED
  BY <1>1, <1>2

\* read_body takes the first bytes there are, no more than are missing.
TakesFirst(length, body, b, from) ==
    \E n \in Nat : /\ from + n <= Len(b)
                   /\ Taking(length, body, b, from)
                      = [body |-> body \o SubSeq(b, from + 1, from + n), at |-> from + n]
LEMMA TakingIs ==
    ASSUME NEW length \in Nat, NEW body \in Seq(WireByte), Len(body) <= length,
           NEW b \in Seq(WireByte), NEW from \in Nat, from <= Len(b)
    PROVE  TakesFirst(length, body, b, from)
<1>1. PICK x \in Nat, y \in Nat : x = length - Len(body) /\ y = Len(b) - from
  <2>1. PICK p \in Nat, q \in Nat : p = Len(body) /\ q = Len(b)
    OBVIOUS
  <2>2. length - p \in Nat /\ q - from \in Nat
    BY <2>1
  <2>3. QED
    BY <2>1, <2>2
<1>2. PICK n \in Nat : n = Min({x, y}) /\ n <= y
  <2>1. Min({x, y}) = IF x <= y THEN x ELSE y
    BY MinIs
  <2>2. QED
    BY <2>1
<1>3. from + n <= Len(b)
  BY <1>1, <1>2
<1>4. Taking(length, body, b, from)
      = [body |-> body \o SubSeq(b, from + 1, from + n), at |-> from + n]
  <2>1. Min({length - Len(body), Len(b) - from}) = n
    BY <1>1, <1>2
  <2>2. QED
    BY <2>1, Zenon DEF Taking
<1>5. QED
  BY ONLY <1>3, <1>4, n \in Nat, Zenon DEF TakesFirst

\* The part taken moves from what is left to what was read.
Regroups(f, h, x, y, z) == (f \o (h \o (x \o y))) \o z = (f \o (h \o x)) \o (y \o z)
LEMMA Regrouped ==
    ASSUME NEW B, NEW f \in Seq(B), NEW h \in Seq(B), NEW x \in Seq(B), NEW y \in Seq(B),
           NEW z \in Seq(B)
    PROVE  Regroups(f, h, x, y, z)
<1>1. h \o x \in Seq(B)
  OBVIOUS
<1>2. PICK hx \in Seq(B) : hx = h \o x
  BY <1>1
<1>3. f \o hx \in Seq(B)
  OBVIOUS
<1>4. PICK fhx \in Seq(B) : fhx = f \o hx
  BY <1>3
<1>5. Assoc(h, x, y)
  BY Associates
<1>6. Assoc(f, hx, y)
  BY Associates
<1>7. Assoc(fhx, y, z)
  BY Associates
<1>8. QED
  BY ONLY <1>2, <1>4, <1>5, <1>6, <1>7, Zenon DEF Assoc, Regroups

\* A head is taken, and of what came with it the beginning of the body.
LEMMA TakeHeadHolds ==
    ASSUME WireConstants, WireInv, NEW length \in Lengths, TakeHead(length)
    PROVE  WireInv'
<1>1. CASE length > MaxBodyLength
  <2>1. Refuse("413") /\ UNCHANGED <<sent, arrived, buf, at, took>>
    BY <1>1 DEF TakeHead
  <2>2. QED
    BY <2>1, ReadingEnds
<1>2. CASE ~ (length > MaxBodyLength)
  <2>1. /\ took' = Append(took, [head |-> SubSeq(buf, 1, wire.scan),
                                 body |-> Taking(length, <<>>, buf, wire.scan).body])
        /\ at' = Taking(length, <<>>, buf, wire.scan).at
        /\ wire' = Reading("body", 0, 0, length)
        /\ buf' = buf /\ sent' = sent /\ arrived' = arrived
    BY <1>2 DEF TakeHead
  <2>2. /\ length \in Nat /\ buf \in Seq(WireByte) /\ HeadFound(buf, wire.scan) /\ at = 0
        /\ took \in Seq(Request)
    BY DEF TakeHead, WireInv, WireConstants
  <2>3. PICK b \in Seq(WireByte), l \in Nat, k \in Nat :
            b = buf /\ l = Len(b) /\ k = wire.scan /\ k <= l
    BY <2>2 DEF HeadFound
  <2>4. PICK h \in Seq(WireByte) : h = SubSeq(b, 1, k) /\ GoodHead(h)
    BY <2>2, <2>3, HeadIs
  <2>5. PICK n \in Nat : /\ k + n <= l
                         /\ Taking(length, <<>>, b, k)
                            = [body |-> <<>> \o SubSeq(b, k + 1, k + n), at |-> k + n]
    <3>1. PICK none \in Seq(WireByte) : none = <<>> /\ Len(none) = 0
      <4>1. <<>> \in Seq(WireByte) /\ Len(<<>>) = 0
        OBVIOUS
      <4>2. QED
        BY <4>1
    <3>2. Len(none) <= length /\ k <= Len(b) /\ length \in Nat
      BY <2>2, <2>3, <3>1
    <3>3. TakesFirst(length, none, b, k)
      BY <3>2, TakingIs
    <3>4. QED
      BY ONLY <2>3, <3>1, <3>3, Zenon DEF TakesFirst
  <2>6. k + n \in Nat /\ k <= k + n /\ 1 <= 1 /\ 1 <= k + 1 /\ k + n <= Len(b)
        /\ l <= Len(b) /\ 1 <= k + n + 1 /\ 1 \in Nat
    <3>1. k + n <= Len(b) /\ l <= Len(b)
      BY <2>3, <2>5
    <3>2. k + n \in Nat /\ k <= k + n /\ 1 <= 1 /\ 1 <= k + 1 /\ 1 <= k + n + 1 /\ 1 \in Nat
      BY ONLY k \in Nat, n \in Nat
    <3>3. QED
      BY <3>1, <3>2
  <2>7. /\ SubSeq(b, k + 1, k + n) \in Seq(WireByte) /\ SubSeq(b, 1, k + n) \in Seq(WireByte)
        /\ SubSeq(b, 1, k) \o SubSeq(b, k + 1, k + n) = SubSeq(b, 1, k + n)
    BY <2>6, Cut
  <2>8. /\ SubSeq(b, k + n + 1, l) \in Seq(WireByte)
        /\ SubSeq(b, 1, k + n) \o SubSeq(b, k + n + 1, l) = SubSeq(b, 1, l)
    BY <2>5, <2>6, Cut
  <2>9. SubSeq(b, 1, l) = b
    BY <2>3, SubSeqFull
  <2>10. PICK body \in Seq(WireByte) : body = SubSeq(b, k + 1, k + n)
    BY <2>7
  <2>11. PICK rest \in Seq(WireByte) : rest = SubSeq(b, k + n + 1, l)
    BY <2>8
  <2>12. <<>> \o body = body
    OBVIOUS
  <2>13. PICK r \in Request : r = [head |-> h, body |-> body]
    BY DEF Request
  <2>14. took' = Append(took, r) /\ at' = k + n
    <3>1. Taking(length, <<>>, buf, wire.scan) = [body |-> body, at |-> k + n]
      BY <2>3, <2>5, <2>10, <2>12, Zenon
    <3>2. /\ Taking(length, <<>>, buf, wire.scan).body = body
          /\ Taking(length, <<>>, buf, wire.scan).at = k + n
      BY ONLY <3>1
    <3>3. SubSeq(buf, 1, wire.scan) = h
      BY <2>3, <2>4, Zenon
    <3>4. QED
      BY ONLY <2>1, <2>13, <3>2, <3>3, Zenon
  <2>15. (h \o body) \o rest = b
    BY <2>4, <2>7, <2>8, <2>9, <2>10, <2>11
  <2>16. PICK f \in Seq(WireByte) : f = BytesOf(took)
    BY ReadIs
  <2>17. BytesOf(took') = f \o (h \o body)
    <3>1. BytesOf(Append(took, r)) = f \o (r.head \o r.body)
      BY <2>2, <2>16, BytesAppend
    <3>2. QED
      BY <2>13, <2>14, <3>1
  <2>18. (f \o (h \o body)) \o rest = f \o b
    <3>1. h \o body \in Seq(WireByte)
      OBVIOUS
    <3>2. PICK hb \in Seq(WireByte) : hb = h \o body
      BY <3>1
    <3>3. Assoc(f, hb, rest)
      BY Associates
    <3>4. QED
      BY ONLY <2>15, <3>2, <3>3, Zenon DEF Assoc
  <2>19. ReadSoFar' = SubSeq(sent', 1, arrived')
    <3>1. ReadSoFar = f \o b
      <4>1. SubSeq(buf, at + 1, Len(buf)) = b
        BY <2>2, <2>3, <2>9
      <4>2. QED
        BY <2>16, <4>1, ReadIs
    <3>2. SubSeq(buf', at' + 1, Len(buf')) = rest
      BY <2>1, <2>3, <2>11, <2>14
    <3>3. ReadSoFar' = BytesOf(took') \o rest
      BY <3>2 DEF ReadSoFar, BytesOf
    <3>4. QED
      BY <2>1, <2>17, <2>18, <3>1, <3>3 DEF WireInv
  <2>20. took' \in Seq(Request) /\ took' # <<>> /\ \A i \in DOMAIN took' : GoodHead(took'[i].head)
    <3>1. took' \in Seq(Request) /\ took' # <<>>
      BY <2>2, <2>14
    <3>2. r.head = h
      BY <2>13
    <3>3. \A i \in DOMAIN took : GoodHead(took[i].head)
      BY DEF WireInv
    <3>4. ASSUME NEW i \in DOMAIN took' PROVE GoodHead(took'[i].head)
      <4>1. took'[i] = r \/ (i \in DOMAIN took /\ took'[i] = took[i])
        <5>1. PICK t \in Seq(Request) : t = took /\ took' = Append(t, r)
          BY <2>2, <2>14
        <5>2. i \in 1..(Len(t) + 1) /\ Len(t) \in Nat /\ DOMAIN t = 1..Len(t)
          BY <5>1
        <5>3. Append(t, r)[i] = IF i = Len(t) + 1 THEN r ELSE t[i]
          BY ONLY <5>2, t \in Seq(Request), r \in Request
        <5>4. i = Len(t) + 1 \/ i \in DOMAIN t
          BY ONLY <5>2
        <5>5. i = Len(t) + 1 => took'[i] = r
          BY ONLY <5>1, <5>3
        <5>6. i # Len(t) + 1 => took'[i] = took[i]
          BY ONLY <5>1, <5>3
        <5>7. QED
          BY ONLY <5>1, <5>4, <5>5, <5>6, Zenon
      <4>2. QED
        BY <2>4, <3>2, <3>3, <4>1
    <3>5. QED
      BY <3>1, <3>4
  <2>21. wire'.at = "body" /\ wire'.want = length
         /\ wire' = Reading(wire'.at, wire'.scan, wire'.line, wire'.want)
    BY <2>1 DEF Reading
  <2>22. at' \in Nat /\ at' <= Len(buf')
    <3>1. at' = k + n /\ Len(buf') = l
      BY <2>1, <2>3, <2>14, Zenon
    <3>2. QED
      BY ONLY <3>1, <2>5, k \in Nat, n \in Nat
  <2>23. QED
    BY <2>1, <2>2, <2>19, <2>20, <2>21, <2>22 DEF WireInv
<1>3. QED
  BY <1>1, <1>2
\* Anything is what comes before a place of it and what comes after.
HalvesAt(b, k) ==
    /\ SubSeq(b, 1, k) \in Seq(WireByte) /\ SubSeq(b, k + 1, Len(b)) \in Seq(WireByte)
    /\ SubSeq(b, 1, k) \o SubSeq(b, k + 1, Len(b)) = b
LEMMA Halves ==
    ASSUME NEW b \in Seq(WireByte), NEW k \in Nat, k <= Len(b)
    PROVE  HalvesAt(b, k)
<1>1. PICK l \in Nat : l = Len(b) /\ k <= l /\ l <= Len(b)
  OBVIOUS
<1>2. 1 \in Nat /\ 1 <= 1 /\ 1 <= k + 1
  OBVIOUS
<1>3. /\ SubSeq(b, 1, k) \in Seq(WireByte) /\ SubSeq(b, k + 1, l) \in Seq(WireByte)
      /\ SubSeq(b, 1, k) \o SubSeq(b, k + 1, l) = SubSeq(b, 1, l)
  <2>1. k <= l /\ l <= Len(b)
    BY <1>1
  <2>2. QED
    BY <1>2, <2>1, Cut
<1>4. SubSeq(b, 1, l) = b
  BY <1>1, SubSeqFull
<1>5. QED
  BY ONLY <1>1, <1>3, <1>4, Zenon DEF HalvesAt

\* read_body goes on: compact, fill, take.
LEMMA BodyBytesHolds ==
    ASSUME WireConstants, WireInv, BodyBytes
    PROVE  WireInv'
<1>1. PICK rest \in Seq(WireByte) : rest = SubSeq(buf, at + 1, Len(buf))
  BY ReadIs
<1>2. PICK n \in Portions(rest) :
         LET b == rest \o SubSeq(sent, arrived + 1, arrived + n)
             t == Taking(wire.want, Last(took).body, b, 0)
         IN /\ buf' = b /\ at' = t.at
            /\ took' = [took EXCEPT ![Len(took)].body = t.body]
            /\ arrived' = arrived + n
  BY <1>1, Zenon DEF BodyBytes
<1>3. /\ sent' = sent /\ wire' = wire /\ wire.at = "body" /\ took # <<>> /\ wire.want \in Nat
      /\ Len(Last(took).body) < wire.want /\ took \in Seq(Request)
  BY DEF BodyBytes, BodyMissing, WireInv
<1>4. PICK c \in Seq(WireByte) : c = SubSeq(sent, arrived + 1, arrived + n)
  BY PortionIs
<1>5. /\ arrived + n \in Nat /\ arrived + n <= Len(sent)
      /\ SubSeq(sent, 1, arrived) \o c = SubSeq(sent, 1, arrived + n)
  BY <1>4, PortionIs
<1>6. PICK b \in Seq(WireByte) : b = rest \o c /\ b = buf'
  <2>1. rest \o c \in Seq(WireByte)
    OBVIOUS
  <2>2. QED
    BY <1>2, <1>4, <2>1
\* The request being read is the last of those taken.
<1>7. PICK m \in Nat \ {0} : m = Len(took)
  BY <1>3
<1>8. PICK r \in Request : r = took[m] /\ GoodHead(r.head)
  <2>1. m \in DOMAIN took /\ took[m] \in Request
    BY <1>3, <1>7
  <2>2. GoodHead(took[m].head)
    BY <2>1 DEF WireInv
  <2>3. QED
    BY <2>1, <2>2
<1>9. PICK h \in Seq(WireByte), body \in Seq(WireByte) :
          h = r.head /\ body = r.body /\ r = [head |-> h, body |-> body]
  BY DEF Request
<1>10. Last(took) = r
  BY <1>7, <1>8 DEF Last
<1>11. PICK k \in Nat : /\ k <= Len(b)
                        /\ Taking(wire.want, body, b, 0) = [body |-> body \o SubSeq(b, 1, k), at |-> k]
  <2>1. Len(body) <= wire.want /\ 0 <= Len(b) /\ 0 \in Nat
    <3>1. PICK p \in Nat, q \in Nat : p = Len(body) /\ q = wire.want /\ p < q
      BY <1>3, <1>9, <1>10
    <3>2. QED
      BY <3>1
  <2>2. \E i \in Nat : /\ 0 + i <= Len(b)
                       /\ Taking(wire.want, body, b, 0)
                          = [body |-> body \o SubSeq(b, 0 + 1, 0 + i), at |-> 0 + i]
    <3>1. PICK want \in Nat, none \in Nat : want = wire.want /\ none = 0
      BY <1>3
    <3>2. Len(body) <= want /\ none <= Len(b)
      BY ONLY <2>1, <3>1
    <3>3. TakesFirst(want, body, b, none)
      BY ONLY <3>2, TakingIs, want \in Nat, none \in Nat, body \in Seq(WireByte), b \in Seq(WireByte)
    <3>4. QED
      BY ONLY <3>1, <3>3, Zenon DEF TakesFirst
  <2>3. PICK i \in Nat : /\ 0 + i <= Len(b)
                        /\ Taking(wire.want, body, b, 0)
                           = [body |-> body \o SubSeq(b, 0 + 1, 0 + i), at |-> 0 + i]
    BY <2>2
  <2>4. 0 + 1 = 1 /\ 0 + i = i
    OBVIOUS
  <2>5. QED
    BY ONLY <2>3, <2>4, i \in Nat, Zenon
<1>12. HalvesAt(b, k)
  BY <1>11, Halves
<1>13. PICK x \in Seq(WireByte), y \in Seq(WireByte) :
           x = SubSeq(b, 1, k) /\ y = SubSeq(b, k + 1, Len(b)) /\ x \o y = b
  BY <1>12 DEF HalvesAt
<1>14. body \o x \in Seq(WireByte)
  OBVIOUS
<1>15. PICK r2 \in Request : r2 = [head |-> h, body |-> body \o x]
  BY <1>14 DEF Request
<1>16. at' = k /\ took' = [took EXCEPT ![m].body = body \o x] /\ arrived' = arrived + n
  <2>1. at' = Taking(wire.want, Last(took).body, b, 0).at
        /\ took' = [took EXCEPT ![m].body = Taking(wire.want, Last(took).body, b, 0).body]
        /\ arrived' = arrived + n
    BY <1>2, <1>4, <1>6, <1>7, Zenon
  <2>2. Taking(wire.want, Last(took).body, b, 0) = [body |-> body \o x, at |-> k]
    BY ONLY <1>9, <1>10, <1>11, <1>13, Zenon
  <2>3. /\ Taking(wire.want, Last(took).body, b, 0).body = body \o x
        /\ Taking(wire.want, Last(took).body, b, 0).at = k
    BY ONLY <2>2
  <2>4. QED
    BY ONLY <2>1, <2>3, Zenon
<1>17. PICK front \in Seq(Request) : took = Append(front, r) /\ took' = Append(front, r2)
  <2>1. PICK front \in Seq(Request) : front = SubSeq(took, 1, m - 1) /\ Len(front) = m - 1
    <3>1. PICK t \in Seq(Request) : t = took /\ Len(t) = m
      BY <1>3, <1>7
    <3>2. SubSeq(t, 1, m - 1) \in Seq(Request) /\ Len(SubSeq(t, 1, m - 1)) = m - 1
      BY ONLY <3>1, t \in Seq(Request), m \in Nat \ {0}
    <3>3. QED
      BY ONLY <3>1, <3>2
  <2>2. \A i \in 1..(m - 1) : front[i] = took[i]
    BY <1>3, <1>7, <2>1
  <2>3. took = Append(front, r)
    BY <1>3, <1>7, <1>8, <2>1, <2>2
  <2>4. took' = [took EXCEPT ![m] = r2]
    <3>1. PICK e : e = body \o x
      OBVIOUS
    <3>2. [[head |-> h, body |-> body] EXCEPT !.body = e] = [head |-> h, body |-> e]
      OBVIOUS
    <3>3. [took[m] EXCEPT !.body = e] = r2
      BY ONLY <1>8, <1>9, <1>15, <3>1, <3>2, Zenon
    <3>4. QED
      BY <1>16, <3>1, <3>3
  <2>5. took' = Append(front, r2)
    BY <1>3, <1>7, <2>1, <2>2, <2>4
  <2>6. QED
    BY <2>3, <2>5
<1>18. PICK f \in Seq(WireByte) :
           /\ f = BytesOf(front) /\ BytesOf(took) = f \o (h \o body)
           /\ BytesOf(took') = f \o (h \o (body \o x))
  <2>1. BytesOf(front) \in Seq(WireByte) /\ BytesOf(took) = BytesOf(front) \o (r.head \o r.body)
    BY <1>17, BytesAppend
  <2>2. BytesOf(took') = BytesOf(front) \o (r2.head \o r2.body)
    BY <1>17, BytesAppend
  <2>3. r2.head = h /\ r2.body = body \o x
    BY <1>15
  <2>4. QED
    BY <1>9, <2>1, <2>2, <2>3
<1>19. ReadSoFar' = SubSeq(sent', 1, arrived')
  <2>1. SubSeq(buf', at' + 1, Len(buf')) = y
    BY <1>6, <1>13, <1>16, Zenon
  <2>2. ReadSoFar' = (f \o (h \o (body \o x))) \o y
    BY <1>18, <2>1, Zenon DEF ReadSoFar, BytesOf
  <2>3. Regroups(f, h, body, x, y)
    BY Regrouped
  <2>4. SubSeq(sent, 1, arrived) = (f \o (h \o body)) \o rest
    <3>1. ReadSoFar = SubSeq(sent, 1, arrived)
      BY DEF WireInv
    <3>2. ReadSoFar = BytesOf(took) \o SubSeq(buf, at + 1, Len(buf))
      BY ReadIs
    <3>3. QED
      BY ONLY <1>1, <1>18, <3>1, <3>2, Zenon
  <2>5. f \o (h \o body) \in Seq(WireByte)
    <3>1. BytesOf(took) \in Seq(WireByte)
      BY ReadIs
    <3>2. QED
      BY ONLY <1>18, <3>1, Zenon
  <2>6. PICK g \in Seq(WireByte) : g = f \o (h \o body)
    BY <2>5
  <2>7. Assoc(g, rest, c)
    BY Associates
  <2>8. ReadSoFar' = SubSeq(sent, 1, arrived + n)
    BY ONLY <1>5, <1>6, <1>13, <2>2, <2>3, <2>4, <2>6, <2>7, Zenon DEF Assoc, Regroups
  <2>9. QED
    BY ONLY <1>3, <1>16, <2>8, Zenon
<1>20. took' \in Seq(Request) /\ took' # <<>> /\ \A i \in DOMAIN took' : GoodHead(took'[i].head)
  <2>1. took' \in Seq(Request) /\ took' # <<>>
    <3>1. Append(front, r2) \in Seq(Request) /\ Len(Append(front, r2)) = Len(front) + 1
          /\ Len(front) \in Nat
      BY ONLY front \in Seq(Request), r2 \in Request
    <3>2. PICK t \in Seq(Request) : t = took'
      BY ONLY <1>17, <3>1, Zenon
    <3>3. Len(t) # 0
      BY ONLY <1>17, <3>1, <3>2
    <3>4. t # <<>>
      BY ONLY <3>3
    <3>5. QED
      BY ONLY <3>2, <3>4
  <2>2. r2.head = h
    BY <1>15
  <2>3. \A i \in DOMAIN took : GoodHead(took[i].head)
    BY DEF WireInv
  <2>4. ASSUME NEW i \in DOMAIN took' PROVE GoodHead(took'[i].head)
    <3>1. took'[i] = r2 \/ (i \in DOMAIN took /\ took'[i] = took[i])
      BY <1>17
    <3>2. QED
      BY <1>8, <1>9, <2>2, <2>3, <3>1
  <2>5. QED
    BY <2>1, <2>4
<1>21. at' \in Nat /\ at' <= Len(buf')
  BY <1>6, <1>11, <1>16
<1>22. sent' \in Seq(WireByte) /\ arrived' \in Nat /\ arrived' <= Len(sent') /\ buf' \in Seq(WireByte)
  BY <1>3, <1>5, <1>6, <1>16 DEF WireInv
<1>23. QED
  BY <1>3, <1>19, <1>20, <1>21, <1>22 DEF WireInv

\* Every step keeps the invariant.
LEMMA WireStep ==
    ASSUME WireConstants, WireInv, [WireNext]_wireVars
    PROVE  WireInv'
<1>1. CASE HeadBytes
  BY <1>1, HeadBytesHolds
<1>2. CASE HeadEof
  <2>1. PICK status \in {"goodbye", "400"} : Refuse(status)
    BY <1>2 DEF HeadEof
  <2>2. UNCHANGED <<sent, arrived, buf, at, took>> /\ status \notin {"head", "parsed", "body"}
    BY <1>2 DEF HeadEof
  <2>3. QED
    BY <2>1, <2>2, ReadingEnds
<1>3. CASE HeadSilent
  <2>1. PICK status \in {"goodbye", "408"} : Refuse(status)
    BY <1>3 DEF HeadSilent
  <2>2. UNCHANGED <<sent, arrived, buf, at, took>> /\ status \notin {"head", "parsed", "body"}
    BY <1>3 DEF HeadSilent
  <2>3. QED
    BY <2>1, <2>2, ReadingEnds
<1>4. CASE HeadLate
  BY <1>4, ReadingEnds DEF HeadLate
<1>5. CASE \E length \in Lengths : TakeHead(length)
  BY <1>5, TakeHeadHolds
<1>6. CASE BodyBytes
  BY <1>6, BodyBytesHolds
<1>7. CASE BodyEof
  BY <1>7, ReadingEnds DEF BodyEof
<1>8. CASE BodyLate
  BY <1>8, ReadingEnds DEF BodyLate
<1>9. CASE NextRequest
  BY <1>9, NextRequestHolds
<1>10. CASE UNCHANGED wireVars
  <2>1. /\ sent' = sent /\ arrived' = arrived /\ buf' = buf /\ at' = at /\ wire' = wire
        /\ took' = took
    BY <1>10 DEF wireVars
  <2>2. ReadSoFar' = ReadSoFar
    BY <2>1 DEF ReadSoFar
  <2>3. QED
    BY <2>1, <2>2 DEF WireInv
<1>11. QED
  BY <1>1, <1>2, <1>3, <1>4, <1>5, <1>6, <1>7, <1>8, <1>9, <1>10 DEF WireNext

\* What the invariant says of the requests.
LEMMA WireFollows ==
    ASSUME WireInv PROVE RequestsAreWhatWasSent
BY DEF WireInv, GoodHead, NoEmptyLine, RequestsAreWhatWasSent

\* Whatever the portions the bytes come in and whenever a deadline passes, every head
\* is the first clean run of lines up to an empty one, every body is the bytes right
\* behind it, and no byte is skipped, repeated or moved into another request.
THEOREM WireHolds == WireSpec => []RequestsAreWhatWasSent
<1>1. WireInit => WireInv
  BY WireAssumption, WireStarts
<1>2. WireInv /\ [WireNext]_wireVars => WireInv'
  BY WireAssumption, WireStep
<1>3. WireInv => RequestsAreWhatWasSent
  BY WireFollows
<1>4. QED
  BY <1>1, <1>2, <1>3, PTL DEF WireSpec
=============================================================================
