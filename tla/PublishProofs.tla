--------------------------- MODULE PublishProofs ---------------------------
(***************************************************************************)
(* Publication into cold storage, proved for every number of nodes, values *)
(* and segments, every budget of tries and every policy of eviction:       *)
(*   RaceInv    as long as nobody else changed the bucket, a manifest is   *)
(*              written once, and whoever was told so reads his own;       *)
(*   BodyInv    without an expiry rule its body is there, and so is what a *)
(*              node holds in memory;                                      *)
(*   TruthInv   whatever was changed, what can be answered from is what a  *)
(*              manifest was written for.                                  *)
(***************************************************************************)
EXTENDS Publish, FiniteSetTheorems, WellFoundedInduction, TLAPS

Stored == [seg : Segment, digest : Content, manifest : Content]

CallStates == {"idle", "body", "manifest", "readback", "fetch", "warm"}

Kinds == {"none", "Committed", "AlreadyPublished", "Answer", "Unavailable", "Unsupported",
          "Diverged", "Indeterminate", "NotPublished", "WrongSegment", "BodyMissing",
          "BodyAltered", "ManifestMismatch"}

Results == [kind : Kinds, seg : 0..MaxSegment, content : Maybe(Content)]

StoreType ==
    /\ sealed \in [Node -> [Segment -> Content]]
    /\ body \in [Segment -> [Content -> Maybe(Content)]]
    /\ envelope \in [Segment -> Maybe(Stored)]

CallType ==
    /\ at \in [Node -> CallStates]
    /\ work \in [Node -> 0..MaxSegment]
    /\ \A n \in Node : at[n] # "idle" => work[n] \in Segment
    /\ left \in [Node -> 0..Attempts]
    /\ held \in [Node -> Maybe(Stored)]
    /\ \A n \in Node : at[n] = "warm" <=> held[n] # Nothing
    /\ result \in [Node -> Results]
    /\ \A n \in Node : result[n].kind \in {"Committed", "AlreadyPublished", "Answer"}
          => result[n].seg \in Segment

MemoryType ==
    /\ hot \in [Node -> [Segment -> Maybe(Content)]]
    /\ \A n \in Node : Cardinality(Held(hot[n])) <= KeepHot

PastType ==
    /\ committed \in [Segment -> SUBSET Content]
    /\ wins \in [Segment -> Nat]
    /\ wrote \subseteq Node
    /\ changes \in 0..MaxChanges

TypeInv == StoreType /\ CallType /\ MemoryType /\ PastType

\* A set of numbers has a least one.
LEMMA LeastNumber ==
    ASSUME NEW T, T \subseteq Nat, T # {}
    PROVE  \E x \in T : \A y \in T : x <= y
<1> DEFINE R == OpToRel(<, Nat)
<1>1. IsWellFoundedOn(R, Nat)
  BY NatLessThanWellFounded
<1>2. \E x \in T : \A y \in T : ~ (<<y, x>> \in R)
  <2> HIDE DEF R
  <2> QED
    BY <1>1, WFMin
<1>3. PICK x \in T : \A y \in T : ~ (<<y, x>> \in R)
  BY <1>2
<1>4. ASSUME NEW y \in T
      PROVE  x <= y
  <2>1. <<y, x>> \notin {p \in Nat \X Nat : p[1] < p[2]}
    BY <1>3 DEF OpToRel
  <2>2. QED
    BY <2>1
<1>5. QED
  BY <1>4

\* evict: what stays is what was there, and no more than the policy allows.
LEMMA EvictedKeeps ==
    ASSUME NEW h \in [Segment -> Maybe(Content)]
    PROVE  /\ Evicted(h) \in [Segment -> Maybe(Content)]
           /\ \A s \in Segment : Evicted(h)[s] \in {h[s], Nothing}
           /\ Cardinality(Held(Evicted(h))) <= KeepHot
<1>1. /\ Evicted(h) \in [Segment -> Maybe(Content)]
      /\ \A s \in Segment : Evicted(h)[s] \in {h[s], Nothing}
  BY DEF Evicted, Maybe
<1>2. IsFiniteSet(Segment) /\ Segment \subseteq Nat
  BY FS_Interval, PublishAssumption DEF Segment
<1> DEFINE E == Held(Evicted(h))
<1>3. CASE E = {}
  BY <1>1, <1>3, FS_EmptySet, PublishAssumption
<1>4. CASE E # {}
  <2>1. E \subseteq Nat /\ E \subseteq Segment
    BY <1>2 DEF Held
  <2>2. PICK m \in E : \A y \in E : m <= y
    BY <1>4, <2>1, LeastNumber
  <2> DEFINE Newer == {t \in Held(h) : t > m}
  <2>3. Newer \subseteq Segment /\ IsFiniteSet(Newer)
    BY <1>2, FS_Subset DEF Held
  <2>4. Cardinality(Newer) < KeepHot
    <3>1. m \in Segment /\ Evicted(h)[m] # Nothing
      BY DEF Held
    <3>2. QED
      BY <3>1 DEF Evicted
  <2>5. E \subseteq Newer \cup {m}
    <3>1. ASSUME NEW t \in E, t # m
          PROVE  t \in Newer
      <4>1. t \in Segment /\ Evicted(h)[t] # Nothing
        BY DEF Held
      <4>2. h[t] # Nothing
        BY <1>1, <4>1
      <4>3. t > m
        BY <2>1, <2>2, <3>1
      <4>4. QED
        BY <4>1, <4>2, <4>3 DEF Held
    <3>2. QED
      BY <3>1
  <2>6. /\ IsFiniteSet(Newer \cup {m})
        /\ Cardinality(Newer \cup {m}) = Cardinality(Newer) + 1
    <3>1. m \notin Newer
      BY <2>1
    <3>2. QED
      BY <2>3, <3>1, FS_AddElement
  <2>7. Cardinality(E) <= Cardinality(Newer \cup {m}) /\ IsFiniteSet(E)
    BY <2>5, <2>6, FS_Subset
  <2>8. Cardinality(E) \in Nat /\ Cardinality(Newer) \in Nat
    BY <2>3, <2>7, FS_CardinalityType
  <2>9. QED
    BY <1>1, <2>4, <2>6, <2>7, <2>8, PublishAssumption
<1>5. QED
  BY <1>1, <1>3, <1>4

-----------------------------------------------------------------------------
(* Types.                                                                  *)

\* The types hold of an empty bucket.
LEMMA InitType == Init => TypeInv
<1> SUFFICES ASSUME Init PROVE TypeInv
  OBVIOUS
<1>1. StoreType /\ PastType
  BY PublishAssumption DEF Init, StoreType, PastType, Maybe
<1>2. CallType
  <2>1. NoResult \in Results /\ NoResult.kind = "none"
    BY PublishAssumption DEF NoResult, Results, Kinds, Maybe
  <2>2. result \in [Node -> Results]
        /\ \A n \in Node : result[n].kind \notin {"Committed", "AlreadyPublished", "Answer"}
    BY <2>1 DEF Init
  <2>3. /\ at \in [Node -> CallStates] /\ work \in [Node -> 0..MaxSegment]
        /\ left \in [Node -> 0..Attempts] /\ held \in [Node -> Maybe(Stored)]
        /\ \A n \in Node : at[n] = "idle" /\ held[n] = Nothing
    BY PublishAssumption DEF Init, CallStates, Maybe
  <2>4. QED
    BY <2>2, <2>3 DEF CallType
<1>3. MemoryType
  <2>1. Held([s \in Segment |-> Nothing]) = {}
    BY DEF Held
  <2>2. hot \in [Node -> [Segment -> Maybe(Content)]]
        /\ \A n \in Node : hot[n] = [s \in Segment |-> Nothing]
    BY DEF Init, Maybe
  <2>3. ASSUME NEW n \in Node
        PROVE  Cardinality(Held(hot[n])) <= KeepHot
    <3>1. Held(hot[n]) = {}
      BY <2>1, <2>2
    <3>2. QED
      BY <3>1, FS_EmptySet, PublishAssumption
  <2>4. QED
    BY <2>2, <2>3 DEF MemoryType
<1>4. QED
  BY <1>1, <1>2, <1>3 DEF TypeInv

\* How a call starts, goes on and ends.
LEMMA CallStarts ==
    ASSUME TypeInv, NEW n \in Node, NEW s \in Segment, NEW first \in {"body", "fetch"},
           Call(n, s, first)
    PROVE  CallType'
<1>1. NoResult \in Results /\ NoResult.kind = "none"
  BY PublishAssumption DEF NoResult, Results, Kinds, Maybe
<1>2. /\ (result \in [Node -> Results])'
      /\ \A m \in Node : result'[m].kind \in {"Committed", "AlreadyPublished", "Answer"}
            => result'[m].seg \in Segment
  BY <1>1 DEF Call, TypeInv, CallType
<1>3. /\ (at \in [Node -> CallStates])' /\ (work \in [Node -> 0..MaxSegment])'
      /\ \A m \in Node : at'[m] # "idle" => work'[m] \in Segment
  BY PublishAssumption DEF Call, TypeInv, CallType, CallStates, Segment
<1>4. /\ (left \in [Node -> 0..Attempts])' /\ (held \in [Node -> Maybe(Stored)])'
      /\ \A m \in Node : at'[m] = "warm" <=> held'[m] # Nothing
  BY PublishAssumption DEF Call, TypeInv, CallType
<1>5. QED
  BY <1>2, <1>3, <1>4 DEF CallType

\* A call that answers its caller is idle again.
LEMMA CallEnds ==
    ASSUME TypeInv, NEW n \in Node, NEW kind \in Kinds, NEW c \in Maybe(Content),
           Reply(n, kind, c), at[n] # "idle"
    PROVE  CallType'
BY PublishAssumption DEF Reply, TypeInv, CallType, CallStates, Results, Maybe, Segment

\* A call that goes on to its next object has all its tries again.
LEMMA CallGoesOn ==
    ASSUME TypeInv, NEW n \in Node, NEW next \in {"manifest", "readback"},
           at[n] \in {"body", "manifest"}, Proceed(n, next)
    PROVE  CallType' /\ UNCHANGED hot
BY PublishAssumption DEF Proceed, TypeInv, CallType, CallStates, Results, Maybe, Segment

\* A call that gives up leaves the memory alone.
LEMMA CallFails ==
    ASSUME TypeInv, NEW n \in Node, NEW kind \in Kinds, at[n] # "idle", Fail(n, kind)
    PROVE  CallType' /\ UNCHANGED hot
BY CallEnds DEF Fail, Maybe

\* A try that failed costs one of the tries left.
LEMMA CallRetries ==
    ASSUME TypeInv, NEW n \in Node, at[n] # "idle", Retry(n)
    PROVE  CallType' /\ UNCHANGED hot
<1>1. CASE left[n] > 1 /\ left' = [left EXCEPT ![n] = @ - 1]
           /\ UNCHANGED <<at, work, held, hot, result>>
  <2>1. (left \in [Node -> 0..Attempts])'
    BY <1>1, PublishAssumption DEF TypeInv, CallType
  <2>2. QED
    BY <1>1, <2>1 DEF TypeInv, CallType
<1>2. CASE Fail(n, "Unavailable")
  BY <1>2, CallFails DEF Kinds
<1>3. QED
  BY <1>1, <1>2 DEF Retry

\* What is put in memory was typed, and eviction keeps the bound.
LEMMA KeepType ==
    ASSUME TypeInv, NEW n \in Node, NEW s \in Segment, NEW c \in Content, Keep(n, s, c)
    PROVE  MemoryType'
<1> DEFINE h == [hot[n] EXCEPT ![s] = c]
<1>1. h \in [Segment -> Maybe(Content)]
  BY DEF TypeInv, MemoryType, Maybe
<1>2. hot' = [hot EXCEPT ![n] = Evicted(h)]
  BY DEF Keep
<1>3. /\ Evicted(h) \in [Segment -> Maybe(Content)]
      /\ Cardinality(Held(Evicted(h))) <= KeepHot
  BY <1>1, EvictedKeeps
<1> HIDE DEF h
<1>4. QED
  BY <1>2, <1>3 DEF TypeInv, MemoryType

\* The bound on memory is about memory only.
LEMMA MemoryKept ==
    ASSUME TypeInv, UNCHANGED hot
    PROVE  MemoryType'
BY DEF TypeInv, MemoryType

\* An envelope names its segment, its digest and its manifest.
LEMMA EnvelopeType ==
    ASSUME NEW s \in Segment, NEW c \in Content
    PROVE  /\ Envelope(s, c) \in Stored
           /\ Envelope(s, c) # Nothing
           /\ Envelope(s, c).seg = s
           /\ Envelope(s, c).digest = c
           /\ Envelope(s, c).manifest = c
BY PublishAssumption DEF Envelope, Stored

\* The two conditional writes.
LEMMA StoreBodyType ==
    ASSUME TypeInv, NEW s \in Segment, NEW c \in Content, StoreBody(s, c),
           UNCHANGED <<sealed, envelope>>
    PROVE  StoreType'
BY DEF StoreBody, TypeInv, StoreType, Maybe

\* A manifest is written for one of the values records can have.
LEMMA StoreEnvelopeType ==
    ASSUME TypeInv, NEW s \in Segment, NEW c \in Content, StoreEnvelope(s, c),
           UNCHANGED <<sealed, body>>
    PROVE  StoreType' /\ committed' \in [Segment -> SUBSET Content]
<1>1. Envelope(s, c) \in Stored
  BY EnvelopeType
<1>2. CASE envelope[s] = Nothing
  <2>1. envelope' = [envelope EXCEPT ![s] = Envelope(s, c)]
        /\ committed' = [committed EXCEPT ![s] = @ \cup {c}]
    BY <1>2 DEF StoreEnvelope
  <2>2. QED
    BY <1>1, <2>1 DEF TypeInv, StoreType, PastType, Maybe
<1>3. CASE envelope[s] # Nothing
  BY <1>3 DEF StoreEnvelope, TypeInv, StoreType, PastType
<1>4. QED
  BY <1>2, <1>3

\* The store's types are about the store only.
LEMMA StoreKept ==
    ASSUME TypeInv, UNCHANGED <<sealed, store>>
    PROVE  StoreType'
BY DEF TypeInv, StoreType, store

\* The history's types hold while it gains nodes only.
LEMMA PastKept ==
    ASSUME TypeInv, UNCHANGED past, wrote' \subseteq Node
    PROVE  PastType'
BY DEF TypeInv, PastType, past

\* A call under way is about a segment its node sealed.
LEMMA WorkIsSealed ==
    ASSUME TypeInv, NEW n \in Node, at[n] # "idle"
    PROVE  work[n] \in Segment /\ sealed[n][work[n]] \in Content
BY DEF TypeInv, CallType, StoreType

\* A call that wrote the manifest and succeeded.
LEMMA SucceedType ==
    ASSUME TypeInv, NEW n \in Node, NEW kind \in Kinds, at[n] # "idle", Succeed(n, kind)
    PROVE  CallType' /\ MemoryType'
<1>1. work[n] \in Segment /\ sealed[n][work[n]] \in Content
  BY WorkIsSealed
<1>2. sealed[n][work[n]] \in Maybe(Content)
  BY <1>1 DEF Maybe
<1>3. QED
  BY <1>1, <1>2, CallEnds, KeepType DEF Succeed

\* The steps of publish.
LEMMA PublishStepType ==
    ASSUME TypeInv, NEW n \in Node,
           \/ PutBody(n) \/ PutBodyLost(n) \/ PutManifest(n) \/ PutManifestLost(n)
           \/ ReadBack(n) \/ Unreachable(n) \/ Unsupported(n)
    PROVE  TypeInv'
<1> USE DEF TypeInv
<1>1. CASE PutBody(n)
  <2>1. at[n] = "body" /\ StoreBody(work[n], sealed[n][work[n]])
        /\ Proceed(n, "manifest") /\ UNCHANGED <<sealed, envelope, record>>
    BY <1>1 DEF PutBody
  <2>2. StoreType'
    BY <2>1, WorkIsSealed, StoreBodyType
  <2>3. CallType' /\ MemoryType'
    BY <2>1, CallGoesOn, MemoryKept
  <2>4. QED
    BY <2>1, <2>2, <2>3 DEF record, PastType
<1>2. CASE PutBodyLost(n)
  <2>1. at[n] = "body" /\ StoreBody(work[n], sealed[n][work[n]])
        /\ Retry(n) /\ UNCHANGED <<sealed, envelope, record>>
    BY <1>2 DEF PutBodyLost
  <2>2. StoreType'
    BY <2>1, WorkIsSealed, StoreBodyType
  <2>3. CallType' /\ MemoryType'
    BY <2>1, CallRetries, MemoryKept
  <2>4. QED
    BY <2>1, <2>2, <2>3 DEF record, PastType
<1>3. CASE PutManifest(n)
  <2>1. /\ at[n] = "manifest" /\ StoreEnvelope(work[n], sealed[n][work[n]])
        /\ UNCHANGED <<sealed, body, wrote, changes>>
        /\ \/ Succeed(n, "Committed") /\ wins' = [wins EXCEPT ![work[n]] = @ + 1]
           \/ Proceed(n, "readback") /\ UNCHANGED wins
    BY <1>3 DEF PutManifest
  <2>2. StoreType' /\ committed' \in [Segment -> SUBSET Content]
    BY <2>1, WorkIsSealed, StoreEnvelopeType
  <2>3. CallType' /\ MemoryType'
    <3>1. CASE Succeed(n, "Committed")
      BY <2>1, <3>1, SucceedType DEF Kinds
    <3>2. CASE Proceed(n, "readback")
      BY <2>1, <3>2, CallGoesOn, MemoryKept
    <3>3. QED
      BY <2>1, <3>1, <3>2
  <2>4. wins' \in [Segment -> Nat]
    BY <2>1 DEF PastType
  <2>5. QED
    BY <2>1, <2>2, <2>3, <2>4 DEF PastType
<1>4. CASE PutManifestLost(n)
  <2>1. /\ at[n] = "manifest" /\ StoreEnvelope(work[n], sealed[n][work[n]])
        /\ Retry(n) /\ UNCHANGED <<sealed, body, wins, changes>>
        /\ wrote' \subseteq wrote \cup {n}
    BY <1>4 DEF PutManifestLost
  <2>2. StoreType' /\ committed' \in [Segment -> SUBSET Content]
    BY <2>1, WorkIsSealed, StoreEnvelopeType
  <2>3. CallType' /\ MemoryType'
    BY <2>1, CallRetries, MemoryKept
  <2>4. QED
    BY <2>1, <2>2, <2>3 DEF PastType
<1>5. ASSUME UNCHANGED <<sealed, store, record>>
      PROVE  StoreType' /\ PastType'
  BY <1>5, StoreKept, PastKept DEF record, past, PastType
<1>6. CASE ReadBack(n)
  <2>1. /\ at[n] = "readback" /\ UNCHANGED <<sealed, store, record>>
        /\ \/ Succeed(n, "AlreadyPublished")
           \/ Fail(n, "Diverged") \/ Fail(n, "Indeterminate")
    BY <1>6 DEF ReadBack
  <2>2. CallType' /\ MemoryType'
    <3>1. CASE Succeed(n, "AlreadyPublished")
      BY <2>1, <3>1, SucceedType DEF Kinds
    <3>2. CASE Fail(n, "Diverged")
      BY <2>1, <3>2, CallFails, MemoryKept DEF Kinds
    <3>3. CASE Fail(n, "Indeterminate")
      BY <2>1, <3>3, CallFails, MemoryKept DEF Kinds
    <3>4. QED
      BY <2>1, <3>1, <3>2, <3>3
  <2>3. QED
    BY <1>5, <2>1, <2>2
<1>7. CASE Unreachable(n)
  BY <1>5, <1>7, CallRetries, MemoryKept DEF Unreachable, Publishing
<1>8. CASE Unsupported(n)
  BY <1>5, <1>8, CallFails, MemoryKept DEF Unsupported, Publishing, Kinds
<1>9. QED
  BY <1>1, <1>2, <1>3, <1>4, <1>6, <1>7, <1>8

\* The steps of query and fetch.
LEMMA FetchStepType ==
    ASSUME TypeInv, NEW n \in Node, FetchEnvelope(n) \/ FetchBody(n) \/ FetchFails(n)
    PROVE  TypeInv'
<1> USE DEF TypeInv
<1>1. StoreType' /\ PastType' /\ at[n] \in {"fetch", "warm"}
  BY StoreKept, PastKept DEF FetchEnvelope, FetchBody, FetchFails, record, past, PastType
<1>2. ASSUME NEW kind \in Kinds, Fail(n, kind)
      PROVE  CallType' /\ MemoryType'
  BY <1>1, <1>2, CallFails, MemoryKept
<1>3. CASE FetchEnvelope(n)
  <2>1. CASE Fail(n, "NotPublished") \/ Fail(n, "WrongSegment")
    BY <1>1, <1>2, <2>1 DEF Kinds
  <2>2. CASE /\ envelope[work[n]] # Nothing
             /\ held' = [held EXCEPT ![n] = envelope[work[n]]]
             /\ at' = [at EXCEPT ![n] = "warm"]
             /\ UNCHANGED <<work, left, hot, result>>
    <3>1. envelope[work[n]] \in Maybe(Stored)
      BY <1>1 DEF StoreType, CallType
    <3>2. CallType'
      BY <1>1, <2>2, <3>1 DEF CallType, CallStates
    <3>3. QED
      BY <1>1, <2>2, <3>2, MemoryKept
  <2>3. QED
    BY <1>3, <2>1, <2>2 DEF FetchEnvelope
<1>4. CASE FetchBody(n)
  <2> DEFINE b == body[work[n]][held[n].digest]
  <2>1. \/ Fail(n, "BodyMissing") \/ Fail(n, "BodyAltered") \/ Fail(n, "ManifestMismatch")
        \/ b = held[n].digest /\ Reply(n, "Answer", b) /\ Keep(n, work[n], b)
    BY <1>4 DEF FetchBody
  <2>2. ASSUME b = held[n].digest, Reply(n, "Answer", b), Keep(n, work[n], b)
        PROVE  CallType' /\ MemoryType'
    <3>1. held[n] \in Stored /\ work[n] \in Segment
      BY <1>4, PublishAssumption DEF FetchBody, CallType, Maybe
    <3>2. b \in Content /\ b \in Maybe(Content)
      BY <2>2, <3>1 DEF Stored, Maybe
    <3>3. QED
      BY <1>1, <2>2, <3>1, <3>2, CallEnds, KeepType DEF Kinds
  <2>3. QED
    BY <1>1, <1>2, <2>1, <2>2 DEF Kinds
<1>5. CASE FetchFails(n)
  BY <1>1, <1>2, <1>5 DEF FetchFails, Kinds
<1>6. QED
  BY <1>3, <1>4, <1>5

\* What a caller starts.
LEMMA CallerType ==
    ASSUME TypeInv, NEW n \in Node, NEW s \in Segment,
           StartPublish(n, s) \/ QueryHot(n, s) \/ QueryCold(n, s)
    PROVE  TypeInv'
<1> USE DEF TypeInv
<1>1. CASE StartPublish(n, s) \/ QueryCold(n, s)
  <2>1. /\ \E first \in {"body", "fetch"} : Call(n, s, first)
        /\ UNCHANGED <<sealed, store, hot>>
    BY <1>1 DEF StartPublish, QueryCold
  <2>2. CallType' /\ StoreType' /\ MemoryType'
    BY <2>1, CallStarts, StoreKept, MemoryKept
  <2>3. PastType'
    BY <2>1, PastKept DEF Call, PastType
  <2>4. QED
    BY <2>2, <2>3
<1>2. CASE QueryHot(n, s)
  <2>1. /\ result' = [result EXCEPT ![n] = [kind |-> "Answer", seg |-> s, content |-> hot[n][s]]]
        /\ UNCHANGED <<sealed, store, at, work, left, held, hot, record>>
    BY <1>2 DEF QueryHot
  <2>2. [kind |-> "Answer", seg |-> s, content |-> hot[n][s]] \in Results
    BY PublishAssumption DEF Results, Kinds, MemoryType, Segment
  <2>3. (result \in [Node -> Results])'
        /\ \A m \in Node : result'[m].kind \in {"Committed", "AlreadyPublished", "Answer"}
              => result'[m].seg \in Segment
    BY <2>1, <2>2 DEF CallType
  <2>4. CallType'
    BY <2>1, <2>3 DEF CallType
  <2>5. StoreType' /\ MemoryType' /\ PastType'
    BY <2>1, StoreKept, MemoryKept DEF record, PastType
  <2>6. QED
    BY <2>4, <2>5
<1>3. QED
  BY <1>1, <1>2

\* A restart forgets the call and the memory.
LEMMA RestartType ==
    ASSUME TypeInv, NEW n \in Node, Restart(n)
    PROVE  TypeInv'
<1> USE DEF TypeInv
<1>1. StoreType' /\ PastType'
  BY StoreKept, PastKept DEF Restart, PastType
<1>2. NoResult \in Results /\ NoResult.kind = "none"
  BY PublishAssumption DEF NoResult, Results, Kinds, Maybe
<1>3. CallType'
  BY <1>2, PublishAssumption DEF Restart, CallType, CallStates, Maybe
<1>4. MemoryType'
  <2> DEFINE none == [t \in Segment |-> Nothing]
  <2>1. none \in [Segment -> Maybe(Content)] /\ Held(none) = {}
    BY DEF Maybe, Held
  <2>2. Cardinality(Held(none)) <= KeepHot
    BY <2>1, FS_EmptySet, PublishAssumption
  <2>3. hot' = [hot EXCEPT ![n] = none]
    BY DEF Restart
  <2> HIDE DEF none
  <2>4. QED
    BY <2>1, <2>2, <2>3 DEF MemoryType
<1>5. QED
  BY <1>1, <1>3, <1>4

\* What others do to the bucket.
LEMMA OthersType ==
    ASSUME TypeInv, Change \/ \E s \in Segment, c \in Content : Expire(s, c)
    PROVE  TypeInv'
<1> USE DEF TypeInv
<1>1. CallType' /\ MemoryType'
  BY DEF Change, Expire, node, CallType, MemoryType
<1>2. PastType'
  BY PublishAssumption DEF Change, Expire, record, PastType
<1>3. StoreType'
  <2>1. ASSUME NEW s \in Segment, NEW c \in Content, Expire(s, c)
        PROVE  StoreType'
    BY <2>1 DEF Expire, StoreType, Maybe
  <2>2. ASSUME NEW s \in Segment, NEW c \in Content, NEW d \in Content,
               body' = [body EXCEPT ![s][c] = d], UNCHANGED <<sealed, envelope>>
        PROVE  StoreType'
    BY <2>2 DEF StoreType, Maybe
  <2>3. ASSUME NEW t \in Segment, NEW e \in Maybe(Stored),
               envelope' = [envelope EXCEPT ![t] = e], UNCHANGED <<sealed, body>>
        PROVE  StoreType'
    BY <2>3 DEF StoreType
  <2>4. ASSUME NEW s \in Segment, NEW d \in Content, envelope[s] # Nothing,
               envelope' = [envelope EXCEPT ![s].digest = d],
               body' = [body EXCEPT ![s][d] = d], UNCHANGED sealed
        PROVE  StoreType'
    <3>1. envelope[s] \in Stored
      BY <2>4 DEF StoreType, Maybe
    <3>2. [envelope[s] EXCEPT !.digest = d] \in Stored
      BY <3>1 DEF Stored
    <3>3. envelope' \in [Segment -> Maybe(Stored)]
      BY <2>4, <3>2 DEF StoreType, Maybe
    <3>4. body' \in [Segment -> [Content -> Maybe(Content)]]
      BY <2>4 DEF StoreType, Maybe
    <3>5. QED
      BY <2>4, <3>3, <3>4 DEF StoreType
  <2>5. ASSUME Change
        PROVE  StoreType'
    <3>1. UNCHANGED sealed
      BY <2>5 DEF Change
    <3>2. CASE \E s \in Segment, c, d \in Content :
                  body' = [body EXCEPT ![s][c] = d] /\ UNCHANGED envelope
      BY <2>2, <3>1, <3>2
    <3>3. CASE \E s \in Segment :
                  envelope' = [envelope EXCEPT ![s] = Nothing] /\ UNCHANGED body
      BY <2>3, <3>1, <3>3 DEF Maybe
    <3>4. CASE \E s, t \in Segment :
                  envelope' = [envelope EXCEPT ![t] = envelope[s]] /\ UNCHANGED body
      <4>1. PICK s \in Segment, t \in Segment :
                    envelope' = [envelope EXCEPT ![t] = envelope[s]] /\ UNCHANGED body
        BY <3>4
      <4>2. envelope[s] \in Maybe(Stored)
        BY DEF StoreType
      <4>3. QED
        BY <2>3, <3>1, <4>1, <4>2
    <3>5. CASE \E s \in Segment, d \in Content :
                  /\ envelope[s] # Nothing
                  /\ envelope' = [envelope EXCEPT ![s].digest = d]
                  /\ body' = [body EXCEPT ![s][d] = d]
      BY <2>4, <3>1, <3>5
    <3>6. QED
      BY <2>5, <3>2, <3>3, <3>4, <3>5 DEF Change
  <2>6. QED
    BY <2>1, <2>5
<1>4. QED
  BY <1>1, <1>2, <1>3

\* Every step keeps the types.
LEMMA NextType == TypeInv /\ [Next]_vars => TypeInv'
<1> SUFFICES ASSUME TypeInv, [Next]_vars PROVE TypeInv'
  OBVIOUS
<1>1. ASSUME NEW n \in Node, NEW s \in Segment,
             StartPublish(n, s) \/ QueryHot(n, s) \/ QueryCold(n, s)
      PROVE  TypeInv'
  BY <1>1, CallerType
<1>2. ASSUME NEW n \in Node, Step(n)
      PROVE  TypeInv'
  BY <1>2, PublishStepType, FetchStepType DEF Step
<1>3. ASSUME NEW n \in Node, Restart(n)
      PROVE  TypeInv'
  BY <1>3, RestartType
<1>4. CASE Change \/ \E s \in Segment, c \in Content : Expire(s, c)
  BY <1>4, OthersType
<1>5. CASE UNCHANGED vars
  BY <1>5 DEF vars, store, node, record, TypeInv, StoreType, CallType, MemoryType, PastType
<1>6. QED
  BY <1>1, <1>2, <1>3, <1>4, <1>5 DEF Next

\* Every variable of the bucket, the calls and the memory has its type in every
\* state, and a node never holds more segments in memory than its policy says.
THEOREM PublishTypes == Spec => []PublishTypeOK
<1>1. TypeInv => PublishTypeOK
  BY DEF TypeInv, PublishTypeOK, StoreType, CallType, MemoryType, PastType, CallStates, Stored
<1>2. QED
  BY <1>1, InitType, NextType, PTL DEF Spec

-----------------------------------------------------------------------------
(* What a step does to the node that takes it.                             *)

Told == {"Committed", "AlreadyPublished", "Answer"}

OthersKept(n) ==
    \A m \in Node \ {n} : /\ at'[m] = at[m] /\ work'[m] = work[m]
                          /\ held'[m] = held[m] /\ result'[m] = result[m]
                          /\ hot'[m] = hot[m]

\* It tells its caller nothing of a segment and keeps nothing new.
Quiet(n) ==
    /\ OthersKept(n)
    /\ hot'[n] = hot[n]
    /\ result'[n] = result[n] \/ result'[n].kind \notin Told
    /\ at'[n] = "warm" => at[n] = "warm" /\ work'[n] = work[n] /\ held'[n] = held[n]
    /\ at'[n] = "manifest" =>
          /\ work'[n] = work[n]
          /\ at[n] = "manifest" \/ StoreBody(work[n], sealed[n][work[n]])

\* It tells its caller of c in its segment, and keeps it in memory.
Keeps(n, c) ==
    /\ OthersKept(n)
    /\ \A s \in Segment : hot'[n][s] # Nothing =>
          hot'[n][s] = IF s = work[n] THEN c ELSE hot[n][s]
    /\ result'[n].seg = work[n] /\ result'[n].content = c
    /\ at'[n] = "idle"

\* Starting a call changes nothing the race is about.
LEMMA CallIsQuiet ==
    ASSUME TypeInv, NEW n \in Node, NEW s, NEW first \in {"body", "fetch"},
           Call(n, s, first), UNCHANGED hot
    PROVE  Quiet(n)
BY DEF Call, NoResult, Quiet, OthersKept, Told, TypeInv, CallType

\* A call that gives up without success tells nobody that he won.
LEMMA FailIsQuiet ==
    ASSUME TypeInv, NEW n \in Node, NEW kind \in Kinds \ Told, Fail(n, kind)
    PROVE  Quiet(n)
BY DEF Fail, Reply, Quiet, OthersKept, TypeInv, CallType

\* Going on to the manifest, or to read it back, decides nothing.
LEMMA ProceedIsQuiet ==
    ASSUME TypeInv, NEW n \in Node,
           \/ StoreBody(work[n], sealed[n][work[n]]) /\ Proceed(n, "manifest")
           \/ at[n] = "manifest" /\ Proceed(n, "readback")
    PROVE  Quiet(n)
BY DEF Proceed, Quiet, OthersKept, TypeInv, CallType

\* Trying once more decides nothing.
LEMMA RetryIsQuiet ==
    ASSUME TypeInv, NEW n \in Node, at[n] # "idle", Retry(n)
    PROVE  Quiet(n)
<1>1. CASE UNCHANGED <<at, work, held, hot, result>>
  BY <1>1 DEF Quiet, OthersKept
<1>2. CASE Fail(n, "Unavailable")
  BY <1>2, FailIsQuiet DEF Kinds, Told
<1>3. QED
  BY <1>1, <1>2 DEF Retry

\* A caller told that his segment is published has it in memory.
LEMMA ReplyKeeps ==
    ASSUME TypeInv, NEW n \in Node, NEW kind, NEW c \in Content, work[n] \in Segment,
           Reply(n, kind, c), Keep(n, work[n], c)
    PROVE  Keeps(n, c) /\ result'[n].kind = kind
<1> DEFINE h == [hot[n] EXCEPT ![work[n]] = c]
<1>1. h \in [Segment -> Maybe(Content)]
  BY DEF TypeInv, MemoryType, Maybe
<1>2. \A s \in Segment : Evicted(h)[s] \in {h[s], Nothing}
  BY <1>1, EvictedKeeps
<1>3. \A s \in Segment : h[s] = IF s = work[n] THEN c ELSE hot[n][s]
  BY DEF TypeInv, MemoryType
<1>4. hot' = [hot EXCEPT ![n] = Evicted(h)]
  BY DEF Keep
<1> HIDE DEF h
<1>5. /\ hot'[n] = Evicted(h)
      /\ \A m \in Node \ {n} : hot'[m] = hot[m]
  BY <1>4 DEF TypeInv, MemoryType
<1>6. /\ \A m \in Node \ {n} : /\ at'[m] = at[m] /\ work'[m] = work[m]
                               /\ held'[m] = held[m] /\ result'[m] = result[m]
      /\ at'[n] = "idle"
      /\ result'[n] = [kind |-> kind, seg |-> work[n], content |-> c]
  BY DEF Reply, TypeInv, CallType
<1>7. QED
  BY <1>2, <1>3, <1>5, <1>6 DEF Keeps, OthersKept

\* A step that leaves the bucket and its history alone.
Untold == UNCHANGED <<sealed, store, committed, wins, changes>>

\* The steps of one node, by what they do to the bucket: nothing, one body
\* written, or the manifest's key tried.
LEMMA StepCases ==
    ASSUME TypeInv, NEW n \in Node, Step(n)
    PROVE  \/ Untold /\ Quiet(n)
           \/ /\ Untold
              /\ at[n] = "readback" /\ envelope[work[n]] = Envelope(work[n], sealed[n][work[n]])
              /\ Keeps(n, sealed[n][work[n]])
              /\ result'[n].kind = "AlreadyPublished"
           \/ /\ Untold
              /\ at[n] = "fetch" /\ at'[n] = "warm" /\ work'[n] = work[n]
              /\ envelope[work[n]] # Nothing /\ envelope[work[n]].seg = work[n]
              /\ held'[n] = envelope[work[n]]
              /\ OthersKept(n) /\ UNCHANGED <<hot, result>>
           \/ /\ Untold
              /\ at[n] = "warm"
              /\ held[n].digest = held[n].manifest
              /\ Keeps(n, held[n].manifest)
              /\ result'[n].kind = "Answer"
           \/ /\ at[n] = "body"
              /\ StoreBody(work[n], sealed[n][work[n]])
              /\ Quiet(n) /\ UNCHANGED <<sealed, envelope, committed, wins, changes>>
           \/ /\ at[n] = "manifest" /\ envelope[work[n]] = Nothing
              /\ StoreEnvelope(work[n], sealed[n][work[n]])
              /\ Keeps(n, sealed[n][work[n]]) /\ result'[n].kind = "Committed"
              /\ wins' = [wins EXCEPT ![work[n]] = @ + 1]
              /\ UNCHANGED <<sealed, body, changes>>
           \/ /\ at[n] = "manifest"
              /\ StoreEnvelope(work[n], sealed[n][work[n]])
              /\ Quiet(n) /\ UNCHANGED <<sealed, body, wins, changes>>
<1>1. at[n] # "idle" => work[n] \in Segment /\ sealed[n][work[n]] \in Content
  BY WorkIsSealed
<1> USE DEF Untold, record, store
<1>2. CASE PutBody(n)
  BY <1>2, ProceedIsQuiet DEF PutBody
<1>3. CASE PutBodyLost(n)
  BY <1>3, RetryIsQuiet DEF PutBodyLost
<1>4. CASE PutManifest(n)
  <2>1. CASE envelope[work[n]] = Nothing
    <3>1. Succeed(n, "Committed") /\ wins' = [wins EXCEPT ![work[n]] = @ + 1]
      BY <1>4, <2>1 DEF PutManifest
    <3>2. Keeps(n, sealed[n][work[n]]) /\ result'[n].kind = "Committed"
      BY <1>1, <1>4, <3>1, ReplyKeeps DEF PutManifest, Succeed
    <3>3. QED
      BY <1>4, <2>1, <3>1, <3>2 DEF PutManifest
  <2>2. CASE envelope[work[n]] # Nothing
    BY <1>4, <2>2, ProceedIsQuiet DEF PutManifest
  <2>3. QED
    BY <2>1, <2>2
<1>5. CASE PutManifestLost(n)
  BY <1>5, RetryIsQuiet DEF PutManifestLost
<1>6. CASE ReadBack(n)
  <2>1. CASE /\ envelope[work[n]] = Envelope(work[n], sealed[n][work[n]])
             /\ Succeed(n, "AlreadyPublished")
    <3>1. Keeps(n, sealed[n][work[n]]) /\ result'[n].kind = "AlreadyPublished"
      BY <1>1, <1>6, <2>1, ReplyKeeps DEF ReadBack, Succeed
    <3>2. QED
      BY <1>6, <2>1, <3>1 DEF ReadBack
  <2>2. CASE Fail(n, "Diverged") \/ Fail(n, "Indeterminate")
    <3>1. Quiet(n)
      BY <2>2, FailIsQuiet DEF Kinds, Told
    <3>2. QED
      BY <1>6, <3>1 DEF ReadBack
  <2>3. QED
    BY <1>6, <2>1, <2>2 DEF ReadBack
<1>7. CASE Unreachable(n)
  BY <1>7, RetryIsQuiet DEF Unreachable, Publishing
<1>8. CASE Unsupported(n)
  BY <1>8, FailIsQuiet DEF Unsupported, Kinds, Told
<1>9. CASE FetchFails(n)
  BY <1>9, FailIsQuiet DEF FetchFails, Kinds, Told
<1>10. CASE FetchEnvelope(n)
  <2>1. CASE Fail(n, "NotPublished") \/ Fail(n, "WrongSegment")
    <3>1. Quiet(n)
      BY <2>1, FailIsQuiet DEF Kinds, Told
    <3>2. QED
      BY <1>10, <3>1 DEF FetchEnvelope
  <2>2. CASE /\ envelope[work[n]] # Nothing /\ envelope[work[n]].seg = work[n]
             /\ held' = [held EXCEPT ![n] = envelope[work[n]]]
             /\ at' = [at EXCEPT ![n] = "warm"]
             /\ UNCHANGED <<work, left, hot, result>>
    <3>1. held'[n] = envelope[work[n]] /\ at'[n] = "warm" /\ OthersKept(n)
      BY <2>2 DEF OthersKept, TypeInv, CallType
    <3>2. QED
      BY <1>10, <2>2, <3>1 DEF FetchEnvelope
  <2>3. QED
    BY <1>10, <2>1, <2>2 DEF FetchEnvelope
<1>11. CASE FetchBody(n)
  <2> DEFINE b == body[work[n]][held[n].digest]
  <2>1. CASE Fail(n, "BodyMissing") \/ Fail(n, "BodyAltered") \/ Fail(n, "ManifestMismatch")
    <3>1. Quiet(n)
      BY <2>1, FailIsQuiet DEF Kinds, Told
    <3>2. QED
      BY <1>11, <3>1 DEF FetchBody
  <2>2. CASE /\ b = held[n].digest /\ b = held[n].manifest
             /\ Reply(n, "Answer", b) /\ Keep(n, work[n], b)
    <3>1. held[n] \in Stored
      BY <1>11, PublishAssumption DEF FetchBody, TypeInv, CallType, Maybe
    <3>2. held[n].manifest \in Content
      BY <3>1 DEF Stored
    <3>3. Keeps(n, held[n].manifest) /\ result'[n].kind = "Answer"
      BY <1>1, <1>11, <2>2, <3>2, ReplyKeeps DEF FetchBody
    <3>4. QED
      BY <1>11, <2>2, <3>3 DEF FetchBody
  <2>3. QED
    BY <1>11, <2>1, <2>2 DEF FetchBody
<1>12. QED
  BY <1>2, <1>3, <1>4, <1>5, <1>6, <1>7, <1>8, <1>9, <1>10, <1>11 DEF Step

\* The steps that are not a node's own call going on, by what they do.
LEMMA OtherCases ==
    ASSUME TypeInv, [Next]_vars, ~ \E n \in Node : Step(n)
    PROVE  \/ Untold /\ \E n \in Node : Quiet(n)
           \/ /\ Untold
              /\ \E n \in Node, s \in Segment :
                    /\ hot[n][s] # Nothing
                    /\ result'[n] = [kind |-> "Answer", seg |-> s, content |-> hot[n][s]]
                    /\ UNCHANGED <<at, work, held, hot>>
                    /\ \A m \in Node \ {n} : result'[m] = result[m]
           \/ /\ Untold
              /\ \E n \in Node :
                    /\ OthersKept(n) /\ at'[n] = "idle"
                    /\ \A s \in Segment : hot'[n][s] = Nothing
                    /\ result'[n].kind \notin Told
           \/ Untold /\ UNCHANGED <<at, work, held, hot, result>>
           \/ Change
           \/ \E s \in Segment, c \in Content : Expire(s, c)
<1>1. CASE \E n \in Node, s \in Segment : StartPublish(n, s) \/ QueryCold(n, s)
  <2>1. PICK n \in Node, s \in Segment : StartPublish(n, s) \/ QueryCold(n, s)
    BY <1>1
  <2>2. (\E first \in {"body", "fetch"} : Call(n, s, first)) /\ UNCHANGED <<sealed, store, hot>>
    BY <2>1 DEF StartPublish, QueryCold
  <2>3. Quiet(n) /\ UNCHANGED past
    BY <2>2, CallIsQuiet DEF Call
  <2>4. QED
    BY <2>2, <2>3 DEF Untold, past
<1>2. CASE \E n \in Node, s \in Segment : QueryHot(n, s)
  <2>1. PICK n \in Node, s \in Segment : QueryHot(n, s)
    BY <1>2
  <2>2. /\ hot[n][s] # Nothing
        /\ result'[n] = [kind |-> "Answer", seg |-> s, content |-> hot[n][s]]
        /\ \A m \in Node \ {n} : result'[m] = result[m]
    BY <2>1 DEF QueryHot, TypeInv, CallType
  <2>3. QED
    BY <2>1, <2>2 DEF QueryHot, Untold, record
<1>3. CASE \E n \in Node : Restart(n)
  <2>1. PICK n \in Node : Restart(n)
    BY <1>3
  <2>2. OthersKept(n) /\ at'[n] = "idle" /\ result'[n].kind \notin Told
    BY <2>1 DEF Restart, OthersKept, NoResult, Told, TypeInv, CallType, MemoryType
  <2>3. \A s \in Segment : hot'[n][s] = Nothing
    BY <2>1 DEF Restart, TypeInv, MemoryType
  <2>4. QED
    BY <2>1, <2>2, <2>3 DEF Restart, Untold, past
<1>4. CASE UNCHANGED vars
  BY <1>4 DEF vars, node, record, Untold
<1>5. QED
  BY <1>1, <1>2, <1>3, <1>4 DEF Next

-----------------------------------------------------------------------------
(* The race for a segment, as long as nobody else changed the bucket.      *)

Unwritten(s) == envelope[s] = Nothing /\ committed[s] = {} /\ wins[s] = 0

WrittenOnce(s) ==
    \E c \in Content : envelope[s] = Envelope(s, c) /\ committed[s] = {c} /\ wins[s] <= 1

\* What was told, read or kept of a segment is what its manifest says.
SaidAsWritten(n) ==
    /\ result[n].kind \in {"Committed", "AlreadyPublished"} =>
          /\ envelope[result[n].seg] = Envelope(result[n].seg, result[n].content)
          /\ result[n].content \in Content
    /\ at[n] = "warm" => held[n] = envelope[work[n]]
    /\ \A s \in Segment : hot[n][s] # Nothing => envelope[s] = Envelope(s, hot[n][s])

RaceInv ==
    Untouched => /\ \A s \in Segment : Unwritten(s) \/ WrittenOnce(s)
                 /\ \A n \in Node : SaidAsWritten(n)

\* The manifest's key is written once: a second try changes nothing.
LEMMA EnvelopeOnce ==
    ASSUME TypeInv, NEW s \in Segment, NEW c \in Content, StoreEnvelope(s, c),
           Unwritten(s) \/ WrittenOnce(s),
           wins' \in [Segment -> Nat],
           wins'[s] = wins[s] \/ (envelope[s] = Nothing /\ wins'[s] = wins[s] + 1)
    PROVE  /\ WrittenOnce(s)'
           /\ envelope[s] = Nothing => envelope'[s] = Envelope(s, c)
           /\ envelope[s] # Nothing => envelope'[s] = envelope[s]
           /\ \A t \in Segment \ {s} : envelope'[t] = envelope[t] /\ committed'[t] = committed[t]
<1>1. CASE envelope[s] = Nothing
  <2>1. Unwritten(s)
    BY <1>1, EnvelopeType DEF WrittenOnce
  <2>2. envelope'[s] = Envelope(s, c) /\ committed'[s] = {c}
        /\ \A t \in Segment \ {s} : envelope'[t] = envelope[t] /\ committed'[t] = committed[t]
    BY <1>1, <2>1 DEF StoreEnvelope, Unwritten, TypeInv, StoreType, PastType
  <2>3. wins'[s] <= 1
    BY <2>1 DEF Unwritten
  <2>4. QED
    BY <1>1, <2>2, <2>3 DEF WrittenOnce
<1>2. CASE envelope[s] # Nothing
  BY <1>2 DEF StoreEnvelope, Unwritten, WrittenOnce
<1>3. QED
  BY <1>1, <1>2

\* The bucket's side of the race, and that a manifest stays as it was written.
LEMMA RaceWritten ==
    ASSUME TypeInv, TypeInv', RaceInv, [Next]_vars, Untouched'
    PROVE  /\ Untouched
           /\ \A s \in Segment : (Unwritten(s) \/ WrittenOnce(s))'
           /\ \A s \in Segment : envelope[s] # Nothing => envelope'[s] = envelope[s]
<1> DEFINE Goal == /\ Untouched
                   /\ \A s \in Segment : (Unwritten(s) \/ WrittenOnce(s))'
                   /\ \A s \in Segment : envelope[s] # Nothing => envelope'[s] = envelope[s]
<1>1. ASSUME UNCHANGED <<envelope, committed, wins, changes>>
      PROVE  Goal
  <2>1. Untouched
    BY <1>1 DEF Untouched
  <2>2. QED
    BY <1>1, <2>1 DEF RaceInv, Unwritten, WrittenOnce
<1>2. ASSUME NEW n \in Node, Step(n), ~ UNCHANGED <<envelope, committed, wins, changes>>
      PROVE  Goal
  <2>1. /\ at[n] = "manifest" /\ StoreEnvelope(work[n], sealed[n][work[n]])
        /\ UNCHANGED changes
        /\ \/ envelope[work[n]] = Nothing /\ wins' = [wins EXCEPT ![work[n]] = @ + 1]
           \/ UNCHANGED wins
    BY <1>2, StepCases DEF Untold, store
  <2>2. Untouched
    BY <2>1 DEF Untouched
  <2>3. PICK s \in Segment : s = work[n] /\ sealed[n][s] \in Content
    BY <2>1, WorkIsSealed
  <2>4. /\ \A t \in Segment \ {s} : wins'[t] = wins[t]
        /\ wins'[s] = wins[s] \/ (envelope[s] = Nothing /\ wins'[s] = wins[s] + 1)
        /\ wins' \in [Segment -> Nat]
    BY <2>1, <2>3 DEF TypeInv, PastType
  <2>5. /\ WrittenOnce(s)'
        /\ envelope[s] # Nothing => envelope'[s] = envelope[s]
        /\ \A t \in Segment \ {s} : envelope'[t] = envelope[t] /\ committed'[t] = committed[t]
    <3>1. Unwritten(s) \/ WrittenOnce(s)
      BY <2>2, <2>3 DEF RaceInv
    <3>2. StoreEnvelope(s, sealed[n][s])
      BY <2>1, <2>3
    <3>3. QED
      BY <2>3, <2>4, <3>1, <3>2, EnvelopeOnce
  <2>6. QED
    BY <2>2, <2>3, <2>4, <2>5 DEF RaceInv, Unwritten, WrittenOnce
<1>3. CASE ~ \E n \in Node : Step(n)
  <2>1. ~ Change
    BY PublishAssumption DEF Change, Untouched, TypeInv, PastType
  <2>2. UNCHANGED <<envelope, committed, wins, changes>>
    BY <1>3, <2>1, OtherCases DEF Untold, store, Expire, record
  <2>3. QED
    BY <1>1, <2>2
<1>4. QED
  BY <1>1, <1>2, <1>3

\* A manifest that stays keeps what was said of it true.
LEMMA SaidStays ==
    ASSUME TypeInv, NEW m \in Node, SaidAsWritten(m),
           \A s \in Segment : envelope[s] # Nothing => envelope'[s] = envelope[s],
           \/ result'[m] = result[m]
           \/ result'[m].kind \notin {"Committed", "AlreadyPublished"},
           at'[m] = "warm" => at[m] = "warm" /\ work'[m] = work[m] /\ held'[m] = held[m],
           \A s \in Segment : hot'[m][s] \in {hot[m][s], Nothing}
    PROVE  SaidAsWritten(m)'
<1>1. ASSUME NEW s \in Segment, NEW c, c \in Maybe(Content), c # Nothing,
             envelope[s] = Envelope(s, c)
      PROVE  envelope'[s] = Envelope(s, c)
  BY <1>1, EnvelopeType DEF Maybe
<1>2. ASSUME result'[m].kind \in {"Committed", "AlreadyPublished"}
      PROVE  /\ envelope'[result'[m].seg] = Envelope(result'[m].seg, result'[m].content)
             /\ result'[m].content \in Content
  <2>1. result'[m] = result[m] /\ result[m].seg \in Segment
    BY <1>2 DEF TypeInv, CallType
  <2>2. /\ envelope[result[m].seg] = Envelope(result[m].seg, result[m].content)
        /\ result[m].content \in Content
    BY <1>2, <2>1 DEF SaidAsWritten
  <2>3. Envelope(result[m].seg, result[m].content) # Nothing
    BY <2>1, <2>2, EnvelopeType
  <2>4. QED
    BY <2>1, <2>2, <2>3
<1>3. ASSUME at'[m] = "warm"
      PROVE  held'[m] = envelope'[work'[m]]
  <2>1. work[m] \in Segment /\ held[m] # Nothing /\ held[m] = envelope[work[m]]
    BY <1>3 DEF SaidAsWritten, TypeInv, CallType
  <2>2. QED
    BY <1>3, <2>1
<1>4. ASSUME NEW s \in Segment, hot'[m][s] # Nothing
      PROVE  envelope'[s] = Envelope(s, hot'[m][s])
  <2>1. hot'[m][s] = hot[m][s] /\ hot[m][s] \in Maybe(Content)
    BY <1>4 DEF TypeInv, MemoryType
  <2>2. QED
    BY <1>1, <1>4, <2>1 DEF SaidAsWritten
<1>5. QED
  BY <1>2, <1>3, <1>4 DEF SaidAsWritten

\* What he was told agrees with the manifest that is there.
LEMMA KeptIsSaid ==
    ASSUME TypeInv, NEW n \in Node, NEW c \in Content, work[n] \in Segment,
           SaidAsWritten(n), Keeps(n, c),
           envelope'[work[n]] = Envelope(work[n], c),
           \A s \in Segment : envelope[s] # Nothing => envelope'[s] = envelope[s]
    PROVE  SaidAsWritten(n)'
<1>1. ASSUME NEW s \in Segment, hot'[n][s] # Nothing
      PROVE  envelope'[s] = Envelope(s, hot'[n][s])
  <2>1. CASE s = work[n]
    BY <1>1, <2>1 DEF Keeps
  <2>2. CASE s # work[n]
    <3>1. hot'[n][s] = hot[n][s] /\ hot[n][s] \in Content
      BY <1>1, <2>2 DEF Keeps, TypeInv, MemoryType, Maybe
    <3>2. envelope[s] = Envelope(s, hot[n][s]) /\ envelope[s] # Nothing
      BY <1>1, <3>1, EnvelopeType DEF SaidAsWritten
    <3>3. QED
      BY <3>1, <3>2
  <2>3. QED
    BY <2>1, <2>2
<1>2. QED
  BY <1>1 DEF SaidAsWritten, Keeps

\* Every step keeps what the race rests on.
LEMMA NextRace == TypeInv /\ TypeInv' /\ RaceInv /\ [Next]_vars => RaceInv'
<1> SUFFICES ASSUME TypeInv, TypeInv', RaceInv, [Next]_vars, Untouched'
             PROVE  \A m \in Node : SaidAsWritten(m)'
  BY RaceWritten DEF RaceInv
<1>1. /\ Untouched
      /\ \A s \in Segment : Unwritten(s) \/ WrittenOnce(s)
      /\ \A m \in Node : SaidAsWritten(m)
      /\ \A s \in Segment : envelope[s] # Nothing => envelope'[s] = envelope[s]
  BY RaceWritten DEF RaceInv
<1>2. ASSUME NEW n \in Node, OthersKept(n)
      PROVE  \A m \in Node \ {n} : SaidAsWritten(m)'
  <2> SUFFICES ASSUME NEW m \in Node \ {n}
               PROVE  SaidAsWritten(m)'
    OBVIOUS
  <2>1. /\ at'[m] = at[m] /\ work'[m] = work[m] /\ held'[m] = held[m]
        /\ result'[m] = result[m] /\ hot'[m] = hot[m]
    BY <1>2 DEF OthersKept
  <2>2. QED
    BY <1>1, <2>1, SaidStays
<1>3. ASSUME NEW n \in Node, Quiet(n)
      PROVE  \A m \in Node : SaidAsWritten(m)'
  <2>1. SaidAsWritten(n)'
    BY <1>1, <1>3, SaidStays DEF Quiet, Told
  <2>2. QED
    BY <1>2, <1>3, <2>1 DEF Quiet
<1>4. ASSUME NEW n \in Node, NEW c \in Content, at[n] # "idle", Keeps(n, c),
             envelope'[work[n]] = Envelope(work[n], c)
      PROVE  \A m \in Node : SaidAsWritten(m)'
  <2>1. SaidAsWritten(n)'
    BY <1>1, <1>4, KeptIsSaid, WorkIsSealed
  <2>2. QED
    BY <1>2, <1>4, <2>1 DEF Keeps
<1>5. ASSUME NEW n \in Node, Step(n)
      PROVE  \A m \in Node : SaidAsWritten(m)'
  <2>1. at[n] # "idle" => work[n] \in Segment /\ sealed[n][work[n]] \in Content
    BY WorkIsSealed
  <2>2. CASE Quiet(n)
    BY <1>3, <2>2
  <2>3. CASE /\ at[n] = "readback" /\ envelope[work[n]] = Envelope(work[n], sealed[n][work[n]])
             /\ Keeps(n, sealed[n][work[n]]) /\ Untold
    BY <1>4, <2>1, <2>3 DEF Untold, store
  <2>4. CASE /\ at[n] = "fetch" /\ at'[n] = "warm" /\ work'[n] = work[n] /\ Untold
             /\ held'[n] = envelope[work[n]] /\ OthersKept(n) /\ UNCHANGED <<hot, result>>
    <3>1. SaidAsWritten(n)'
      BY <1>1, <2>4 DEF SaidAsWritten, Untold, store
    <3>2. QED
      BY <1>2, <2>4, <3>1
  <2>5. CASE /\ at[n] = "warm" /\ held[n].digest = held[n].manifest
             /\ Keeps(n, held[n].manifest) /\ Untold
    <3>1. held[n] = envelope[work[n]] /\ work[n] \in Segment /\ held[n] # Nothing
      BY <1>1, <2>1, <2>5 DEF SaidAsWritten, TypeInv, CallType
    <3>2. PICK c \in Content : envelope[work[n]] = Envelope(work[n], c)
      BY <1>1, <3>1 DEF Unwritten, WrittenOnce
    <3>3. held[n].manifest = c
      BY <3>1, <3>2, EnvelopeType
    <3>4. QED
      BY <1>4, <2>5, <3>2, <3>3 DEF Untold, store
  <2>6. CASE /\ at[n] = "manifest" /\ envelope[work[n]] = Nothing
             /\ StoreEnvelope(work[n], sealed[n][work[n]])
             /\ Keeps(n, sealed[n][work[n]])
    <3>1. envelope'[work[n]] = Envelope(work[n], sealed[n][work[n]])
      BY <2>1, <2>6 DEF StoreEnvelope, TypeInv, StoreType
    <3>2. QED
      BY <1>4, <2>1, <2>6, <3>1
  <2>7. QED
    BY <1>5, <2>2, <2>3, <2>4, <2>5, <2>6, StepCases
<1>6. CASE ~ \E n \in Node : Step(n)
  <2>1. CASE \E n \in Node : Quiet(n)
    BY <1>3, <2>1
  <2>2. ASSUME NEW n \in Node, NEW s \in Segment,
               result'[n] = [kind |-> "Answer", seg |-> s, content |-> hot[n][s]],
               UNCHANGED <<at, work, held, hot>>,
               \A m \in Node \ {n} : result'[m] = result[m]
        PROVE  \A m \in Node : SaidAsWritten(m)'
    <3>1. OthersKept(n)
      BY <2>2 DEF OthersKept
    <3>2. SaidAsWritten(n)'
      BY <1>1, <2>2, SaidStays
    <3>3. QED
      BY <1>2, <3>1, <3>2
  <2>3. ASSUME NEW n \in Node, OthersKept(n), at'[n] = "idle",
               \A s \in Segment : hot'[n][s] = Nothing, result'[n].kind \notin Told
        PROVE  \A m \in Node : SaidAsWritten(m)'
    <3>1. SaidAsWritten(n)'
      BY <1>1, <2>3, SaidStays DEF Told
    <3>2. QED
      BY <1>2, <2>3, <3>1
  <2>4. CASE UNCHANGED <<at, work, held, hot, result>>
    BY <1>1, <2>4, SaidStays
  <2>5. ~ Change
    BY PublishAssumption DEF Change, Untouched, TypeInv, PastType
  <2>6. CASE \E s \in Segment, c \in Content : Expire(s, c)
    BY <2>4, <2>6 DEF Expire, node
  <2>7. QED
    BY <1>6, <2>1, <2>2, <2>3, <2>4, <2>5, <2>6, OtherCases
<1>7. QED
  BY <1>5, <1>6

\* Nobody has published anything at first.
LEMMA InitRace == Init => RaceInv
BY DEF Init, RaceInv, Unwritten, SaidAsWritten, NoResult

\* publish: of the rivals for one segment at most one is told Committed and one
\* manifest at most is written, and whoever is told that the segment is published
\* finds his own manifest there, retries and lost answers included.
THEOREM RivalsAgree == Spec => []OneRivalWins
<1>1. TypeInv /\ RaceInv => OneRivalWins
  <2> SUFFICES ASSUME TypeInv, RaceInv, Untouched
               PROVE  /\ \A s \in Segment : wins[s] <= 1 /\ Cardinality(committed[s]) <= 1
                      /\ \A n \in Node : result[n].kind \in {"Committed", "AlreadyPublished"} =>
                            envelope[result[n].seg] = Envelope(result[n].seg, result[n].content)
    BY DEF OneRivalWins, CommittedOnce, SuccessIsOurs
  <2>1. ASSUME NEW s \in Segment
        PROVE  wins[s] <= 1 /\ Cardinality(committed[s]) <= 1
    <3>1. CASE Unwritten(s)
      BY <3>1, FS_EmptySet DEF Unwritten
    <3>2. CASE WrittenOnce(s)
      <4>1. PICK c \in Content : committed[s] = {c} /\ wins[s] <= 1
        BY <3>2 DEF WrittenOnce
      <4>2. Cardinality({c}) = 1
        BY FS_Singleton
      <4>3. QED
        BY <4>1, <4>2
    <3>3. QED
      BY <3>1, <3>2 DEF RaceInv
  <2>2. QED
    BY <2>1 DEF RaceInv, SaidAsWritten
<1>2. Init => TypeInv /\ RaceInv
  BY InitType, InitRace
<1>3. TypeInv /\ RaceInv /\ [Next]_vars => (TypeInv /\ RaceInv)'
  BY NextType, NextRace
<1>4. QED
  BY <1>1, <1>2, <1>3, PTL DEF Spec

-----------------------------------------------------------------------------
(* Body first: as long as nobody removes or changes an object, a manifest  *)
(* has its body.                                                           *)

BodyInv ==
    Untouched =>
        /\ \A s \in Segment, c \in Content :
              /\ body[s][c] \in {c, Nothing}
              /\ envelope[s] = Envelope(s, c) => body[s][c] = c
        /\ \A n \in Node : at[n] = "manifest" =>
              body[work[n]][sealed[n][work[n]]] = sealed[n][work[n]]

\* A body is stored under the key of its own value, and no other body changes.
LEMMA StoredBody ==
    ASSUME TypeInv, NEW s \in Segment, NEW c \in Content, StoreBody(s, c),
           \A t \in Segment, d \in Content : body[t][d] \in {d, Nothing}
    PROVE  /\ body'[s][c] = c
           /\ \A t \in Segment, d \in Content :
                 body'[t][d] = body[t][d] \/ body'[t][d] = d
BY PublishAssumption DEF StoreBody, TypeInv, StoreType

\* What is stored of a body stays, and no step of a node stores anything else.
LEMMA BodyStays ==
    ASSUME TypeInv, Expiry = FALSE, [Next]_vars, Untouched',
           \A s \in Segment, c \in Content : body[s][c] \in {c, Nothing}
    PROVE  \A s \in Segment, c \in Content :
              body'[s][c] = body[s][c] \/ body'[s][c] = c
<1>1. CASE UNCHANGED body
  BY <1>1
<1>2. ASSUME NEW n \in Node, Step(n), ~ UNCHANGED body
      PROVE  \A s \in Segment, c \in Content :
                body'[s][c] = body[s][c] \/ body'[s][c] = c
  <2>1. at[n] = "body" /\ StoreBody(work[n], sealed[n][work[n]])
    BY <1>2, StepCases DEF Untold, store
  <2>2. QED
    BY <2>1, WorkIsSealed, StoredBody
<1>3. CASE ~ \E n \in Node : Step(n)
  <2>1. ~ Change
    BY PublishAssumption DEF Change, Untouched, TypeInv, PastType
  <2>2. UNCHANGED body
    BY <1>3, <2>1, OtherCases DEF Untold, store, Expire
  <2>3. QED
    BY <2>2
<1>4. QED
  BY <1>1, <1>2, <1>3

\* A node about to write its manifest has its body stored.
LEMMA ManifestLast ==
    ASSUME TypeInv, TypeInv', BodyInv, Expiry = FALSE, [Next]_vars, Untouched, Untouched',
           NEW m \in Node, at'[m] = "manifest"
    PROVE  body'[work'[m]][sealed'[m][work'[m]]] = sealed'[m][work'[m]]
<1>1. /\ \A s \in Segment, c \in Content : body[s][c] \in {c, Nothing}
      /\ \A s \in Segment, c \in Content : body'[s][c] = body[s][c] \/ body'[s][c] = c
  BY BodyStays DEF BodyInv
<1>2. UNCHANGED sealed
  BY DEF Next, Step, vars, StartPublish, QueryHot, QueryCold, Restart, Change, Expire, PutBody,
         PutBodyLost, PutManifest, PutManifestLost, ReadBack, Unreachable, Unsupported,
         FetchEnvelope, FetchBody, FetchFails
<1>3. ASSUME at[m] = "manifest", work'[m] = work[m]
      PROVE  body'[work'[m]][sealed'[m][work'[m]]] = sealed'[m][work'[m]]
  <2>1. work[m] \in Segment /\ sealed[m][work[m]] \in Content
    BY <1>3, WorkIsSealed
  <2>2. QED
    BY <1>1, <1>2, <1>3, <2>1 DEF BodyInv
<1>4. ASSUME Quiet(m)
      PROVE  body'[work'[m]][sealed'[m][work'[m]]] = sealed'[m][work'[m]]
  <2>1. work'[m] = work[m]
        /\ (at[m] = "manifest" \/ StoreBody(work[m], sealed[m][work[m]]))
    BY <1>4 DEF Quiet
  <2>2. CASE StoreBody(work[m], sealed[m][work[m]])
    <3>1. work'[m] \in Segment /\ sealed'[m][work'[m]] \in Content
      BY WorkIsSealed DEF TypeInv, CallType, StoreType
    <3>2. body'[work[m]][sealed[m][work[m]]] = sealed[m][work[m]]
      BY <1>1, <1>2, <2>1, <2>2, <3>1, StoredBody
    <3>3. QED
      BY <1>2, <2>1, <3>2
  <2>3. QED
    BY <1>3, <2>1, <2>2
<1>5. ASSUME NEW n \in Node, OthersKept(n)
      PROVE  m # n => at[m] = "manifest" /\ work'[m] = work[m]
  BY <1>5 DEF OthersKept
<1>6. ASSUME NEW n \in Node, Quiet(n)
      PROVE  body'[work'[m]][sealed'[m][work'[m]]] = sealed'[m][work'[m]]
  BY <1>3, <1>4, <1>5, <1>6 DEF Quiet
<1>7. ASSUME NEW n \in Node, OthersKept(n), at'[n] # "manifest"
      PROVE  body'[work'[m]][sealed'[m][work'[m]]] = sealed'[m][work'[m]]
  BY <1>3, <1>5, <1>7
<1>8. CASE \E n \in Node : Step(n)
  <2>1. PICK n \in Node : Step(n)
    BY <1>8
  <2>2. Quiet(n) \/ (OthersKept(n) /\ at'[n] # "manifest")
    BY <2>1, StepCases DEF Keeps
  <2>3. QED
    BY <1>6, <1>7, <2>2
<1>9. CASE ~ \E n \in Node : Step(n)
  <2>1. ~ Change
    BY PublishAssumption DEF Change, Untouched, TypeInv, PastType
  <2>2. \/ \E n \in Node : Quiet(n) \/ (OthersKept(n) /\ at'[n] # "manifest")
        \/ UNCHANGED <<at, work>>
    BY <1>9, <2>1, OtherCases DEF Expire, node
  <2>3. QED
    BY <1>3, <1>6, <1>7, <2>2
<1>10. QED
  BY <1>8, <1>9

\* A manifest that was not there is written by a node whose body is.
LEMMA NextBody ==
    ASSUME TypeInv, TypeInv', RaceInv, BodyInv, Expiry = FALSE, [Next]_vars
    PROVE  BodyInv'
<1> SUFFICES ASSUME Untouched'
             PROVE  /\ \A s \in Segment, c \in Content :
                          /\ body'[s][c] \in {c, Nothing}
                          /\ envelope'[s] = Envelope(s, c) => body'[s][c] = c
                    /\ \A n \in Node : at'[n] = "manifest" =>
                          body'[work'[n]][sealed'[n][work'[n]]] = sealed'[n][work'[n]]
  BY DEF BodyInv, Envelope
<1>1. /\ Untouched
      /\ \A s \in Segment : Unwritten(s) \/ WrittenOnce(s)
      /\ \A s \in Segment : envelope[s] # Nothing => envelope'[s] = envelope[s]
  BY RaceWritten DEF RaceInv
<1>2. /\ \A s \in Segment, c \in Content : body[s][c] \in {c, Nothing}
      /\ \A s \in Segment, c \in Content : body'[s][c] = body[s][c] \/ body'[s][c] = c
  BY <1>1, BodyStays DEF BodyInv
<1>3. ASSUME NEW s \in Segment, NEW c \in Content, envelope'[s] = Envelope(s, c)
      PROVE  body[s][c] = c
  <2>1. CASE envelope[s] # Nothing
    BY <1>1, <1>3, <2>1 DEF BodyInv
  <2>2. CASE envelope[s] = Nothing
    <3>1. envelope'[s] # envelope[s]
      BY <1>3, <2>2, EnvelopeType
    <3>2. ~ Change
      BY PublishAssumption DEF Change, Untouched, TypeInv, PastType
    <3>3. PICK n \in Node : Step(n)
      BY <3>1, <3>2, OtherCases DEF Untold, store, Expire
    <3>4. at[n] = "manifest" /\ StoreEnvelope(work[n], sealed[n][work[n]])
      BY <3>1, <3>3, StepCases DEF Untold, store
    <3>5. work[n] \in Segment /\ sealed[n][work[n]] \in Content
      BY <3>4, WorkIsSealed
    <3>6. s = work[n] /\ envelope'[s] = Envelope(s, sealed[n][work[n]])
      BY <3>1, <3>4, <3>5 DEF StoreEnvelope, TypeInv, StoreType
    <3>7. c = sealed[n][work[n]]
      BY <1>3, <3>5, <3>6, EnvelopeType
    <3>8. QED
      BY <1>1, <3>4, <3>6, <3>7 DEF BodyInv
  <2>3. QED
    BY <2>1, <2>2
<1>4. \A s \in Segment, c \in Content :
         /\ body'[s][c] \in {c, Nothing}
         /\ envelope'[s] = Envelope(s, c) => body'[s][c] = c
  BY <1>2, <1>3
<1>5. \A n \in Node : at'[n] = "manifest" =>
         body'[work'[n]][sealed'[n][work'[n]]] = sealed'[n][work'[n]]
  BY <1>1, ManifestLast
<1>6. QED
  BY <1>4, <1>5

\* An empty bucket has no manifest without its body.
LEMMA InitBody == Init => BodyInv
<1> SUFFICES ASSUME Init PROVE BodyInv
  OBVIOUS
<1>1. \A s \in Segment, c \in Content : body[s][c] = Nothing /\ envelope[s] # Envelope(s, c)
  BY EnvelopeType DEF Init
<1>2. \A n \in Node : at[n] = "idle"
  BY DEF Init
<1>3. QED
  BY <1>1, <1>2 DEF BodyInv

\* Body first, manifest last: where no lifecycle rule removes bodies, whatever calls
\* fail, lose their answer or are cut off by a restart, a published segment has the
\* body its manifest names and what a node holds in memory can be fetched again.
THEOREM BodyBeforeManifest ==
    ASSUME Expiry = FALSE
    PROVE  Spec => []PublishedIsReadable
<1>1. TypeInv /\ RaceInv /\ BodyInv => PublishedIsReadable
  <2> SUFFICES ASSUME TypeInv, RaceInv, BodyInv
               PROVE  PublishedIsReadable
    OBVIOUS
  <2>1. PublishTypeOK
    BY DEF TypeInv, PublishTypeOK, StoreType, CallType, MemoryType, PastType, CallStates, Stored
  <2>2. ASSUME Untouched, NEW s \in Segment, envelope[s] # Nothing
        PROVE  body[s][envelope[s].digest] = envelope[s].manifest
    <3>1. PICK c \in Content : envelope[s] = Envelope(s, c)
      BY <2>2 DEF RaceInv, Unwritten, WrittenOnce
    <3>2. QED
      BY <2>2, <3>1, EnvelopeType DEF BodyInv
  <2>3. ASSUME Untouched, NEW n \in Node, NEW s \in Held(hot[n])
        PROVE  envelope[s] = Envelope(s, hot[n][s]) /\ body[s][hot[n][s]] = hot[n][s]
    <3>1. s \in Segment /\ hot[n][s] # Nothing /\ hot[n][s] \in Content
      BY DEF Held, TypeInv, MemoryType, Maybe
    <3>2. QED
      BY <2>3, <3>1 DEF RaceInv, SaidAsWritten, BodyInv
  <2>4. QED
    BY <2>1, <2>2, <2>3 DEF PublishedIsReadable, ManifestHasBody, HotIsRecoverable
<1>2. Init => TypeInv /\ RaceInv /\ BodyInv
  BY InitType, InitRace, InitBody
<1>3. TypeInv /\ RaceInv /\ BodyInv /\ [Next]_vars => (TypeInv /\ RaceInv /\ BodyInv)'
  BY NextType, NextRace, NextBody
<1>4. QED
  BY <1>1, <1>2, <1>3, PTL DEF Spec

-----------------------------------------------------------------------------
(* What is answered, whatever somebody changes or removes in the bucket.   *)

\* A manifest in the bucket, wherever it was moved and whatever digest was put
\* in front of it, was written for the segment it names.
Genuine(s) == envelope[s] # Nothing => envelope[s].manifest \in committed[envelope[s].seg]

\* What a node has read, holds or answered was committed for that segment.
Truthful(n) ==
    /\ at[n] = "warm" => held[n].manifest \in committed[work[n]]
    /\ \A s \in Segment : hot[n][s] # Nothing => hot[n][s] \in committed[s]
    /\ result[n].kind = "Answer" => result[n].content \in committed[result[n].seg]

TruthInv == (\A s \in Segment : Genuine(s)) /\ (\A n \in Node : Truthful(n))

\* What was committed stays so.
LEMMA CommittedGrows ==
    ASSUME TypeInv, [Next]_vars, NEW s \in Segment
    PROVE  committed[s] \subseteq committed'[s]
<1>1. ASSUME NEW n \in Node, Step(n), ~ UNCHANGED committed
      PROVE  committed[s] \subseteq committed'[s]
  <2>1. at[n] = "manifest" /\ StoreEnvelope(work[n], sealed[n][work[n]])
    BY <1>1, StepCases DEF Untold
  <2>2. work[n] \in Segment
    BY <2>1, WorkIsSealed
  <2>3. QED
    BY <2>1, <2>2 DEF StoreEnvelope, TypeInv, PastType
<1>2. CASE ~ \E n \in Node : Step(n)
  BY <1>2, OtherCases DEF Untold, Change, Expire, record
<1>3. QED
  BY <1>1, <1>2

\* Every step leaves genuine manifests only: a node writes its own, and whoever
\* changes the bucket cannot make one up.
LEMMA ManifestsGenuine ==
    ASSUME TypeInv, \A s \in Segment : Genuine(s), [Next]_vars
    PROVE  \A s \in Segment : Genuine(s)'
<1>1. CASE UNCHANGED <<envelope, committed>>
  BY <1>1 DEF Genuine
<1>2. ASSUME NEW n \in Node, Step(n), ~ UNCHANGED <<envelope, committed>>
      PROVE  \A s \in Segment : Genuine(s)'
  <2>1. at[n] = "manifest" /\ StoreEnvelope(work[n], sealed[n][work[n]])
    BY <1>2, StepCases DEF Untold, store
  <2>2. PICK w \in Segment : w = work[n] /\ sealed[n][w] \in Content
    BY <2>1, WorkIsSealed
  <2>3. /\ envelope' = [envelope EXCEPT ![w] = Envelope(w, sealed[n][w])]
        /\ committed' = [committed EXCEPT ![w] = @ \cup {sealed[n][w]}]
    BY <1>2, <2>1, <2>2 DEF StoreEnvelope
  <2>4. ASSUME NEW s \in Segment, envelope'[s] # Nothing
        PROVE  envelope'[s].manifest \in committed'[envelope'[s].seg]
    <3>1. CASE s = w
      <4>1. envelope'[s] = Envelope(w, sealed[n][w])
        BY <2>3, <3>1 DEF TypeInv, StoreType
      <4>2. envelope'[s].seg = w /\ envelope'[s].manifest = sealed[n][w]
        BY <2>2, <4>1, EnvelopeType
      <4>3. sealed[n][w] \in committed'[w]
        BY <2>3 DEF TypeInv, PastType
      <4>4. QED
        BY <4>2, <4>3
    <3>2. CASE s # w
      <4>1. envelope'[s] = envelope[s] /\ envelope[s] # Nothing
        BY <2>3, <2>4, <3>2 DEF TypeInv, StoreType
      <4>2. envelope[s].seg \in Segment
        BY <4>1 DEF TypeInv, StoreType, Maybe, Stored
      <4>3. QED
        BY <4>1, <4>2, CommittedGrows DEF Genuine
    <3>3. QED
      BY <3>1, <3>2
  <2>5. QED
    BY <2>4 DEF Genuine
<1>3. CASE Change
  <2>0. UNCHANGED committed
    BY <1>3 DEF Change
  <2>1. CASE UNCHANGED envelope
    BY <1>1, <2>0, <2>1
  <2>2. CASE \E s \in Segment : envelope' = [envelope EXCEPT ![s] = Nothing]
    BY <2>0, <2>2 DEF Genuine, TypeInv, StoreType
  <2>3. CASE \E s, t \in Segment : /\ envelope[s] # Nothing
                                   /\ envelope' = [envelope EXCEPT ![t] = envelope[s]]
    BY <2>0, <2>3 DEF Genuine, TypeInv, StoreType
  <2>4. CASE \E s \in Segment, d \in Content :
                /\ envelope[s] # Nothing
                /\ envelope' = [envelope EXCEPT ![s].digest = d]
    <3>1. PICK s \in Segment, d \in Content :
             /\ envelope[s] # Nothing
             /\ envelope' = [envelope EXCEPT ![s].digest = d]
      BY <2>4
    <3>2. envelope[s] \in Stored
      BY <3>1 DEF TypeInv, StoreType, Maybe
    <3>3. /\ envelope'[s].seg = envelope[s].seg
          /\ envelope'[s].manifest = envelope[s].manifest
          /\ \A t \in Segment \ {s} : envelope'[t] = envelope[t]
      BY <3>1, <3>2 DEF TypeInv, StoreType, Stored
    <3>4. QED
      BY <2>0, <3>1, <3>3 DEF Genuine
  <2>5. QED
    BY <1>3, <2>1, <2>2, <2>3, <2>4 DEF Change
<1>4. CASE ~ (\E n \in Node : Step(n)) /\ ~ Change
  BY <1>1, <1>4, OtherCases DEF Untold, store, Expire, record
<1>5. QED
  BY <1>1, <1>2, <1>3, <1>4

\* A node that reads, keeps or answers nothing new stays truthful.
LEMMA TruthStays ==
    ASSUME TypeInv, NEW m \in Node, Truthful(m),
           \A s \in Segment : committed[s] \subseteq committed'[s],
           result'[m] = result[m] \/ result'[m].kind # "Answer",
           at'[m] = "warm" => at[m] = "warm" /\ work'[m] = work[m] /\ held'[m] = held[m],
           \A s \in Segment : hot'[m][s] \in {hot[m][s], Nothing}
    PROVE  Truthful(m)'
<1>1. ASSUME result'[m].kind = "Answer"
      PROVE  result'[m].content \in committed'[result'[m].seg]
  <2>1. result'[m] = result[m] /\ result[m].seg \in Segment
    BY <1>1 DEF TypeInv, CallType
  <2>2. QED
    BY <1>1, <2>1 DEF Truthful
<1>2. ASSUME at'[m] = "warm"
      PROVE  held'[m].manifest \in committed'[work'[m]]
  <2>1. work[m] \in Segment
    BY <1>2 DEF TypeInv, CallType
  <2>2. QED
    BY <1>2, <2>1 DEF Truthful
<1>3. \A s \in Segment : hot'[m][s] # Nothing => hot'[m][s] \in committed'[s]
  BY DEF Truthful
<1>4. QED
  BY <1>1, <1>2, <1>3 DEF Truthful

\* One that keeps and answers what is committed for its segment does too.
LEMMA KeptIsTrue ==
    ASSUME NEW n \in Node, NEW c, Truthful(n), Keeps(n, c), c \in committed'[work[n]],
           \A s \in Segment : committed[s] \subseteq committed'[s]
    PROVE  Truthful(n)'
BY DEF Truthful, Keeps

\* Every step keeps answers among what was committed, whatever is changed in the bucket.
LEMMA NextTruth == TypeInv /\ TypeInv' /\ TruthInv /\ [Next]_vars => TruthInv'
<1> SUFFICES ASSUME TypeInv, TypeInv', TruthInv, [Next]_vars
             PROVE  \A m \in Node : Truthful(m)'
  BY ManifestsGenuine DEF TruthInv
<1>1. /\ \A s \in Segment : committed[s] \subseteq committed'[s]
      /\ \A m \in Node : Truthful(m)
      /\ \A s \in Segment : Genuine(s)
  BY CommittedGrows DEF TruthInv
<1>2. ASSUME NEW n \in Node, OthersKept(n), Truthful(n)'
      PROVE  \A m \in Node : Truthful(m)'
  <2> SUFFICES ASSUME NEW m \in Node \ {n}
               PROVE  Truthful(m)'
    BY <1>2
  <2>1. /\ at'[m] = at[m] /\ work'[m] = work[m] /\ held'[m] = held[m]
        /\ result'[m] = result[m] /\ hot'[m] = hot[m]
    BY <1>2 DEF OthersKept
  <2>2. QED
    BY <1>1, <2>1, TruthStays
<1>3. ASSUME NEW n \in Node, Quiet(n)
      PROVE  \A m \in Node : Truthful(m)'
  <2>1. Truthful(n)'
    BY <1>1, <1>3, TruthStays DEF Quiet, Told
  <2>2. QED
    BY <1>2, <1>3, <2>1 DEF Quiet
<1>4. ASSUME NEW n \in Node, NEW c, Keeps(n, c), c \in committed'[work[n]]
      PROVE  \A m \in Node : Truthful(m)'
  <2>1. Truthful(n)'
    BY <1>1, <1>4, KeptIsTrue
  <2>2. QED
    BY <1>2, <1>4, <2>1 DEF Keeps
<1>5. ASSUME NEW n \in Node, Step(n)
      PROVE  \A m \in Node : Truthful(m)'
  <2>1. at[n] # "idle" => work[n] \in Segment /\ sealed[n][work[n]] \in Content
    BY WorkIsSealed
  <2>2. CASE Quiet(n)
    BY <1>3, <2>2
  <2>3. CASE /\ at[n] = "readback" /\ envelope[work[n]] = Envelope(work[n], sealed[n][work[n]])
             /\ Keeps(n, sealed[n][work[n]]) /\ Untold
    <3>1. sealed[n][work[n]] \in committed[work[n]]
      BY <1>1, <2>1, <2>3, EnvelopeType DEF Genuine
    <3>2. QED
      BY <1>4, <2>3, <3>1 DEF Untold
  <2>4. CASE /\ at[n] = "fetch" /\ at'[n] = "warm" /\ work'[n] = work[n] /\ Untold
             /\ envelope[work[n]] # Nothing /\ envelope[work[n]].seg = work[n]
             /\ held'[n] = envelope[work[n]] /\ OthersKept(n) /\ UNCHANGED <<hot, result>>
    <3>1. Truthful(n)'
      BY <1>1, <2>1, <2>4 DEF Truthful, Genuine, Untold
    <3>2. QED
      BY <1>2, <2>4, <3>1
  <2>5. CASE /\ at[n] = "warm" /\ held[n].digest = held[n].manifest
             /\ Keeps(n, held[n].manifest) /\ Untold
    BY <1>1, <1>4, <2>5 DEF Truthful, Untold
  <2>6. CASE /\ at[n] = "manifest" /\ envelope[work[n]] = Nothing
             /\ StoreEnvelope(work[n], sealed[n][work[n]])
             /\ Keeps(n, sealed[n][work[n]])
    <3>1. sealed[n][work[n]] \in committed'[work[n]]
      BY <2>1, <2>6 DEF StoreEnvelope, TypeInv, PastType
    <3>2. QED
      BY <1>4, <2>6, <3>1
  <2>7. QED
    BY <1>5, <2>2, <2>3, <2>4, <2>5, <2>6, StepCases
<1>6. CASE ~ \E n \in Node : Step(n)
  <2>1. CASE \E n \in Node : Quiet(n)
    BY <1>3, <2>1
  <2>2. ASSUME NEW n \in Node, NEW s \in Segment, Untold, hot[n][s] # Nothing,
               result'[n] = [kind |-> "Answer", seg |-> s, content |-> hot[n][s]],
               UNCHANGED <<at, work, held, hot>>,
               \A m \in Node \ {n} : result'[m] = result[m]
        PROVE  \A m \in Node : Truthful(m)'
    <3>1. OthersKept(n)
      BY <2>2 DEF OthersKept
    <3>2. Truthful(n)'
      BY <1>1, <2>2 DEF Truthful, Untold
    <3>3. QED
      BY <1>2, <3>1, <3>2
  <2>3. ASSUME NEW n \in Node, OthersKept(n), at'[n] = "idle",
               \A s \in Segment : hot'[n][s] = Nothing, result'[n].kind \notin Told
        PROVE  \A m \in Node : Truthful(m)'
    <3>1. Truthful(n)'
      BY <1>1, <2>3, TruthStays DEF Told
    <3>2. QED
      BY <1>2, <2>3, <3>1
  <2>4. CASE UNCHANGED <<at, work, held, hot, result>>
    BY <1>1, <2>4, TruthStays
  <2>5. CASE Change \/ \E s \in Segment, c \in Content : Expire(s, c)
    BY <2>4, <2>5 DEF Change, Expire, node
  <2>6. QED
    BY <1>6, <2>1, <2>2, <2>3, <2>4, <2>5, OtherCases
<1>7. QED
  BY <1>5, <1>6

\* Whatever somebody changes, moves or removes in the bucket, and however reads race
\* with it, a query is only ever answered with what a manifest was written for under
\* that segment's number.
THEOREM AnswersAreTrue == Spec => []AnswersAreCommitted
<1>1. TruthInv => AnswersAreCommitted
  BY DEF TruthInv, Truthful, AnswersAreCommitted
<1>2. Init => TypeInv /\ TruthInv
  <2>1. Init => TruthInv
    BY DEF Init, TruthInv, Genuine, Truthful, NoResult
  <2>2. QED
    BY <2>1, InitType
<1>3. TypeInv /\ TruthInv /\ [Next]_vars => (TypeInv /\ TruthInv)'
  BY NextType, NextTruth
<1>4. QED
  BY <1>1, <1>2, <1>3, PTL DEF Spec
=============================================================================
