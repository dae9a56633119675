------------------------------ MODULE Publish ------------------------------
(***************************************************************************)
(* Cold storage: crates/trailryx-publish and the cold and tier modules of  *)
(* crates/trailryx-store.  Nodes publish the segments they sealed into one *)
(* object store, body first and manifest last, keep the newest in memory   *)
(* and fetch the others back.  Calls fail, answers to performed writes are *)
(* lost, nodes restart, and somebody changes or expires stored objects.    *)
(*                                                                         *)
(* Data abstraction.  A segment's records are one value, and digests and   *)
(* manifests are injective: a body's key names the value it should hold    *)
(* and a manifest is the value it was sealed from.                         *)
(***************************************************************************)
EXTENDS Integers, FiniteSets, TLC

CONSTANTS
    Node,       \* processes with a Tier over the same object store
    Content,    \* what the records of a segment can be
    Nothing,    \* no object under a key, nothing in memory
    MaxSegment, \* bound: segments of the shard
    Attempts,   \* tries one call of publish may make at each step
    KeepHot,    \* Policy.keep_hot
    MaxChanges, \* bound: objects changed by somebody other than a publisher
    Expiry      \* whether a lifecycle rule removes bodies without a manifest

Segment == 1..MaxSegment

ASSUME PublishAssumption ==
    /\ Nothing \notin Content
    /\ Nothing \notin [seg : Segment, digest : Content, manifest : Content]
    /\ MaxSegment \in Nat
    /\ Attempts \in Nat \ {0}
    /\ KeepHot \in Nat
    /\ MaxChanges \in Nat
    /\ Expiry \in BOOLEAN

VARIABLES
    sealed,     \* node -> segment -> the records it sealed there
    body,       \* segment -> value its key names -> the bytes stored there
    envelope,   \* segment -> the object under its manifest key
    at,         \* node -> the call to the store it is about to make
    work,       \* node -> the segment that call is about
    left,       \* node -> tries left in this step
    held,       \* node -> the envelope a fetch has read
    hot,        \* Tier.hot: node -> segment -> records in memory
    result,     \* node -> the last answer to its caller
    committed,  \* history: segment -> what a manifest was ever written for
    wins,       \* history: segment -> answers Committed
    wrote,      \* history: nodes whose call wrote a manifest, not knowing it
    changes     \* history: changes by somebody else

store == <<body, envelope>>
node == <<at, work, left, held, hot, result>>
record == <<committed, wins, wrote, changes>>
past == <<committed, wins, changes>>
vars == <<sealed, store, node, record>>

\* Nodes are interchangeable, and so are the values records can have.
Symmetry == Permutations(Node) \cup Permutations(Content)

(***************************************************************************)
(* Objects.                                                                *)
(***************************************************************************)

\* encode_envelope: the digest of the body, and the manifest.
Envelope(s, c) == [seg |-> s, digest |-> c, manifest |-> c]

\* put_if_absent on the body's key, which carries the digest.
StoreBody(s, c) ==
    body' = IF body[s][c] = Nothing THEN [body EXCEPT ![s][c] = c] ELSE body

\* Mutant: the manifest's key is simply written.
StoreEnvelopeAnyway(s, c) ==
    /\ envelope' = [envelope EXCEPT ![s] = Envelope(s, c)]
    /\ committed' = [committed EXCEPT ![s] = @ \cup {c}]

\* put_if_absent on the manifest's key, which two nodes race for.
StoreEnvelope(s, c) ==
    IF envelope[s] = Nothing
    THEN /\ envelope' = [envelope EXCEPT ![s] = Envelope(s, c)]
         /\ committed' = [committed EXCEPT ![s] = @ \cup {c}]
    ELSE UNCHANGED <<envelope, committed>>

(***************************************************************************)
(* Memory.                                                                 *)
(***************************************************************************)
Held(h) == {s \in Segment : h[s] # Nothing}

\* Mutant: one more than the policy says stays.
NotEvicted(h) ==
    [s \in Segment |->
        IF Cardinality({t \in Held(h) : t > s}) <= KeepHot THEN h[s]
        ELSE Nothing]

\* evict: only the KeepHot newest stay.
Evicted(h) ==
    [s \in Segment |->
        IF Cardinality({t \in Held(h) : t > s}) < KeepHot THEN h[s]
        ELSE Nothing]

Keep(n, s, c) ==
    hot' = [hot EXCEPT ![n] = Evicted([hot[n] EXCEPT ![s] = c])]

(***************************************************************************)
(* How a call starts and ends.                                             *)
(***************************************************************************)
NoResult == [kind |-> "none", seg |-> 0, content |-> Nothing]

Call(n, s, first) ==
    /\ at[n] = "idle"
    /\ at' = [at EXCEPT ![n] = first]
    /\ work' = [work EXCEPT ![n] = s]
    /\ left' = [left EXCEPT ![n] = Attempts]
    /\ result' = [result EXCEPT ![n] = NoResult]
    /\ wrote' = wrote \ {n}
    /\ UNCHANGED <<held, past>>

Reply(n, kind, c) ==
    /\ at' = [at EXCEPT ![n] = "idle"]
    /\ work' = [work EXCEPT ![n] = 0]
    /\ left' = [left EXCEPT ![n] = 0]
    /\ held' = [held EXCEPT ![n] = Nothing]
    /\ result' = [result EXCEPT ![n] = [kind |-> kind, seg |-> work[n],
                                        content |-> c]]

Fail(n, kind) == Reply(n, kind, Nothing) /\ UNCHANGED hot

\* The next step of publish, with tries of its own.
Proceed(n, next) ==
    /\ at' = [at EXCEPT ![n] = next]
    /\ left' = [left EXCEPT ![n] = Attempts]
    /\ UNCHANGED <<work, held, hot, result>>

\* Mutant: the budget is never used up.
RetryForever(n) == UNCHANGED node

\* retrying: one try failed.
Retry(n) ==
    \/ /\ left[n] > 1
       /\ left' = [left EXCEPT ![n] = @ - 1]
       /\ UNCHANGED <<at, work, held, hot, result>>
    \/ /\ left[n] <= 1
       /\ Fail(n, "Unavailable")

(***************************************************************************)
(* Init: nothing is published.  Nodes may have sealed different records.   *)
(***************************************************************************)
Init ==
    /\ sealed \in [Node -> [Segment -> Content]]
    /\ body = [s \in Segment |-> [c \in Content |-> Nothing]]
    /\ envelope = [s \in Segment |-> Nothing]
    /\ at = [n \in Node |-> "idle"]
    /\ work = [n \in Node |-> 0]
    /\ left = [n \in Node |-> 0]
    /\ held = [n \in Node |-> Nothing]
    /\ hot = [n \in Node |-> [s \in Segment |-> Nothing]]
    /\ result = [n \in Node |-> NoResult]
    /\ committed = [s \in Segment |-> {}]
    /\ wins = [s \in Segment |-> 0]
    /\ wrote = {}
    /\ changes = 0

(***************************************************************************)
(* Tier::publish, cold::publish_segment and publish.                       *)
(***************************************************************************)

\* Mutant: the manifest is written first.
StartPublishManifest(n, s) ==
    /\ Call(n, s, "manifest")
    /\ UNCHANGED <<sealed, store, hot>>

\* Mutant: the segment is kept in memory before the store has it.
StartPublishKept(n, s) ==
    /\ Call(n, s, "body")
    /\ Keep(n, s, sealed[n][s])
    /\ UNCHANGED <<sealed, store>>

StartPublish(n, s) ==
    /\ Call(n, s, "body")
    /\ UNCHANGED <<sealed, store, hot>>

\* The body is there, written now or before: its key names its content.
PutBody(n) ==
    /\ at[n] = "body"
    /\ StoreBody(work[n], sealed[n][work[n]])
    /\ Proceed(n, "manifest")
    /\ UNCHANGED <<sealed, envelope, record>>

\* It was written and the answer was lost.
PutBodyLost(n) ==
    /\ at[n] = "body"
    /\ StoreBody(work[n], sealed[n][work[n]])
    /\ Retry(n)
    /\ UNCHANGED <<sealed, envelope, record>>

\* Published: keep it hot, then evict.
Succeed(n, kind) ==
    /\ Reply(n, kind, sealed[n][work[n]])
    /\ Keep(n, work[n], sealed[n][work[n]])

\* The conditional write of the manifest is the commit.
PutManifest(n) ==
    /\ at[n] = "manifest"
    /\ StoreEnvelope(work[n], sealed[n][work[n]])
    /\ IF envelope[work[n]] = Nothing
       THEN /\ Succeed(n, "Committed")
            /\ wins' = [wins EXCEPT ![work[n]] = @ + 1]
       ELSE /\ Proceed(n, "readback")
            /\ UNCHANGED wins
    /\ UNCHANGED <<sealed, body, wrote, changes>>

PutManifestLost(n) ==
    /\ at[n] = "manifest"
    /\ StoreEnvelope(work[n], sealed[n][work[n]])
    /\ wrote' = wrote \cup IF envelope[work[n]] = Nothing THEN {n} ELSE {}
    /\ Retry(n)
    /\ UNCHANGED <<sealed, body, wins, changes>>

\* Mutant: whoever wrote it, the segment is published.
ReadBackTrusting(n) ==
    /\ at[n] = "readback"
    /\ Succeed(n, "AlreadyPublished")
    /\ UNCHANGED <<sealed, store, record>>

\* Refused as present: the stored bytes say whose manifest it is.
ReadBack(n) ==
    /\ at[n] = "readback"
    /\ LET stored == envelope[work[n]]
       IN  \/ /\ stored = Envelope(work[n], sealed[n][work[n]])
              /\ Succeed(n, "AlreadyPublished")
           \/ /\ stored \notin {Nothing, Envelope(work[n], sealed[n][work[n]])}
              /\ Fail(n, "Diverged")
           \/ /\ stored = Nothing
              /\ Fail(n, "Indeterminate")
    /\ UNCHANGED <<sealed, store, record>>

Publishing(n) == at[n] \in {"body", "manifest", "readback"}

\* The call did not reach the store.
Unreachable(n) ==
    /\ Publishing(n)
    /\ Retry(n)
    /\ UNCHANGED <<sealed, store, record>>

\* The store cannot do this at all, which is never tried again.
Unsupported(n) ==
    /\ Publishing(n)
    /\ Fail(n, "Unsupported")
    /\ UNCHANGED <<sealed, store, record>>

(***************************************************************************)
(* Tier::query, Tier::warm and cold::fetch_segment.                        *)
(***************************************************************************)
\* A segment in memory is answered from at once.
QueryHot(n, s) ==
    /\ at[n] = "idle"
    /\ hot[n][s] # Nothing
    /\ result' = [result EXCEPT ![n] = [kind |-> "Answer", seg |-> s,
                                        content |-> hot[n][s]]]
    /\ UNCHANGED <<sealed, store, at, work, left, held, hot, record>>

QueryCold(n, s) ==
    /\ hot[n][s] = Nothing
    /\ Call(n, s, "fetch")
    /\ UNCHANGED <<sealed, store, hot>>

FetchEnvelope(n) ==
    /\ at[n] = "fetch"
    /\ LET e == envelope[work[n]]
       IN  \/ /\ e = Nothing
              /\ Fail(n, "NotPublished")
           \/ /\ e # Nothing /\ e.seg # work[n]
              /\ Fail(n, "WrongSegment")
           \/ /\ e # Nothing /\ e.seg = work[n]
              /\ held' = [held EXCEPT ![n] = e]
              /\ at' = [at EXCEPT ![n] = "warm"]
              /\ UNCHANGED <<work, left, hot, result>>
    /\ UNCHANGED <<sealed, store, record>>

\* Mutant: the body's digest is enough, the segment is not sealed again.
FetchBodyByDigest(n) ==
    /\ at[n] = "warm"
    /\ LET b == body[work[n]][held[n].digest]
       IN  \/ /\ b # held[n].digest
              /\ Fail(n, "BodyMissing")
           \/ /\ b = held[n].digest
              /\ Reply(n, "Answer", b)
              /\ Keep(n, work[n], b)
    /\ UNCHANGED <<sealed, store, record>>

\* The body is compared with its digest, and the segment sealed again from it
\* with the manifest; only then it is answered from and kept hot.
FetchBody(n) ==
    /\ at[n] = "warm"
    /\ LET b == body[work[n]][held[n].digest]
       IN  \/ /\ b = Nothing
              /\ Fail(n, "BodyMissing")
           \/ /\ b \notin {Nothing, held[n].digest}
              /\ Fail(n, "BodyAltered")
           \/ /\ b = held[n].digest /\ b # held[n].manifest
              /\ Fail(n, "ManifestMismatch")
           \/ /\ b = held[n].digest /\ b = held[n].manifest
              /\ Reply(n, "Answer", b)
              /\ Keep(n, work[n], b)
    /\ UNCHANGED <<sealed, store, record>>

FetchFails(n) ==
    /\ at[n] \in {"fetch", "warm"}
    /\ Fail(n, "Unavailable")
    /\ UNCHANGED <<sealed, store, record>>

(***************************************************************************)
(* The environment.                                                        *)
(***************************************************************************)

\* A node restarts: what it held in memory, and its call, are gone.
Restart(n) ==
    /\ at' = [at EXCEPT ![n] = "idle"]
    /\ held' = [held EXCEPT ![n] = Nothing]
    /\ hot' = [hot EXCEPT ![n] = [s \in Segment |-> Nothing]]
    /\ work' = [work EXCEPT ![n] = 0]
    /\ left' = [left EXCEPT ![n] = 0]
    /\ result' = [result EXCEPT ![n] = NoResult]
    /\ wrote' = wrote \ {n}
    /\ UNCHANGED <<sealed, store, past>>

\* Somebody with access to the bucket changes an object: a body holds other
\* bytes, an envelope is deleted or moved to another segment's key, or a body
\* and the digest in front of the manifest are replaced together.
Change ==
    /\ changes < MaxChanges
    /\ changes' = changes + 1
    /\ \/ \E s \in Segment, c, d \in Content :
             /\ body[s][c] # Nothing
             /\ body' = [body EXCEPT ![s][c] = d]
             /\ UNCHANGED envelope
       \/ \E s \in Segment :
             /\ envelope' = [envelope EXCEPT ![s] = Nothing]
             /\ UNCHANGED body
       \/ \E s, t \in Segment :
             /\ envelope[s] # Nothing
             /\ envelope' = [envelope EXCEPT ![t] = envelope[s]]
             /\ UNCHANGED body
       \/ \E s \in Segment, d \in Content :
             /\ envelope[s] # Nothing
             /\ envelope' = [envelope EXCEPT ![s].digest = d]
             /\ body' = [body EXCEPT ![s][d] = d]
    /\ UNCHANGED <<sealed, node, committed, wins, wrote>>

\* The operator's lifecycle rule removes a body that has no manifest.
Expire(s, c) ==
    /\ Expiry
    /\ body[s][c] # Nothing
    /\ envelope[s] # Nothing => envelope[s].digest # c
    /\ body' = [body EXCEPT ![s][c] = Nothing]
    /\ UNCHANGED <<sealed, envelope, node, record>>

Step(n) ==
    \/ PutBody(n) \/ PutBodyLost(n) \/ PutManifest(n) \/ PutManifestLost(n)
    \/ ReadBack(n) \/ Unreachable(n) \/ Unsupported(n)
    \/ FetchEnvelope(n) \/ FetchBody(n) \/ FetchFails(n)

Next ==
    \/ \E n \in Node, s \in Segment :
          StartPublish(n, s) \/ QueryHot(n, s) \/ QueryCold(n, s)
    \/ \E n \in Node : Step(n) \/ Restart(n)
    \/ Change
    \/ \E s \in Segment, c \in Content : Expire(s, c)

Spec == Init /\ [][Next]_vars

\* A call that was made goes on; it has no clock and waits for nobody.
FairSpec == Spec /\ \A n \in Node : WF_vars(Step(n))

(***************************************************************************)
(* Properties.                                                             *)
(***************************************************************************)
Maybe(S) == S \cup {Nothing}

\* Every variable has its type.
PublishTypeOK ==
    /\ sealed \in [Node -> [Segment -> Content]]
    /\ body \in [Segment -> [Content -> Maybe(Content)]]
    /\ envelope \in [Segment -> Maybe([seg : Segment, digest : Content,
                                       manifest : Content])]
    /\ at \in [Node -> {"idle", "body", "manifest", "readback", "fetch",
                        "warm"}]
    /\ work \in [Node -> 0..MaxSegment]
    /\ \A n \in Node : at[n] # "idle" => work[n] \in Segment
    /\ left \in [Node -> 0..Attempts]
    /\ \A n \in Node : at[n] = "warm" <=> held[n] # Nothing
    /\ hot \in [Node -> [Segment -> Maybe(Content)]]
    /\ \A n \in Node : Cardinality(Held(hot[n])) <= KeepHot
    /\ committed \in [Segment -> SUBSET Content]
    /\ wins \in [Segment -> Nat]
    /\ wrote \subseteq Node
    /\ changes \in 0..MaxChanges

Untouched == changes = 0

\* A manifest is never there without the body it names: whatever calls fail,
\* are lost or are cut off by a restart, a published segment can be read.
ManifestHasBody ==
    Untouched => \A s \in Segment : envelope[s] # Nothing =>
        body[s][envelope[s].digest] = envelope[s].manifest

\* A node told Committed or AlreadyPublished is right: the manifest under the
\* key is its own, also when a rival sealed other records under this number
\* and when the answer to its own write was lost.
SuccessIsOurs ==
    Untouched => \A n \in Node :
        result[n].kind \in {"Committed", "AlreadyPublished"} =>
            envelope[result[n].seg] =
                Envelope(result[n].seg, result[n].content)

\* Of all the calls that race for one segment at most one is told Committed,
\* and one manifest at most is ever written.
CommittedOnce ==
    Untouched => \A s \in Segment :
        wins[s] <= 1 /\ Cardinality(committed[s]) <= 1

\* What a node holds in memory can be evicted at any time: the store has it.
HotIsRecoverable ==
    Untouched => \A n \in Node : \A s \in Held(hot[n]) :
        /\ envelope[s] = Envelope(s, hot[n][s])
        /\ body[s][hot[n][s]] = hot[n][s]

\* publish: the body before the manifest, so whatever is cut off or evicted, what
\* is published can be read.
PublishedIsReadable == PublishTypeOK /\ ManifestHasBody /\ HotIsRecoverable

\* publish: of rivals for one segment one wins, and whoever is told so is right.
OneRivalWins == CommittedOnce /\ SuccessIsOurs

\* Whatever somebody changes in the bucket, a query is only ever answered from
\* records a manifest was written for under this segment's number.
AnswersAreCommitted ==
    \A n \in Node : result[n].kind = "Answer" =>
        result[n].content \in committed[result[n].seg]

\* A call returns, however often the store fails: its budget is finite.
EveryCallReturns == \A n \in Node : at[n] # "idle" ~> at[n] = "idle"

\* A call that ends Unavailable has committed nothing.
UnavailableMeansNothing ==
    \A n \in Node : result[n].kind = "Unavailable" => n \notin wrote
=============================================================================
