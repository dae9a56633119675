---------------------------- MODULE IntakeProofs ----------------------------
(***************************************************************************)
(* Proofs about Ingest and about Signing, which share no state.            *)
(* Ingest, for any finite set of connections and of requests and every     *)
(* limit: the budgets are exact, the queue is bounded, what a peer is told *)
(* is true and every loss that was counted has its record.  Signing, for   *)
(* every set of keys, every clock and every bound: a root that was queued  *)
(* stays queued under its time until it is signed, and every signature a   *)
(* pack carries verifies under the pin.                                    *)
(***************************************************************************)
EXTENDS Ingest, Signing, FiniteSetTheorems, WellFoundedInduction, TLAPS

\* A set of numbers has a least one.
LEMMA LeastNumber ==
    ASSUME NEW T, T \subseteq Nat, T # {}
    PROVE  \E x \in T : \A y \in T : x <= y
<1> DEFINE R == OpToRel(<, Nat)
<1>1. IsWellFoundedOn(R, Nat)
  BY NatLessThanWellFounded
<1>2. \E x \in T : \A y \in T : ~ (<<y, x>> \in R)
  <2> HIDE DEF R
  <2> QED
    BY <1>1, WFMin
<1>3. PICK x \in T : \A y \in T : ~ (<<y, x>> \in R)
  BY <1>2
<1>4. ASSUME NEW y \in T
      PROVE  x <= y
  <2>1. <<y, x>> \notin {p \in Nat \X Nat : p[1] < p[2]}
    BY <1>3 DEF OpToRel
  <2>2. QED
    BY <2>1
<1>5. QED
  BY <1>4

-----------------------------------------------------------------------------
(* The sum over the connections, as MapThenSumSet takes it: one element    *)
(* after another, in an order that is the same for every summand.          *)

Chosen(s) == CHOOSE x \in s : TRUE
SumStep(t, g, s) ==
    IF s = {} THEN 0 ELSE t[Chosen(s)].held + g[s \ {Chosen(s)}]
Sums(t, g) == [s \in SUBSET Conn |-> SumStep(t, g, s)]
SumsOf(t) == CHOOSE g : g = Sums(t, g)

\* The sum CountersAreHeld is about.
LEMMA HeldSum ==
    ASSUME NEW t
    PROVE  MapThenSumSet(LAMBDA c : t[c].held, Conn) = SumsOf(t)[Conn]
BY DEF MapThenSumSet, MapThenFoldSet, SumsOf, Sums, SumStep, Chosen

\* One element less.
LEMMA OneLess ==
    ASSUME IsFiniteSet(Conn), NEW s \in SUBSET Conn
    PROVE  /\ Cardinality(s) \in Nat
           /\ Cardinality(s) = 0 => s = {}
           /\ s # {} => /\ Chosen(s) \in s
                        /\ s \ {Chosen(s)} \in SUBSET Conn
                        /\ Cardinality(s \ {Chosen(s)}) = Cardinality(s) - 1
<1>1. IsFiniteSet(s)
  BY FS_Subset
<1>2. Cardinality(s) \in Nat /\ (Cardinality(s) = 0 => s = {})
  BY <1>1, FS_CardinalityType, FS_EmptySet
<1>3. ASSUME s # {}
      PROVE  Chosen(s) \in s
  BY <1>3 DEF Chosen
<1>4. ASSUME s # {}
      PROVE  Cardinality(s \ {Chosen(s)}) = Cardinality(s) - 1
  BY <1>1, <1>3, <1>4, FS_RemoveElement
<1>5. QED
  BY <1>2, <1>3, <1>4

\* A function that sums sets of up to n elements.
SumsUpTo(t, g, n) ==
    /\ g \in [SUBSET Conn -> Nat]
    /\ \A s \in SUBSET Conn : Cardinality(s) <= n => g[s] = SumStep(t, g, s)

\* The partial sums of what threads hold exist for any number of threads.
LEMMA SumsExist ==
    ASSUME IsFiniteSet(Conn), NEW t, \A c \in Conn : t[c].held \in Nat
    PROVE  \A n \in Nat : \E g : SumsUpTo(t, g, n)
<1> DEFINE T == {n \in Nat : ~ \E g : SumsUpTo(t, g, n)}
<1> SUFFICES ASSUME T # {} PROVE FALSE
  OBVIOUS
<1>1. PICK n \in T : \A y \in T : n <= y
  BY LeastNumber
<1>2. n \in Nat /\ ~ \E g : SumsUpTo(t, g, n)
  BY <1>1
<1>3. CASE n = 0
  <2> DEFINE g == [s \in SUBSET Conn |-> 0]
  <2>1. ASSUME NEW s \in SUBSET Conn, Cardinality(s) <= 0
        PROVE  g[s] = SumStep(t, g, s)
    <3>1. Cardinality(s) \in Nat /\ (Cardinality(s) = 0 => s = {})
      BY OneLess
    <3>2. s = {}
      BY <2>1, <3>1
    <3>3. QED
      BY <3>2 DEF SumStep
  <2>2. g \in [SUBSET Conn -> Nat]
    OBVIOUS
  <2>3. SumsUpTo(t, g, n)
    BY <1>3, <2>1, <2>2 DEF SumsUpTo
  <2>4. QED
    BY <1>2, <2>3
<1>4. CASE n # 0
  <2> DEFINE m == n - 1
  <2>1. m \in Nat /\ ~ (n <= m) /\ n = m + 1
    BY <1>2, <1>4
  <2> HIDE DEF m
  <2>2. PICK g : SumsUpTo(t, g, m)
    BY <1>1, <2>1
  <2> DEFINE h == [s \in SUBSET Conn |-> IF Cardinality(s) <= m THEN g[s] ELSE SumStep(t, g, s)]
  <2>3. \A s \in SUBSET Conn : h[s] = SumStep(t, g, s)
    BY <2>2 DEF SumsUpTo
  <2>4. \A s \in SUBSET Conn : Cardinality(s) <= m => h[s] = g[s]
    OBVIOUS
  <2>5. h \in [SUBSET Conn -> Nat]
    <3>1. ASSUME NEW s \in SUBSET Conn
          PROVE  SumStep(t, g, s) \in Nat
      <4>1. CASE s = {}
        BY <4>1 DEF SumStep
      <4>2. CASE s # {}
        <5>1. Chosen(s) \in Conn /\ s \ {Chosen(s)} \in SUBSET Conn
          BY <4>2, OneLess
        <5>2. t[Chosen(s)].held \in Nat /\ g[s \ {Chosen(s)}] \in Nat
          BY <2>2, <5>1 DEF SumsUpTo
        <5>3. QED
          BY <4>2, <5>2 DEF SumStep
      <4>3. QED
        BY <4>1, <4>2
    <3>2. \A s \in SUBSET Conn : h[s] \in Nat
      BY <2>3, <3>1
    <3>3. QED
      BY <3>2
  <2> HIDE DEF h
  <2>6. ASSUME NEW s \in SUBSET Conn, Cardinality(s) <= n
        PROVE  h[s] = SumStep(t, h, s)
    <3>1. CASE s = {}
      BY <2>3, <3>1 DEF SumStep
    <3>2. CASE s # {}
      <4>1. /\ s \ {Chosen(s)} \in SUBSET Conn /\ Cardinality(s) \in Nat
            /\ Cardinality(s \ {Chosen(s)}) = Cardinality(s) - 1
        BY <3>2, OneLess
      <4>2. Cardinality(s \ {Chosen(s)}) <= m
        BY <2>1, <2>6, <4>1
      <4>3. h[s \ {Chosen(s)}] = g[s \ {Chosen(s)}]
        BY <2>4, <4>1, <4>2
      <4>4. QED
        BY <2>3, <3>2, <4>3 DEF SumStep
    <3>3. QED
      BY <3>1, <3>2
  <2>7. SumsUpTo(t, h, n)
    BY <2>5, <2>6 DEF SumsUpTo
  <2>8. QED
    BY <1>2, <2>7
<1>5. QED
  BY <1>3, <1>4

\* The sum of every set of connections is what its recursion says, and a number.
LEMMA SumUnfolds ==
    ASSUME IsFiniteSet(Conn), NEW t, \A c \in Conn : t[c].held \in Nat
    PROVE  \A s \in SUBSET Conn : SumsOf(t)[s] = SumStep(t, SumsOf(t), s)
<1> DEFINE n == Cardinality(Conn)
<1>1. n \in Nat
  BY FS_CardinalityType
<1>2. PICK g : SumsUpTo(t, g, n)
  BY <1>1, SumsExist
<1>3. \A s \in SUBSET Conn : Cardinality(s) <= n
  BY FS_Subset
<1>4. g = Sums(t, g)
  <2>1. \A s \in SUBSET Conn : g[s] = SumStep(t, g, s)
    BY <1>2, <1>3 DEF SumsUpTo
  <2>2. g \in [SUBSET Conn -> Nat]
    BY <1>2 DEF SumsUpTo
  <2>3. QED
    BY <2>1, <2>2 DEF Sums
<1>5. SumsOf(t) = Sums(t, SumsOf(t))
  BY <1>4 DEF SumsOf
<1>6. QED
  BY <1>5 DEF Sums

\* Two tables that differ in what one connection holds differ by that in every sum
\* that has the connection in it.
LEMMA SumMoves ==
    ASSUME IsFiniteSet(Conn), NEW t, NEW u, NEW c \in Conn,
           \A d \in Conn : t[d].held \in Nat /\ u[d].held \in Nat,
           \A d \in Conn : d # c => u[d].held = t[d].held
    PROVE  \A s \in SUBSET Conn :
              /\ SumsOf(t)[s] \in Nat /\ SumsOf(u)[s] \in Nat
              /\ c \notin s => SumsOf(u)[s] = SumsOf(t)[s]
              /\ c \in s => SumsOf(u)[s] + t[c].held = SumsOf(t)[s] + u[c].held
<1> DEFINE f == SumsOf(t)
           g == SumsOf(u)
           Right(s) == /\ f[s] \in Nat /\ g[s] \in Nat
                       /\ c \notin s => g[s] = f[s]
                       /\ c \in s => g[s] + t[c].held = f[s] + u[c].held
           T == {n \in Nat : \E s \in SUBSET Conn : Cardinality(s) = n /\ ~ Right(s)}
<1>1. \A s \in SUBSET Conn : f[s] = SumStep(t, f, s) /\ g[s] = SumStep(u, g, s)
  BY SumUnfolds
<1> HIDE DEF f, g
<1>2. ASSUME NEW n \in T, \A y \in T : n <= y
      PROVE  FALSE
  <2>1. n \in Nat
    OBVIOUS
  <2>2. PICK s \in SUBSET Conn : Cardinality(s) = n /\ ~ Right(s)
    OBVIOUS
  <2>3. CASE s = {}
    <3>1. f[s] = 0 /\ g[s] = 0 /\ c \notin s
      BY <1>1, <2>3 DEF SumStep
    <3>2. QED
      BY <2>2, <3>1
  <2>4. CASE s # {}
    <3> DEFINE x == Chosen(s)
               r == s \ {x}
               m == Cardinality(r)
    <3>1. x \in s /\ r \in SUBSET Conn /\ m = n - 1 /\ m \in Nat
      BY <2>2, <2>4, OneLess
    <3>2. f[s] = t[x].held + f[r] /\ g[s] = u[x].held + g[r]
      BY <1>1, <2>4 DEF SumStep
    <3>3. x \in Conn /\ (c \in r <=> c \in s /\ c # x)
      BY <3>1
    <3> HIDE DEF x, r
    <3>4. Right(r)
      <4>1. m \notin T
        <5>1. ~ (n <= m)
          BY <2>1, <3>1
        <5> HIDE DEF T, m
        <5>2. QED
          BY <1>2, <5>1
      <4>2. QED
        BY <3>1, <4>1
    <3>5. /\ f[r] \in Nat /\ g[r] \in Nat /\ t[x].held \in Nat /\ u[x].held \in Nat
          /\ t[c].held \in Nat /\ u[c].held \in Nat
      BY <3>3, <3>4
    <3>6. f[s] \in Nat /\ g[s] \in Nat
      BY <3>2, <3>5
    <3>7. ASSUME c \notin s
          PROVE  g[s] = f[s]
      <4>1. g[r] = f[r] /\ u[x].held = t[x].held
        BY <3>1, <3>3, <3>4, <3>7
      <4>2. QED
        BY <3>2, <4>1
    <3>8. ASSUME c \in s
          PROVE  g[s] + t[c].held = f[s] + u[c].held
      <4>1. CASE x = c
        <5>1. g[r] = f[r]
          BY <3>3, <3>4, <4>1
        <5>2. f[s] = t[c].held + f[r] /\ g[s] = u[c].held + f[r]
          BY <3>2, <4>1, <5>1
        <5>3. QED
          BY <3>5, <5>2
      <4>2. CASE x # c
        <5>1. g[r] + t[c].held = f[r] + u[c].held /\ u[x].held = t[x].held
          BY <3>3, <3>4, <3>8, <4>2
        <5>2. \A a, b, e, h, k \in Nat : b + e = a + h => (k + b) + e = (k + a) + h
          OBVIOUS
        <5>3. (t[x].held + g[r]) + t[c].held = (t[x].held + f[r]) + u[c].held
          BY <3>5, <5>1, <5>2
        <5>4. QED
          BY <3>2, <5>1, <5>3
      <4>3. QED
        BY <4>1, <4>2
    <3>9. QED
      BY <2>2, <3>6, <3>7, <3>8
  <2>5. QED
    BY <2>3, <2>4
<1>3. T = {}
  BY <1>2, LeastNumber
<1>4. \A s \in SUBSET Conn : Right(s)
  <2>1. \A s \in SUBSET Conn : Cardinality(s) \in Nat
    BY OneLess
  <2>2. QED
    BY <1>3, <2>1
<1>5. QED
  BY <1>4 DEF f, g

\* Nothing held sums to nothing.
LEMMA SumOfNothing ==
    ASSUME IsFiniteSet(Conn), NEW t, \A c \in Conn : t[c].held = 0
    PROVE  SumsOf(t)[Conn] = 0
<1> DEFINE f == SumsOf(t)
           T == {n \in Nat : \E s \in SUBSET Conn : Cardinality(s) = n /\ f[s] # 0}
<1>1. \A s \in SUBSET Conn : f[s] = SumStep(t, f, s)
  BY SumUnfolds
<1> HIDE DEF f
<1>2. ASSUME NEW n \in T, \A y \in T : n <= y
      PROVE  FALSE
  <2>1. n \in Nat
    OBVIOUS
  <2>2. PICK s \in SUBSET Conn : Cardinality(s) = n /\ f[s] # 0
    OBVIOUS
  <2>3. s # {}
    BY <1>1, <2>2 DEF SumStep
  <2> DEFINE x == Chosen(s)
             r == s \ {x}
             m == Cardinality(r)
  <2>4. x \in Conn /\ r \in SUBSET Conn /\ m = n - 1 /\ m \in Nat
    BY <2>2, <2>3, OneLess
  <2>5. f[s] = t[x].held + f[r]
    BY <1>1, <2>3 DEF SumStep
  <2> HIDE DEF x, r
  <2>6. f[r] = 0
    <3>1. ~ (n <= m)
      BY <2>1, <2>4
    <3>2. m \notin T
      <4> HIDE DEF T, m
      <4> QED
        BY <1>2, <3>1
    <3>3. QED
      BY <2>4, <3>2
  <2>7. QED
    BY <2>2, <2>4, <2>5, <2>6
<1>3. T = {}
  BY <1>2, LeastNumber
<1>4. Cardinality(Conn) \in Nat
  BY FS_CardinalityType
<1>5. QED
  BY <1>3, <1>4 DEF f

\* A finite set of numbers has a greatest one.
LEMMA GreatestNumber ==
    ASSUME NEW A, A \subseteq Nat, A # {}, IsFiniteSet(A)
    PROVE  Max(A) \in A /\ \A y \in A : y <= Max(A)
<1> DEFINE Topped(S) == \E x \in S : \A y \in S : y <= x
           T == {n \in Nat : \E S \in SUBSET A : S # {} /\ Cardinality(S) = n /\ ~ Topped(S)}
<1>1. \A S \in SUBSET A : IsFiniteSet(S) /\ Cardinality(S) \in Nat
  BY FS_Subset, FS_CardinalityType
<1>2. ASSUME NEW n \in T, \A y \in T : n <= y
      PROVE  FALSE
  <2>1. n \in Nat
    OBVIOUS
  <2>2. PICK S \in SUBSET A : S # {} /\ Cardinality(S) = n /\ ~ Topped(S)
    OBVIOUS
  <2>3. PICK x : x \in S
    BY <2>2
  <2> DEFINE R == S \ {x}
             m == Cardinality(R)
  <2>4. R \in SUBSET A /\ m = n - 1 /\ m \in Nat
    BY <1>1, <2>2, <2>3, FS_RemoveElement
  <2>5. x \in Nat /\ S = R \cup {x}
    BY <2>3
  <2>6. CASE R = {}
    BY <2>2, <2>3, <2>5, <2>6
  <2>7. CASE R # {}
    <3>1. ~ (n <= m)
      BY <2>1, <2>4
    <3>2. m \notin T
      <4> HIDE DEF T, m
      <4> QED
        BY <1>2, <3>1
    <3> HIDE DEF R
    <3>3. Topped(R)
      BY <2>4, <2>7, <3>2
    <3>4. PICK z \in R : \A y \in R : y <= z
      BY <3>3
    <3>5. R \subseteq Nat
      BY <2>4
    <3>6. CASE x <= z
      BY <2>2, <2>5, <3>4, <3>6
    <3>7. CASE ~ (x <= z)
      <4>1. \A y \in S : y <= x
        BY <2>5, <3>4, <3>5, <3>7
      <4>2. QED
        BY <2>2, <2>3, <4>1
    <3>8. QED
      BY <3>6, <3>7
  <2>8. QED
    BY <2>6, <2>7
<1>3. T = {}
  BY <1>2, LeastNumber
<1>4. \E x \in A : \A y \in A : x >= y
  <2>1. Topped(A)
    BY <1>1, <1>3
  <2>2. QED
    BY <2>1
<1>5. Max(A) \in A /\ \A y \in A : Max(A) >= y
  BY <1>4 DEF Max
<1>6. QED
  BY <1>5

\* No batch puts more in the queue than the largest one.
LEMMA BatchesFit ==
    ASSUME IngestConstants
    PROVE  /\ LargestBatch \in Nat \ {0}
           /\ \A r \in Requests : r.spans.mine + r.spans.other + 1 <= LargestBatch
<1> DEFINE B == {r.spans.mine + r.spans.other + 1 : r \in Requests}
           w == [r \in Requests |-> r.spans.mine + r.spans.other + 1]
<1>1. \A r \in Requests : r.spans.mine + r.spans.other + 1 \in Nat \ {0}
  BY DEF IngestConstants, RequestForm
<1>2. IsFiniteSet(B)
  <2>1. w \in Surjection(Requests, B)
    BY DEF Surjection
  <2> HIDE DEF w, B
  <2>2. QED
    BY <2>1, FS_Surjection DEF IngestConstants
<1>3. {0} \cup B \subseteq Nat /\ {0} \cup B # {} /\ IsFiniteSet({0} \cup B)
  <2>1. {0} \cup B = B \cup {0} /\ B \subseteq Nat
    BY <1>1
  <2> HIDE DEF B
  <2>2. QED
    BY <1>2, <2>1, FS_AddElement
<1>4. LargestBatch \in {0} \cup B /\ \A y \in {0} \cup B : y <= LargestBatch
  <2>1. LargestBatch = Max({0} \cup B)
    BY DEF LargestBatch
  <2> HIDE DEF B
  <2>2. QED
    BY <1>3, <2>1, GreatestNumber
<1>5. \A r \in Requests : r.spans.mine + r.spans.other + 1 <= LargestBatch
  BY <1>4
<1>6. PICK r \in Requests : TRUE
  BY DEF IngestConstants
<1>7. QED
  BY <1>1, <1>3, <1>4, <1>5, <1>6

-----------------------------------------------------------------------------
(* The invariant.                                                          *)

ThreadForm ==
    [at : {"gone", "shed", "idle", "inspecting", "reserving", "reading", "submitting",
           "answering", "closing"},
     served : Nat, req : Requests \cup {NoRequest}, bound : BOOLEAN, held : Nat,
     status : Nat, queued : Nat]

\* What AnswersAreTrue says of one thread.
Truthful(t) ==
    LET all == Spans(t.req).mine + Spans(t.req).other
    IN /\ Retryable(t.status) => t.queued = 0
       /\ t.status = 200 /\ t.req.path = "traces" =>
             t.queued = all /\ Spans(t.req).unmapped + Spans(t.req).dropped = 0
       /\ t.queued > 0 => t.status \in {200, Partial}

\* A thread holds bytes only from the reservation to the submission, and has a
\* request in its hands up to the answer; what is to be reserved has a length, for
\* inspect has answered 411 to a body that says none.
Tidy(t) ==
    /\ t.at \in {"inspecting", "reserving", "reading", "submitting", "answering"}
          => t.req \in Requests
    /\ t.at = "reserving" => SaysEmpty(t.req) \/ t.req.declared # NoLength
    /\ t.at \notin {"reading", "submitting"} => t.held = 0
    /\ t.at \notin {"answering", "closing"} => t.queued = 0
    /\ t.at = "answering" => Truthful(t)

ThreadsTidy == thread \in [Conn -> ThreadForm] /\ \A c \in Conn : Tidy(thread[c])

SourceForm == [pending : Nat, lost : Nat, dropped : Nat, malformed : Nat, blemishes : Nat,
               garbled : Nat, reported : Nat, canName : BOOLEAN]

\* The source, the drain loop and the plane: every anomaly reported is in a record or
\* in the drain loop's hands, which hold one only between the note and the plane; where
\* the record has no name, none is.
Ledger ==
    /\ otlp \in SourceForm /\ written \in Nat
    /\ drain \in [at : {"asleep", "polled", "noted"}, anomalies : Nat]
    /\ drain.at # "noted" => drain.anomalies = 0
    /\ written + drain.anomalies = IF otlp.canName THEN otlp.reported ELSE 0
    /\ otlp.reported <= AnomalyTotal(otlp)
    /\ QueueIsBounded

Guarded == gate \in {"none", "secret", "agent"} /\ OpenPortIsGuarded

IngestInv == ThreadsTidy /\ CountersAreHeld /\ LimitsHold /\ Ledger /\ Guarded

\* One thread moves and the two counters with it.
LEMMA ThreadMoves ==
    ASSUME IngestConstants, ThreadsTidy, CountersAreHeld, LimitsHold,
           NEW c \in Conn, NEW t \in ThreadForm, Tidy(t),
           thread' = [thread EXCEPT ![c] = t],
           inflight' = inflight + t.held - thread[c].held, inflight' <= MaxInflight,
           live' = live + (IF t.at = "gone" THEN 0 ELSE 1)
                        - (IF thread[c].at = "gone" THEN 0 ELSE 1),
           t.at \notin {"gone", "shed"} =>
              thread[c].at \notin {"gone", "shed"} \/ live' <= MaxConnections
    PROVE  ThreadsTidy' /\ CountersAreHeld' /\ LimitsHold'
<1> DEFINE H == {d \in Conn : thread[d].at # "gone"}
           G == {d \in Conn : thread'[d].at # "gone"}
           V == {d \in Conn : thread[d].at # "gone" /\ thread[d].at # "shed"}
           W == {d \in Conn : thread'[d].at # "gone" /\ thread'[d].at # "shed"}
<1>0. IsFiniteSet(Conn) /\ MaxConnections \in Nat /\ MaxInflight \in Nat
  BY DEF IngestConstants
<1>1. thread \in [Conn -> ThreadForm] /\ \A d \in Conn : Tidy(thread[d])
  BY DEF ThreadsTidy
<1>2. /\ thread' \in [Conn -> ThreadForm] /\ thread'[c] = t
      /\ \A d \in Conn : d # c => thread'[d] = thread[d]
  BY <1>1
<1>3. ThreadsTidy'
  <2>1. \A d \in Conn : Tidy(thread'[d])
    BY <1>1, <1>2
  <2>2. QED
    BY <1>2, <2>1 DEF ThreadsTidy, Tidy, Truthful, Spans, SaysEmpty
<1>4. /\ live = Cardinality(H) /\ Cardinality(V) <= MaxConnections
      /\ inflight = SumsOf(thread)[Conn]
  BY HeldSum DEF CountersAreHeld, LimitsHold, HoldsPlace
<1>5. IsFiniteSet(H) /\ IsFiniteSet(G) /\ IsFiniteSet(V) /\ Cardinality(H) \in Nat
  BY <1>0, FS_Subset, FS_CardinalityType
<1>6. live' = Cardinality(G)
  <2>1. CASE t.at = "gone" /\ thread[c].at = "gone"
    <3>1. G = H
      BY <1>2, <2>1
    <3> HIDE DEF G, H
    <3>2. QED
      BY <1>4, <1>5, <2>1, <3>1
  <2>2. CASE t.at = "gone" /\ thread[c].at # "gone"
    <3>1. G = H \ {c} /\ c \in H
      BY <1>2, <2>2
    <3> HIDE DEF G, H
    <3>2. Cardinality(G) = Cardinality(H) - 1
      BY <1>5, <3>1, FS_RemoveElement
    <3>3. QED
      BY <1>4, <1>5, <2>2, <3>2
  <2>3. CASE t.at # "gone" /\ thread[c].at = "gone"
    <3>1. G = H \cup {c} /\ c \notin H
      BY <1>2, <2>3
    <3> HIDE DEF G, H
    <3>2. Cardinality(G) = Cardinality(H) + 1
      BY <1>5, <3>1, FS_AddElement
    <3>3. QED
      BY <1>4, <1>5, <2>3, <3>2
  <2>4. CASE t.at # "gone" /\ thread[c].at # "gone"
    <3>1. G = H
      BY <1>2, <2>4
    <3> HIDE DEF G, H
    <3>2. QED
      BY <1>4, <1>5, <2>4, <3>1
  <2>5. QED
    BY <2>1, <2>2, <2>3, <2>4
<1>7. Cardinality(W) <= MaxConnections
  <2>0. W \subseteq G /\ Cardinality(G) \in Nat /\ Cardinality(W) \in Nat
    BY <1>0, <1>5, FS_Subset, FS_CardinalityType
  <2>1. CASE live' <= MaxConnections
    <3> HIDE DEF W, G
    <3>1. Cardinality(W) <= Cardinality(G)
      BY <1>5, <2>0, FS_Subset
    <3>2. QED
      BY <1>0, <1>6, <2>0, <2>1, <3>1
  <2>2. CASE ~ (live' <= MaxConnections)
    <3>1. W \subseteq V
      BY <1>2, <2>2
    <3> HIDE DEF W, V
    <3>2. Cardinality(W) <= Cardinality(V) /\ Cardinality(V) \in Nat
      BY <1>5, <3>1, FS_Subset, FS_CardinalityType
    <3>3. QED
      BY <1>0, <1>4, <2>0, <3>2
  <2>3. QED
    BY <2>1, <2>2
<1>8. inflight' = SumsOf(thread')[Conn]
  <2>1. \A d \in Conn : thread[d].held \in Nat /\ thread'[d].held \in Nat
    BY <1>1, <1>2 DEF ThreadForm
  <2>2. \A d \in Conn : d # c => thread'[d].held = thread[d].held
    BY <1>2
  <2>3. /\ SumsOf(thread)[Conn] \in Nat /\ SumsOf(thread')[Conn] \in Nat
        /\ SumsOf(thread')[Conn] + thread[c].held = SumsOf(thread)[Conn] + thread'[c].held
    <3>1. \A s \in SUBSET Conn :
             /\ SumsOf(thread)[s] \in Nat /\ SumsOf(thread')[s] \in Nat
             /\ c \notin s => SumsOf(thread')[s] = SumsOf(thread)[s]
             /\ c \in s => SumsOf(thread')[s] + thread[c].held = SumsOf(thread)[s] + thread'[c].held
      <4>1. ASSUME NEW a, NEW b, a = thread, b = thread'
            PROVE  \A s \in SUBSET Conn :
                      /\ SumsOf(a)[s] \in Nat /\ SumsOf(b)[s] \in Nat
                      /\ c \notin s => SumsOf(b)[s] = SumsOf(a)[s]
                      /\ c \in s => SumsOf(b)[s] + a[c].held = SumsOf(a)[s] + b[c].held
        <5>1. \A d \in Conn : a[d].held \in Nat /\ b[d].held \in Nat
          BY <2>1, <4>1
        <5>2. \A d \in Conn : d # c => b[d].held = a[d].held
          BY <2>2, <4>1
        <5>3. QED
          BY <1>0, <5>1, <5>2, SumMoves
      <4>2. QED
        BY <4>1
    <3>2. QED
      BY <3>1
  <2>4. \A a, b, x, y \in Nat : b + x = a + y => b = a + y - x
    OBVIOUS
  <2>5. SumsOf(thread')[Conn] = SumsOf(thread)[Conn] + thread'[c].held - thread[c].held
    BY <2>1, <2>3, <2>4
  <2>6. QED
    BY <1>2, <1>4, <2>5
<1>9. CountersAreHeld'
  BY <1>6, <1>8 DEF CountersAreHeld, HoldsPlace, MapThenSumSet, MapThenFoldSet, SumsOf, Sums,
                    SumStep, Chosen
<1>10. LimitsHold'
  BY <1>7 DEF LimitsHold, HoldsPlace
<1>11. QED
  BY <1>3, <1>9, <1>10

\* What the invariant says of the counters and of one thread's record.
LEMMA CountersAreNumbers ==
    ASSUME IngestConstants, IngestInv, NEW c \in Conn
    PROVE  /\ live \in Nat /\ inflight \in Nat /\ inflight <= MaxInflight
           /\ thread[c] \in ThreadForm /\ Tidy(thread[c]) /\ thread[c].held \in Nat
<1>1. thread[c] \in ThreadForm /\ Tidy(thread[c]) /\ \A d \in Conn : thread[d].held \in Nat
  BY DEF IngestInv, ThreadsTidy, ThreadForm
<1>2. live \in Nat
  <2>1. IsFiniteSet({d \in Conn : HoldsPlace(d)})
    BY FS_Subset DEF IngestConstants
  <2>2. QED
    BY <2>1, FS_CardinalityType DEF IngestInv, CountersAreHeld
<1>3. inflight = SumsOf(thread)[Conn]
  BY HeldSum DEF IngestInv, CountersAreHeld
<1>4. ASSUME NEW a, a = thread
      PROVE  SumsOf(a)[Conn] \in Nat
  <2>1. \A d \in Conn : a[d].held \in Nat /\ a[d].held \in Nat
    BY <1>1, <1>4
  <2>2. \A s \in SUBSET Conn : SumsOf(a)[s] \in Nat
    BY <2>1, SumMoves DEF IngestConstants
  <2>3. QED
    BY <2>2
<1>5. inflight \in Nat
  BY <1>3, <1>4
<1>6. QED
  BY <1>1, <1>2, <1>5 DEF IngestInv, LimitsHold

\* A step of a thread that has its place and keeps it.
LEMMA KeepsPlace ==
    ASSUME IngestConstants, IngestInv, NEW c \in Conn, NEW t \in ThreadForm, Tidy(t),
           thread' = [thread EXCEPT ![c] = t],
           thread[c].at \notin {"gone", "shed"}, t.at \notin {"gone", "shed"},
           UNCHANGED <<live, node, gate>>,
           inflight' = inflight + t.held - thread[c].held, inflight' <= MaxInflight,
           Ledger'
    PROVE  IngestInv'
<1>1. live' = live + (IF t.at = "gone" THEN 0 ELSE 1) - (IF thread[c].at = "gone" THEN 0 ELSE 1)
  BY CountersAreNumbers
<1>2. ThreadsTidy' /\ CountersAreHeld' /\ LimitsHold'
  BY <1>1, ThreadMoves DEF IngestInv
<1>3. QED
  BY <1>2 DEF IngestInv, Guarded, OpenPortIsGuarded

\* A step of a thread that holds no bytes, before and after.
LEMMA HoldsNothing ==
    ASSUME IngestConstants, IngestInv, NEW c \in Conn, NEW t \in ThreadForm, Tidy(t),
           thread' = [thread EXCEPT ![c] = t],
           thread[c].at \notin {"gone", "shed", "reading", "submitting"},
           t.at \notin {"gone", "shed", "reading", "submitting"},
           UNCHANGED <<live, node, gate, inflight>>, Ledger'
    PROVE  IngestInv'
<1>1. /\ inflight \in Nat /\ inflight <= MaxInflight /\ thread[c].held = 0 /\ t.held = 0
  BY CountersAreNumbers DEF Tidy
<1>2. inflight' = inflight + t.held - thread[c].held /\ inflight' <= MaxInflight
  BY <1>1
<1>3. QED
  BY <1>2, KeepsPlace

\* A thread ends, and what it held goes back.
LEMMA GivesPlace ==
    ASSUME IngestConstants, IngestInv, NEW c \in Conn,
           thread' = [thread EXCEPT ![c] = Gone], thread[c].at # "gone",
           UNCHANGED <<node, gate>>, live' = live - 1,
           inflight' = inflight - thread[c].held, Ledger'
    PROVE  IngestInv'
<1>1. Gone \in ThreadForm /\ Gone.at = "gone" /\ Gone.held = 0 /\ Tidy(Gone)
  BY DEF Gone, ThreadForm, Tidy
<1>2. /\ live \in Nat /\ inflight \in Nat /\ inflight <= MaxInflight
      /\ thread[c].held \in Nat /\ MaxInflight \in Nat
  BY CountersAreNumbers DEF IngestConstants
<1>3. inflight' = inflight + Gone.held - thread[c].held /\ inflight' <= MaxInflight
  BY <1>1, <1>2
<1>4. live' = live + (IF Gone.at = "gone" THEN 0 ELSE 1) - (IF thread[c].at = "gone" THEN 0 ELSE 1)
  BY <1>1, <1>2
<1>5. ThreadsTidy' /\ CountersAreHeld' /\ LimitsHold'
  BY <1>1, <1>3, <1>4, ThreadMoves DEF IngestInv
<1>6. QED
  BY <1>5 DEF IngestInv, Guarded, OpenPortIsGuarded

\* No thread moves.
LEMMA ThreadsStay ==
    ASSUME IngestInv, UNCHANGED <<thread, live, inflight>>, Ledger', Guarded'
    PROVE  IngestInv'
<1>1. ThreadsTidy'
  BY DEF IngestInv, ThreadsTidy, Tidy, Truthful, Spans, SaysEmpty
<1>2. CountersAreHeld' /\ LimitsHold'
  BY DEF IngestInv, CountersAreHeld, LimitsHold, HoldsPlace, MapThenSumSet, MapThenFoldSet
<1>3. QED
  BY <1>1, <1>2 DEF IngestInv

\* The books of the source depend on the source, the drain loop and the plane only.
LEMMA LedgerStays ==
    ASSUME IngestInv, UNCHANGED <<otlp, drain, written>>
    PROVE  Ledger'
BY DEF IngestInv, Ledger, QueueIsBounded, AnomalyTotal

\* Whether every port has a gate depends on the process and the gate only.
LEMMA GuardStays ==
    ASSUME IngestInv, UNCHANGED <<node, gate>>
    PROVE  Guarded'
BY DEF IngestInv, Guarded, OpenPortIsGuarded

\* A server nobody is connected to.
Deserted == thread = [c \in Conn |-> Gone] /\ live = 0 /\ inflight = 0

\* With no connection nothing is held.
LEMMA DesertedServer ==
    ASSUME IngestConstants
    PROVE  Deserted => ThreadsTidy /\ CountersAreHeld /\ LimitsHold
<1> SUFFICES ASSUME Deserted PROVE ThreadsTidy /\ CountersAreHeld /\ LimitsHold
  OBVIOUS
<1>1. \A c \in Conn : thread[c] = Gone
  BY DEF Deserted
<1>2. Gone \in ThreadForm /\ Tidy(Gone) /\ Gone.at = "gone" /\ Gone.held = 0
  BY DEF Gone, ThreadForm, Tidy
<1>3. ThreadsTidy
  BY <1>1, <1>2 DEF ThreadsTidy, Deserted
<1>4. CountersAreHeld
  <2>1. ASSUME NEW a, a = thread
        PROVE  SumsOf(a)[Conn] = 0
    <3>1. \A c \in Conn : a[c].held = 0
      BY <1>1, <1>2, <2>1
    <3>2. QED
      BY <3>1, SumOfNothing DEF IngestConstants
  <2>2. SumsOf(thread)[Conn] = 0
    BY <2>1
  <2>3. {c \in Conn : HoldsPlace(c)} = {}
    BY <1>1, <1>2 DEF HoldsPlace
  <2>4. live = Cardinality({c \in Conn : HoldsPlace(c)})
    BY <2>3, FS_EmptySet DEF Deserted
  <2>5. inflight = SumsOf(thread)[Conn]
    BY <2>2 DEF Deserted
  <2>6. inflight = MapThenSumSet(LAMBDA c : thread[c].held, Conn)
    BY <2>5 DEF MapThenSumSet, MapThenFoldSet, SumsOf, Sums, SumStep, Chosen
  <2>7. QED
    BY <2>4, <2>6 DEF CountersAreHeld
<1>5. LimitsHold
  <2>1. {c \in Conn : HoldsPlace(c) /\ thread[c].at # "shed"} = {}
    BY <1>1, <1>2 DEF HoldsPlace
  <2>2. QED
    BY <2>1, FS_EmptySet DEF LimitsHold, Deserted, IngestConstants
<1>6. QED
  BY <1>3, <1>4, <1>5

\* A source that has seen nothing.
Unused == otlp \in {NewSource(b) : b \in BOOLEAN} /\ drain = Asleep /\ written = 0

\* A source nothing went through has balanced books.
LEMMA UnusedSource ==
    ASSUME IngestConstants
    PROVE  Unused => Ledger
BY BatchesFit DEF Unused, Ledger, NewSource, Asleep, SourceForm, AnomalyTotal, QueueIsBounded,
                  IngestConstants

\* Before the first start the invariant holds.
LEMMA InitIngest ==
    ASSUME IngestConstants
    PROVE  IngestInit => IngestInv
<1> SUFFICES ASSUME IngestInit PROVE IngestInv
  OBVIOUS
<1>1. Deserted /\ Unused
  BY DEF IngestInit, Deserted, Unused
<1>2. Guarded
  BY DEF Guarded, OpenPortIsGuarded, IngestInit
<1>3. QED
  BY <1>1, <1>2, DesertedServer, UnusedSource DEF IngestInv

-----------------------------------------------------------------------------
(* The threads.                                                            *)

\* The fields of a thread, and a thread made of fields.
LEMMA ThreadFields ==
    ASSUME NEW t \in ThreadForm
    PROVE  /\ t = [at |-> t.at, served |-> t.served, req |-> t.req, bound |-> t.bound,
                   held |-> t.held, status |-> t.status, queued |-> t.queued]
           /\ t.served \in Nat /\ t.req \in Requests \cup {NoRequest} /\ t.bound \in BOOLEAN
           /\ t.held \in Nat /\ t.status \in Nat /\ t.queued \in Nat
BY DEF ThreadForm

\* A thread on its way out holds no bytes.
LEMMA LeavingForm ==
    ASSUME NEW c \in Conn, thread[c] \in ThreadForm
    PROVE  /\ Leaving(c) \in ThreadForm /\ Tidy(Leaving(c))
           /\ Leaving(c).at = "closing" /\ Leaving(c).held = 0
<1> DEFINE t == thread[c]
           a == [t EXCEPT !.at = "closing"]
           b == [a EXCEPT !.held = 0]
<1>1. Leaving(c) = [b EXCEPT !.req = NoRequest]
  BY DEF Leaving
<1>2. a \in ThreadForm /\ a.at = "closing"
  BY DEF ThreadForm
<1> HIDE DEF a
<1>3. b \in ThreadForm /\ b.at = "closing" /\ b.held = 0
  BY <1>2 DEF ThreadForm
<1> HIDE DEF b
<1>4. Leaving(c) \in ThreadForm /\ Leaving(c).at = "closing" /\ Leaving(c).held = 0
  BY <1>1, <1>3 DEF ThreadForm
<1>5. QED
  BY <1>4 DEF Tidy

\* A thread that answers holds no bytes and knows its status.
LEMMA AnsweringForm ==
    ASSUME NEW c \in Conn, thread[c] \in ThreadForm, NEW n \in Nat
    PROVE  LET t == Answering(c, n)
           IN /\ t \in ThreadForm /\ t.at = "answering" /\ t.held = 0 /\ t.status = n
              /\ t.req = thread[c].req /\ t.queued = thread[c].queued
<1> DEFINE t == thread[c]
           a == [t EXCEPT !.at = "answering"]
           b == [a EXCEPT !.status = n]
           d == Answering(c, n)
<1>1. d = [b EXCEPT !.held = 0]
  BY DEF Answering
<1>2. a \in ThreadForm /\ a.at = "answering" /\ a.req = t.req /\ a.queued = t.queued
  BY DEF ThreadForm
<1> HIDE DEF a
<1>3. /\ b \in ThreadForm /\ b.at = "answering" /\ b.req = t.req /\ b.queued = t.queued
      /\ b.status = n
  BY <1>2 DEF ThreadForm
<1> HIDE DEF b
<1>4. /\ d \in ThreadForm /\ d.at = "answering" /\ d.req = t.req /\ d.queued = t.queued
      /\ d.status = n /\ d.held = 0
  BY <1>1, <1>3 DEF ThreadForm
<1>5. QED
  BY <1>4

\* Setting what a thread queued leaves its other fields.
LEMMA QueuedForm ==
    ASSUME NEW t \in ThreadForm, NEW q \in Nat
    PROVE  LET u == [t EXCEPT !.queued = q]
           IN /\ u \in ThreadForm /\ u.at = t.at /\ u.held = t.held /\ u.status = t.status
              /\ u.req = t.req /\ u.queued = q
BY DEF ThreadForm

\* The accept loop counts a connection first, and then serves it or turns it away.
LEMMA AcceptIngest ==
    ASSUME IngestConstants, IngestInv, NEW c \in Conn, AcceptConnection(c)
    PROVE  IngestInv'
<1> DEFINE a == IF live + 1 > MaxConnections THEN "shed" ELSE "idle"
           t == [thread[c] EXCEPT !.at = a]
<1>1. /\ live \in Nat /\ inflight \in Nat /\ inflight <= MaxInflight /\ MaxConnections \in Nat
      /\ thread[c] \in ThreadForm /\ Tidy(thread[c])
  BY CountersAreNumbers DEF IngestConstants
<1>2. /\ thread[c].at = "gone" /\ live' = live + 1 /\ UNCHANGED <<node, gate, inflight, store>>
      /\ thread' = [thread EXCEPT ![c].at = a]
  BY DEF AcceptConnection
<1>3. a \in {"shed", "idle"} /\ (a = "idle" => live + 1 <= MaxConnections)
  BY <1>1
<1> HIDE DEF a
<1>4. thread' = [thread EXCEPT ![c] = t]
  BY <1>2
<1>5. t \in ThreadForm /\ t.at = a /\ t.held = thread[c].held /\ t.queued = thread[c].queued
  BY <1>1, <1>3 DEF ThreadForm
<1> HIDE DEF t
<1>6. thread[c].held = 0 /\ thread[c].queued = 0
  BY <1>1, <1>2 DEF Tidy
<1>7. Tidy(t)
  BY <1>3, <1>5, <1>6 DEF Tidy
<1>8. inflight' = inflight + t.held - thread[c].held /\ inflight' <= MaxInflight
  BY <1>1, <1>2, <1>5, <1>6
<1>9. live' = live + (IF t.at = "gone" THEN 0 ELSE 1) - (IF thread[c].at = "gone" THEN 0 ELSE 1)
  BY <1>1, <1>2, <1>3, <1>5
<1>10. t.at \notin {"gone", "shed"} => live' <= MaxConnections
  BY <1>2, <1>3, <1>5
<1>11. ThreadsTidy' /\ CountersAreHeld' /\ LimitsHold'
  BY <1>4, <1>5, <1>7, <1>8, <1>9, <1>10, ThreadMoves DEF IngestInv
<1>12. QED
  BY <1>2, <1>11, LedgerStays, GuardStays DEF IngestInv, store

\* A connection turned away, or closed, gives its place back.
LEMMA ShedIngest ==
    ASSUME IngestConstants, IngestInv, NEW c \in Conn, Shed(c) \/ Close(c)
    PROVE  IngestInv'
<1>1. /\ thread[c].at \in {"shed", "closing"} /\ live' = live - 1
      /\ thread' = [thread EXCEPT ![c] = Gone] /\ UNCHANGED <<inflight, serving, store>>
  BY DEF Shed, Close
<1>2. inflight \in Nat /\ thread[c].held = 0
  BY <1>1, CountersAreNumbers DEF Tidy
<1>3. inflight' = inflight - thread[c].held
  BY <1>1, <1>2
<1>4. Ledger'
  BY <1>1, LedgerStays DEF store
<1>5. QED
  BY <1>1, <1>3, <1>4, GivesPlace DEF serving

\* Reading the head takes no bytes from the budget.
LEMMA ReadHeadIngest ==
    ASSUME IngestConstants, IngestInv, NEW c \in Conn, ReadHead(c)
    PROVE  IngestInv'
<1>1. PICK r \in Requests :
         thread' = [thread EXCEPT ![c].at = "inspecting", ![c].req = r]
  BY DEF ReadHead
<1>2. /\ thread[c].at = "idle" /\ thread[c] \in ThreadForm /\ Tidy(thread[c])
      /\ thread \in [Conn -> ThreadForm]
      /\ UNCHANGED <<live, inflight, serving, store>>
  BY CountersAreNumbers DEF ReadHead, IngestInv, ThreadsTidy
<1> DEFINE u == [thread[c] EXCEPT !.at = "inspecting"]
           t == [u EXCEPT !.req = r]
<1>3. thread' = [thread EXCEPT ![c] = t]
  BY <1>1, <1>2
<1>4. u \in ThreadForm /\ u.at = "inspecting" /\ u.held = thread[c].held /\ u.queued = thread[c].queued
  BY <1>2 DEF ThreadForm
<1> HIDE DEF u
<1>5. /\ t \in ThreadForm /\ t.at = "inspecting" /\ t.req \in Requests
      /\ t.held = thread[c].held /\ t.queued = thread[c].queued
  BY <1>4 DEF ThreadForm
<1> HIDE DEF t
<1>6. Tidy(t)
  BY <1>2, <1>5 DEF Tidy
<1>7. QED
  BY <1>2, <1>3, <1>5, <1>6, HoldsNothing, LedgerStays DEF serving, store

\* Every way out of the loop without a body in hand.
LEMMA LeaveIngest ==
    ASSUME IngestConstants, IngestInv, NEW c \in Conn,
           LeaveLoop(c) \/ RefuseHead(c) \/ WriteFails(c)
    PROVE  IngestInv'
<1>1. /\ thread[c].at \in {"idle", "answering"} /\ thread' = [thread EXCEPT ![c] = Leaving(c)]
      /\ UNCHANGED <<live, inflight, serving, store>>
  BY DEF LeaveLoop, RefuseHead, WriteFails
<1>2. /\ Leaving(c) \in ThreadForm /\ Tidy(Leaving(c)) /\ Leaving(c).at = "closing"
  BY CountersAreNumbers, LeavingForm
<1>3. QED
  BY <1>1, <1>2, HoldsNothing, LedgerStays DEF serving, store

\* Bytes are taken from the budget by the thread that holds them, within the limit.
LEMMA ReserveIngest ==
    ASSUME IngestConstants, IngestInv, NEW c \in Conn, Reserve(c)
    PROVE  IngestInv'
<1> DEFINE want == Want(thread[c].req)
<1>1. /\ thread[c].at = "reserving" /\ thread[c] \in ThreadForm /\ Tidy(thread[c])
      /\ thread \in [Conn -> ThreadForm] /\ inflight \in Nat /\ MaxInflight \in Nat
      /\ UNCHANGED <<live, serving, store>>
  BY CountersAreNumbers DEF Reserve, IngestInv, ThreadsTidy, IngestConstants
<1>2. Ledger'
  BY <1>1, LedgerStays DEF store
<1>3. want \in Nat
  <2>1. thread[c].req \in Requests
    BY <1>1 DEF Tidy
  <2>2. thread[c].req \in RequestForm /\ MaxBody \in Nat
    BY <2>1 DEF IngestConstants
  <2>3. thread[c].req.declared \in Nat \/ thread[c].req.declared = NoLength
    BY <2>2 DEF RequestForm
  <2>4. SaysEmpty(thread[c].req) \/ thread[c].req.declared # NoLength
    BY <1>1 DEF Tidy
  <2>5. QED
    BY <2>2, <2>3, <2>4 DEF Want
<1>4. thread[c].held = 0 /\ thread[c].queued = 0 /\ thread[c].req \in Requests
  BY <1>1 DEF Tidy
<1>5. CASE inflight + want <= MaxInflight
  <2> HIDE DEF want
  <2>1. /\ inflight' = inflight + want
        /\ thread' = [thread EXCEPT ![c].at = "reading", ![c].held = want]
    BY <1>5 DEF Reserve, want
  <2> DEFINE u == [thread[c] EXCEPT !.at = "reading"]
             t == [u EXCEPT !.held = want]
  <2>2. thread' = [thread EXCEPT ![c] = t]
    BY <1>1, <2>1
  <2>3. u \in ThreadForm /\ u.at = "reading" /\ u.req = thread[c].req /\ u.queued = thread[c].queued
    BY <1>1 DEF ThreadForm
  <2> HIDE DEF u
  <2>4. /\ t \in ThreadForm /\ t.at = "reading" /\ t.req = thread[c].req /\ t.held = want
        /\ t.queued = thread[c].queued
    BY <1>3, <2>3 DEF ThreadForm
  <2> HIDE DEF t
  <2>5. Tidy(t)
    BY <1>4, <2>4 DEF Tidy
  <2>6. inflight' = inflight + t.held - thread[c].held /\ inflight' <= MaxInflight
    BY <1>1, <1>3, <1>4, <1>5, <2>1, <2>4
  <2>7. QED
    BY <1>1, <1>2, <2>2, <2>4, <2>5, <2>6, KeepsPlace DEF serving
<1>6. CASE ~ (inflight + want <= MaxInflight)
  <2>1. thread' = [thread EXCEPT ![c] = Leaving(c)] /\ UNCHANGED inflight
    BY <1>6 DEF Reserve
  <2>2. /\ Leaving(c) \in ThreadForm /\ Tidy(Leaving(c)) /\ Leaving(c).at = "closing"
    BY <1>1, LeavingForm
  <2>3. QED
    BY <1>1, <1>2, <2>1, <2>2, HoldsNothing DEF serving
<1>7. QED
  BY <1>5, <1>6

\* A body that came keeps its bytes reserved; one that failed to come gives them back.
LEMMA BodyIngest ==
    ASSUME IngestConstants, IngestInv, NEW c \in Conn, ReadBody(c) \/ BodyFails(c)
    PROVE  IngestInv'
<1>1. /\ thread[c].at = "reading" /\ thread[c] \in ThreadForm /\ Tidy(thread[c])
      /\ thread \in [Conn -> ThreadForm] /\ inflight \in Nat /\ inflight <= MaxInflight
      /\ MaxInflight \in Nat /\ thread[c].held \in Nat /\ UNCHANGED <<live, serving, store>>
  BY CountersAreNumbers DEF ReadBody, BodyFails, IngestInv, ThreadsTidy, IngestConstants
<1>2. Ledger'
  BY <1>1, LedgerStays DEF store
<1>3. CASE ReadBody(c)
  <2> DEFINE t == [thread[c] EXCEPT !.at = "submitting"]
  <2>1. thread' = [thread EXCEPT ![c] = t] /\ UNCHANGED inflight
    BY <1>1, <1>3 DEF ReadBody
  <2>2. /\ t \in ThreadForm /\ t.at = "submitting" /\ t.req = thread[c].req
        /\ t.held = thread[c].held /\ t.queued = thread[c].queued
    BY <1>1 DEF ThreadForm
  <2> HIDE DEF t
  <2>3. Tidy(t)
    BY <1>1, <2>2 DEF Tidy
  <2>4. inflight' = inflight + t.held - thread[c].held /\ inflight' <= MaxInflight
    BY <1>1, <2>1, <2>2
  <2>5. QED
    BY <1>1, <1>2, <2>1, <2>2, <2>3, <2>4, KeepsPlace DEF serving
<1>4. CASE BodyFails(c)
  <2>1. thread' = [thread EXCEPT ![c] = Leaving(c)] /\ inflight' = inflight - thread[c].held
    BY <1>4 DEF BodyFails, Release
  <2>2. /\ Leaving(c) \in ThreadForm /\ Tidy(Leaving(c)) /\ Leaving(c).at = "closing"
        /\ Leaving(c).held = 0
    BY <1>1, LeavingForm
  <2>3. inflight' = inflight + Leaving(c).held - thread[c].held /\ inflight' <= MaxInflight
    BY <1>1, <2>1, <2>2
  <2>4. QED
    BY <1>1, <1>2, <2>1, <2>2, <2>3, KeepsPlace DEF serving
<1>5. QED
  BY <1>3, <1>4

\* Writing the answer changes no budget and no book.
LEMMA WriteIngest ==
    ASSUME IngestConstants, IngestInv, NEW c \in Conn, WriteAnswer(c)
    PROVE  IngestInv'
<1>1. /\ thread[c].at = "answering" /\ thread[c] \in ThreadForm /\ thread[c].served \in Nat
      /\ UNCHANGED <<live, inflight, serving, store>>
  BY CountersAreNumbers, ThreadFields DEF WriteAnswer
<1> DEFINE u == [Gone EXCEPT !.at = "idle"]
           t == [u EXCEPT !.served = thread[c].served + 1]
<1>2. \/ thread' = [thread EXCEPT ![c] = Leaving(c)]
      \/ thread' = [thread EXCEPT ![c] = t]
  BY DEF WriteAnswer
<1>3. /\ Leaving(c) \in ThreadForm /\ Tidy(Leaving(c)) /\ Leaving(c).at = "closing"
  BY <1>1, LeavingForm
<1>4. u \in ThreadForm /\ u.at = "idle" /\ u.held = 0 /\ u.queued = 0
  BY DEF Gone, ThreadForm
<1> HIDE DEF u
<1>5. t \in ThreadForm /\ t.at = "idle" /\ t.held = 0 /\ t.queued = 0
  BY <1>1, <1>4 DEF ThreadForm
<1> HIDE DEF t
<1>6. Tidy(t)
  BY <1>5 DEF Tidy
<1>7. QED
  BY <1>1, <1>2, <1>3, <1>5, <1>6, HoldsNothing, LedgerStays DEF serving, store

\* A panic under the lock gives place and bytes back as the guards are dropped.
LEMMA PanicIngest ==
    ASSUME IngestConstants, IngestInv, NEW c \in Conn, PanicUnderLock(c)
    PROVE  IngestInv'
<1>1. /\ thread[c].at = "submitting" /\ thread' = [thread EXCEPT ![c] = Gone]
      /\ inflight' = inflight - thread[c].held /\ live' = live - 1
      /\ UNCHANGED <<serving, otlp, drain, written>>
  BY DEF PanicUnderLock, Release
<1>2. QED
  BY <1>1, GivesPlace, LedgerStays DEF serving

\* inspect answers nothing that a batch in the queue would give the lie to.
LEMMA InspectIngest ==
    ASSUME IngestConstants, IngestInv, NEW c \in Conn, Inspect(c)
    PROVE  IngestInv'
<1> DEFINE r == thread[c].req
<1>1. /\ thread[c].at = "inspecting" /\ thread[c] \in ThreadForm /\ Tidy(thread[c])
      /\ UNCHANGED <<live, inflight, serving, otlp, drain, written>>
  BY CountersAreNumbers DEF Inspect
<1>2. r \in Requests /\ thread[c].queued = 0 /\ thread[c].held = 0
  BY <1>1 DEF Tidy
<1>3. r \in RequestForm
  BY <1>2 DEF IngestConstants
<1>4. PICK g \in GateAnswers :
        LET status == IF Routed(r) # 0 THEN Routed(r)
                      ELSE IF g.status # 0 THEN g.status ELSE Described(r)
        IN thread' = [thread EXCEPT ![c] =
                        IF status = 0
                        THEN [thread[c] EXCEPT !.at = "reserving", !.bound = g.bound]
                        ELSE Answering(c, status)]
  BY DEF Inspect
<1> DEFINE status == IF Routed(r) # 0 THEN Routed(r)
                     ELSE IF g.status # 0 THEN g.status ELSE Described(r)
<1>5. g.bound \in BOOLEAN /\ g.status \in {0, 401, 403}
  <2>1. gate \in {"none", "secret", "agent"}
    BY DEF IngestInv, Guarded
  <2>2. \/ g = [status |-> 0, bound |-> FALSE] \/ g = [status |-> 401, bound |-> FALSE]
        \/ g = [status |-> 0, bound |-> TRUE] \/ g = [status |-> 403, bound |-> FALSE]
    <3>1. CASE gate = "none"
      BY <3>1 DEF GateAnswers
    <3>2. CASE gate = "secret"
      BY <3>2 DEF GateAnswers
    <3>3. CASE gate = "agent"
      BY <3>3 DEF GateAnswers
    <3>4. QED
      BY <2>1, <3>1, <3>2, <3>3
  <2>3. g.status \in {0, 401, 403}
    BY <2>2
  <2>4. g.bound = TRUE \/ g.bound = FALSE
    BY <2>2
  <2>5. QED
    BY <2>3, <2>4
<1>6. Routed(r) \in {0, 404, 405, 503, 299}
  BY <1>3 DEF Routed, Readiness, RequestForm
<1>7. /\ Described(r) \in {0, 411, 413, 415, 503}
      /\ Described(r) = 0 => SaysEmpty(r) \/ r.declared # NoLength
  BY DEF Described
<1>8. status \in {0, 299, 401, 403, 404, 405, 411, 413, 415, 503}
  BY <1>5, <1>6, <1>7
<1>9. CASE status = 0
  <2> DEFINE u == [thread[c] EXCEPT !.at = "reserving"]
             t == [u EXCEPT !.bound = g.bound]
  <2>1. thread' = [thread EXCEPT ![c] = t]
    BY <1>4, <1>9
  <2>2. /\ u \in ThreadForm /\ u.at = "reserving" /\ u.req = r /\ u.held = thread[c].held
        /\ u.queued = thread[c].queued
    BY <1>1 DEF ThreadForm
  <2> HIDE DEF u
  <2>3. /\ t \in ThreadForm /\ t.at = "reserving" /\ t.req = r /\ t.held = thread[c].held
        /\ t.queued = thread[c].queued
    BY <1>5, <2>2 DEF ThreadForm
  <2> HIDE DEF t
  <2>4. SaysEmpty(r) \/ r.declared # NoLength
    BY <1>7, <1>9
  <2>5. Tidy(t)
    BY <1>2, <2>3, <2>4 DEF Tidy
  <2>6. QED
    BY <1>1, <2>1, <2>3, <2>5, HoldsNothing, LedgerStays DEF serving
<1>10. CASE status # 0
  <2> HIDE DEF status
  <2> DEFINE t == Answering(c, status)
  <2>1. thread' = [thread EXCEPT ![c] = t]
    BY <1>4, <1>10 DEF status
  <2>2. status \in Nat
    BY <1>8
  <2>3. /\ t \in ThreadForm /\ t.at = "answering" /\ t.held = 0 /\ t.status = status
        /\ t.req = r /\ t.queued = thread[c].queued
    BY <1>1, <2>2, AnsweringForm
  <2> HIDE DEF t
  <2>4. t.status # 200 /\ t.queued = 0
    BY <1>2, <1>8, <2>3
  <2>5. Tidy(t)
    BY <1>2, <2>3, <2>4 DEF Tidy, Truthful
  <2>6. QED
    BY <1>1, <2>1, <2>3, <2>5, HoldsNothing, LedgerStays DEF serving
<1>11. QED
  BY <1>9, <1>10

\* accept_as: what a batch does to the source.
LEMMA AcceptAsCounts ==
    ASSUME IngestConstants, Ledger, NEW r \in Requests, NEW b \in BOOLEAN,
           otlp.pending < MaxPending
    PROVE  LET after == AcceptAs(r, b)
               q == after.pending - otlp.pending
           IN /\ after \in SourceForm /\ q \in Nat
              /\ after.reported = otlp.reported /\ after.canName = otlp.canName
              /\ AnomalyTotal(otlp) <= AnomalyTotal(after)
              /\ after.pending < MaxPending + LargestBatch
              /\ AnswerFor(otlp, after) \in {200, Partial, 400}
              /\ AnswerFor(otlp, after) = 400 => q = 0
              /\ AnswerFor(otlp, after) = 200 =>
                    /\ q = Spans(r).mine + Spans(r).other
                    /\ Spans(r).unmapped + Spans(r).dropped = 0
<1> DEFINE after == AcceptAs(r, b)
           n == Spans(r)
           no == NotTheCaller(r, b)
           more == Mapped(r, b) + Notes(r, b)
<1>1. /\ otlp \in SourceForm /\ MaxPending \in Nat /\ LargestBatch \in Nat
      /\ r.spans \in [mine : Nat, other : Nat, unmapped : Nat, dropped : Nat, blemishes : Nat,
                    garbled : Nat]
      /\ r.spans.mine + r.spans.other + 1 <= LargestBatch
  BY BatchesFit DEF Ledger, IngestConstants, RequestForm
<1>2. n \in [mine : Nat, other : Nat, unmapped : Nat, dropped : Nat, blemishes : Nat,
                    garbled : Nat]
  BY <1>1 DEF Spans
<1>3. n.mine + n.other + 1 <= LargestBatch
  <2>1. CASE SaysEmpty(r)
    <3>1. n.mine = 0 /\ n.other = 0
      BY <2>1 DEF Spans
    <3>2. LargestBatch \in Nat \ {0}
      BY BatchesFit
    <3>3. QED
      BY <3>1, <3>2
  <2>2. CASE ~ SaysEmpty(r)
    BY <1>1, <2>2 DEF Spans
  <2>3. QED
    BY <2>1, <2>2
<1> HIDE DEF n
<1>4. /\ n.mine \in Nat /\ n.other \in Nat /\ n.unmapped \in Nat /\ n.dropped \in Nat
      /\ n.blemishes \in Nat /\ n.garbled \in Nat
  BY <1>2
<1>5. /\ no \in Nat /\ no \in {0, n.other} /\ more \in Nat /\ more <= n.mine + n.other + 1
      /\ no = 0 => more = n.mine + n.other
  BY <1>4 DEF NotTheCaller, Mapped, Notes, n
<1> HIDE DEF no, more
<1>6. CASE ~ SaysEmpty(r) /\ ~ r.decodes
  <2>1. after = [otlp EXCEPT !.malformed = @ + 1]
    BY <1>6 DEF AcceptAs
  <2> HIDE DEF after
  <2>2. /\ after \in SourceForm /\ after.pending = otlp.pending /\ after.lost = otlp.lost
        /\ after.dropped = otlp.dropped /\ after.malformed = otlp.malformed + 1
        /\ after.blemishes = otlp.blemishes /\ after.reported = otlp.reported
        /\ after.canName = otlp.canName
    BY <1>1, <2>1 DEF SourceForm
  <2>3. AnswerFor(otlp, after) = 400
    BY <1>1, <2>2 DEF AnswerFor, SourceForm
  <2>4. AnomalyTotal(otlp) <= AnomalyTotal(after)
    BY <1>1, <2>2 DEF AnomalyTotal, SourceForm
  <2>5. after.pending - otlp.pending = 0 /\ after.pending < MaxPending + LargestBatch
    BY <1>1, <2>2 DEF SourceForm
  <2>6. QED
    BY <2>2, <2>3, <2>4, <2>5 DEF after
<1>7. CASE ~ (~ SaysEmpty(r) /\ ~ r.decodes)
  <2> DEFINE a1 == [otlp EXCEPT !.pending = otlp.pending + Mapped(r, b) + Notes(r, b)]
             a2 == [a1 EXCEPT !.lost = otlp.lost + n.unmapped + no]
             a3 == [a2 EXCEPT !.dropped = otlp.dropped + n.dropped]
  <2>1. /\ otlp.pending \in Nat /\ otlp.lost \in Nat /\ otlp.dropped \in Nat
        /\ otlp.malformed \in Nat /\ otlp.blemishes \in Nat /\ otlp.reported \in Nat
        /\ otlp.garbled \in Nat /\ otlp.canName \in BOOLEAN
        /\ Mapped(r, b) \in Nat /\ Notes(r, b) \in Nat
    BY <1>1, <1>4 DEF SourceForm, Mapped, Notes, NotTheCaller, n
  <2>2. after = [pending |-> otlp.pending + Mapped(r, b) + Notes(r, b),
                 lost |-> otlp.lost + n.unmapped + no, dropped |-> otlp.dropped + n.dropped,
                 malformed |-> otlp.malformed, blemishes |-> otlp.blemishes + n.blemishes,
                 garbled |-> otlp.garbled + n.garbled, reported |-> otlp.reported,
                 canName |-> otlp.canName]
    BY <1>1, <1>7 DEF AcceptAs, SourceForm, n, no
  <2> HIDE DEF after
  <2>3. otlp.pending + Mapped(r, b) + Notes(r, b) = otlp.pending + more
    BY <2>1 DEF more
  <2>4. /\ after \in SourceForm /\ after.pending = otlp.pending + more
        /\ after.lost = otlp.lost + n.unmapped + no
        /\ after.dropped = otlp.dropped + n.dropped /\ after.malformed = otlp.malformed
        /\ after.blemishes = otlp.blemishes + n.blemishes
        /\ after.reported = otlp.reported /\ after.canName = otlp.canName
    BY <1>4, <1>5, <2>1, <2>2, <2>3 DEF SourceForm
  <2>5. /\ after.pending - otlp.pending = more
        /\ after.lost - otlp.lost = n.unmapped + no /\ after.dropped - otlp.dropped = n.dropped
    BY <1>4, <1>5, <2>1, <2>4
  <2>6. AnswerFor(otlp, after) = IF (n.unmapped + no) + n.dropped > 0 THEN Partial ELSE 200
    BY <2>1, <2>4, <2>5 DEF AnswerFor
  <2>7. AnswerFor(otlp, after) \in {200, Partial} /\ Partial = 206
    BY <2>6 DEF Partial
  <2>8. ASSUME AnswerFor(otlp, after) = 200
        PROVE  no = 0 /\ n.unmapped + n.dropped = 0
    BY <1>4, <1>5, <2>6, <2>7, <2>8
  <2>9. AnomalyTotal(otlp) <= AnomalyTotal(after)
    BY <1>4, <1>5, <2>1, <2>4 DEF AnomalyTotal
  <2>10. after.pending < MaxPending + LargestBatch
    BY <1>1, <1>3, <1>4, <1>5, <2>1, <2>4
  <2>11. QED
    BY <1>5, <2>4, <2>5, <2>7, <2>8, <2>9, <2>10 DEF after, n
<1>8. QED
  BY <1>6, <1>7

\* submit: the decisive look, the batch, the answer and the budget in one step.
LEMMA SubmitIngest ==
    ASSUME IngestConstants, IngestInv, NEW c \in Conn, Submit(c)
    PROVE  IngestInv'
<1> DEFINE r == thread[c].req
           after == AcceptAs(r, thread[c].bound)
           taken == Inflated(r) = 0 /\ lock = "sound" /\ otlp.pending < MaxPending
           status == IF Inflated(r) # 0 THEN Inflated(r)
                     ELSE IF ~taken THEN 503 ELSE AnswerFor(otlp, after)
           q == IF taken THEN after.pending - otlp.pending ELSE 0
           t == [Answering(c, status) EXCEPT !.queued = q]
<1>1. /\ thread[c].at = "submitting" /\ thread' = [thread EXCEPT ![c] = t]
      /\ otlp' = IF taken THEN after ELSE otlp
      /\ inflight' = inflight - thread[c].held /\ UNCHANGED <<live, serving, drain, written>>
  BY DEF Submit, Release
<1>2. /\ thread[c] \in ThreadForm /\ Tidy(thread[c]) /\ thread[c].held \in Nat
      /\ inflight \in Nat /\ inflight <= MaxInflight /\ MaxInflight \in Nat
  BY CountersAreNumbers DEF IngestConstants
<1>3. r \in Requests /\ thread[c].bound \in BOOLEAN
  BY <1>1, <1>2, ThreadFields DEF Tidy
<1>4. r \in RequestForm /\ Ledger
  BY <1>3 DEF IngestConstants, IngestInv
<1>5. Inflated(r) \in {0, 400, 413}
  BY <1>4 DEF Inflated, RequestForm
<1>6. ASSUME taken
      PROVE  /\ after \in SourceForm /\ after.pending - otlp.pending \in Nat
             /\ after.reported = otlp.reported /\ after.canName = otlp.canName
             /\ AnomalyTotal(otlp) <= AnomalyTotal(after)
             /\ after.pending < MaxPending + LargestBatch
             /\ AnswerFor(otlp, after) \in {200, Partial, 400}
             /\ AnswerFor(otlp, after) = 400 => after.pending - otlp.pending = 0
             /\ AnswerFor(otlp, after) = 200 =>
                   /\ after.pending - otlp.pending = Spans(r).mine + Spans(r).other
                   /\ Spans(r).unmapped + Spans(r).dropped = 0
  BY <1>3, <1>4, <1>6, AcceptAsCounts
<1>7. Ledger'
  <2>1. CASE taken
    <3> HIDE DEF after, taken
    <3>1. otlp' = after
      BY <1>1, <2>1
    <3>2. QED
      BY <1>1, <1>4, <1>6, <2>1, <3>1 DEF Ledger, QueueIsBounded, AnomalyTotal, SourceForm
  <2>2. CASE ~ taken
    <3> HIDE DEF after, taken
    <3>1. otlp' = otlp
      BY <1>1, <2>2
    <3>2. QED
      BY <1>1, <3>1, LedgerStays
  <2>3. QED
    BY <2>1, <2>2
<1>8. /\ status \in {200, Partial, 400, 413, 503} /\ q \in Nat
      /\ status = 200 => taken /\ AnswerFor(otlp, after) = 200
      /\ q > 0 => taken /\ status = AnswerFor(otlp, after) /\ status # 400
  <2>1. CASE taken
    <3>1. status = AnswerFor(otlp, after) /\ q = after.pending - otlp.pending
      BY <2>1
    <3> HIDE DEF after, taken, status, q
    <3>2. QED
      BY <1>6, <2>1, <3>1
  <2>2. CASE ~ taken
    <3>1. q = 0 /\ status \in {400, 413, 503}
      BY <1>5, <2>2
    <3> HIDE DEF after, taken, status, q
    <3>2. QED
      BY <3>1
  <2>3. QED
    BY <2>1, <2>2
<1> HIDE DEF after, taken, status, q
<1>9. status \in Nat
  BY <1>8 DEF Partial
<1>10. /\ t \in ThreadForm /\ t.at = "answering" /\ t.held = 0 /\ t.status = status
       /\ t.req = r /\ t.queued = q
  <2> DEFINE d == Answering(c, status)
  <2>1. /\ d \in ThreadForm /\ d.at = "answering" /\ d.held = 0 /\ d.status = status
        /\ d.req = r
    BY <1>2, <1>9, AnsweringForm
  <2> HIDE DEF d
  <2>2. LET u == [d EXCEPT !.queued = q]
        IN /\ u \in ThreadForm /\ u.at = d.at /\ u.held = d.held /\ u.status = d.status
           /\ u.req = d.req /\ u.queued = q
    BY <1>8, <2>1, QueuedForm
  <2>3. QED
    BY <2>1, <2>2 DEF d
<1>11. Tidy(t)
  <2> HIDE DEF t
  <2>1. Retryable(status) => q = 0
    BY <1>6, <1>8 DEF Retryable, Partial
  <2>2. q > 0 => status \in {200, Partial}
    BY <1>6, <1>8
  <2>3. ASSUME status = 200
        PROVE  q = Spans(r).mine + Spans(r).other /\ Spans(r).unmapped + Spans(r).dropped = 0
    BY <1>6, <1>8, <2>3 DEF q
  <2>4. Truthful(t)
    BY <1>10, <2>1, <2>2, <2>3 DEF Truthful
  <2>5. QED
    BY <1>3, <1>10, <2>4 DEF Tidy
<1>12. inflight' = inflight + t.held - thread[c].held /\ inflight' <= MaxInflight
  BY <1>1, <1>2, <1>10
<1>13. QED
  BY <1>1, <1>7, <1>10, <1>11, <1>12, KeepsPlace DEF serving

-----------------------------------------------------------------------------
(* The start, the drain loop and the end.                                  *)

\* A process starts, fails to start or stops with no connection counted.
LEMMA StartIngest ==
    ASSUME IngestInv, (\E secret \in BOOLEAN, flags \in {0, 2, 4} : Start(secret, flags))
                         \/ StartFails \/ Stop
    PROVE  IngestInv'
<1>1. UNCHANGED <<thread, live, inflight, otlp, drain, written>>
  BY DEF Start, StartFails, Stop, store
<1>2. Guarded'
  BY DEF Start, StartFails, Stop, IngestInv, Guarded, OpenPortIsGuarded
<1>3. QED
  BY <1>1, <1>2, LedgerStays, ThreadsStay

\* The drain loop takes units off the queue.
LEMMA PollIngest ==
    ASSUME IngestConstants, IngestInv, Poll
    PROVE  IngestInv'
<1> DEFINE take == IF otlp.pending < PollBudget THEN otlp.pending ELSE PollBudget
<1>1. /\ otlp' = [otlp EXCEPT !.pending = @ - take] /\ drain' = [drain EXCEPT !.at = "polled"]
      /\ drain.at = "asleep" /\ UNCHANGED <<serving, thread, live, inflight, written>>
  BY DEF Poll
<1>2. /\ otlp \in SourceForm /\ drain \in [at : {"asleep", "polled", "noted"}, anomalies : Nat]
      /\ PollBudget \in Nat /\ otlp.pending \in Nat /\ Ledger
      /\ MaxPending \in Nat /\ LargestBatch \in Nat
  BY BatchesFit DEF IngestInv, Ledger, SourceForm, IngestConstants
<1>3. otlp.pending - take \in Nat /\ otlp.pending - take <= otlp.pending
  BY <1>2
<1> HIDE DEF take
<1>4. /\ otlp' \in SourceForm /\ otlp'.pending <= otlp.pending
      /\ otlp'.lost = otlp.lost /\ otlp'.dropped = otlp.dropped
      /\ otlp'.malformed = otlp.malformed /\ otlp'.blemishes = otlp.blemishes
      /\ otlp'.reported = otlp.reported
  BY <1>1, <1>2, <1>3 DEF SourceForm
<1>5. /\ drain' \in [at : {"asleep", "polled", "noted"}, anomalies : Nat]
      /\ drain'.at = "polled" /\ drain'.anomalies = drain.anomalies
  BY <1>1, <1>2
<1>6. QueueIsBounded'
  <2>1. otlp'.pending \in Nat /\ otlp.pending < MaxPending + LargestBatch
    BY <1>2, <1>4 DEF Ledger, QueueIsBounded, SourceForm
  <2>2. QED
    BY <1>2, <1>4, <2>1 DEF QueueIsBounded
<1>7. AnomalyTotal(otlp') = AnomalyTotal(otlp)
  BY <1>4 DEF AnomalyTotal
<1>8. Ledger'
  <2>1. drain'.anomalies = 0
    BY <1>1, <1>2, <1>5 DEF Ledger
  <2>2. QED
    BY <1>1, <1>2, <1>4, <1>5, <1>6, <1>7, <2>1 DEF Ledger
<1>9. QED
  BY <1>1, <1>8, GuardStays, ThreadsStay DEF serving

\* Losses go from the source's books to the drain loop's.
LEMMA NoteIngest ==
    ASSUME IngestConstants, IngestInv, NoteAnomalies
    PROVE  IngestInv'
<1> DEFINE total == AnomalyTotal(otlp)
           since == total - otlp.reported
<1>1. /\ drain.at = "polled" /\ UNCHANGED <<serving, thread, live, inflight, written>>
  BY DEF NoteAnomalies
<1>2. /\ otlp \in SourceForm /\ drain \in [at : {"asleep", "polled", "noted"}, anomalies : Nat]
      /\ written \in Nat /\ drain.anomalies = 0 /\ otlp.canName \in BOOLEAN
      /\ written + drain.anomalies = (IF otlp.canName THEN otlp.reported ELSE 0)
      /\ otlp.reported <= total /\ QueueIsBounded
  BY <1>1 DEF IngestInv, Ledger, SourceForm
<1>3. total \in Nat /\ since \in Nat /\ otlp.reported \in Nat /\ total = otlp.reported + since
      /\ otlp.pending \in Nat
  BY <1>2 DEF AnomalyTotal, SourceForm
<1>4. CASE lock = "sound"
  <2> DEFINE d == [drain EXCEPT !.at = "noted"]
             told == IF otlp.canName THEN since ELSE 0
  <2>1. /\ otlp' = [otlp EXCEPT !.reported = total]
        /\ drain' = [d EXCEPT !.anomalies = told]
    BY <1>4 DEF NoteAnomalies
  <2>2. d \in [at : {"asleep", "polled", "noted"}, anomalies : Nat] /\ d.at = "noted"
    BY <1>2
  <2>9. told \in Nat /\ written + told = (IF otlp.canName THEN total ELSE 0)
    BY <1>2, <1>3
  <2> HIDE DEF d, told
  <2>3. /\ drain' \in [at : {"asleep", "polled", "noted"}, anomalies : Nat]
        /\ drain'.at = "noted" /\ drain'.anomalies = told
    BY <2>1, <2>2, <2>9
  <2>4. /\ otlp' \in SourceForm /\ otlp'.reported = total /\ otlp'.pending = otlp.pending
        /\ otlp'.lost = otlp.lost /\ otlp'.dropped = otlp.dropped
        /\ otlp'.malformed = otlp.malformed /\ otlp'.blemishes = otlp.blemishes
        /\ otlp'.canName = otlp.canName
    BY <1>2, <1>3, <2>1 DEF SourceForm
  <2>5. AnomalyTotal(otlp') = total
    BY <2>4 DEF AnomalyTotal
  <2> HIDE DEF total, since
  <2>6. QueueIsBounded'
    BY <1>2, <2>4 DEF QueueIsBounded
  <2>7. Ledger'
    BY <1>1, <1>2, <1>3, <2>3, <2>4, <2>5, <2>6, <2>9 DEF Ledger
  <2>8. QED
    BY <1>1, <2>7, GuardStays, ThreadsStay DEF serving
<1>5. CASE lock # "sound"
  <2>1. drain' = [drain EXCEPT !.at = "noted"] /\ UNCHANGED otlp
    BY <1>5 DEF NoteAnomalies
  <2>2. /\ drain' \in [at : {"asleep", "polled", "noted"}, anomalies : Nat]
        /\ drain'.at = "noted" /\ drain'.anomalies = drain.anomalies
    BY <1>2, <2>1
  <2>3. Ledger'
    BY <1>1, <1>2, <2>1, <2>2 DEF Ledger, QueueIsBounded, AnomalyTotal
  <2>4. QED
    BY <1>1, <2>3, GuardStays, ThreadsStay DEF serving
<1>6. QED
  BY <1>4, <1>5

\* They leave the drain loop's books when the plane has written them down.
LEMMA PlaneIngest ==
    ASSUME IngestConstants, IngestInv, PlaneAccepts
    PROVE  IngestInv'
<1>1. /\ written' = written + drain.anomalies /\ drain' = Asleep
      /\ UNCHANGED <<serving, thread, live, inflight, otlp>>
  BY DEF PlaneAccepts
<1>2. /\ written \in Nat /\ drain.anomalies \in Nat
      /\ written + drain.anomalies = (IF otlp.canName THEN otlp.reported ELSE 0)
      /\ otlp \in SourceForm /\ otlp.reported <= AnomalyTotal(otlp) /\ QueueIsBounded
  BY DEF IngestInv, Ledger
<1>3. /\ drain' \in [at : {"asleep", "polled", "noted"}, anomalies : Nat]
      /\ drain'.at = "asleep" /\ drain'.anomalies = 0
  BY <1>1 DEF Asleep
<1>4. written' \in Nat /\ written' + drain'.anomalies = written + drain.anomalies
  BY <1>1, <1>2, <1>3
<1>5. Ledger'
  BY <1>1, <1>2, <1>3, <1>4 DEF Ledger, QueueIsBounded, AnomalyTotal
<1>6. QED
  BY <1>1, <1>5, GuardStays, ThreadsStay DEF serving

\* A process that ends takes its connections and its memory with it.
LEMMA ExitIngest ==
    ASSUME IngestConstants
    PROVE  IngestInv /\ Exits => IngestInv'
<1>1. IngestInv /\ Exits => Deserted' /\ Unused'
  BY DEF Exits, Deserted, Unused, IngestInv, Ledger, SourceForm
<1>2. IngestInv /\ Exits => Guarded'
  BY DEF IngestInv, Exits, Guarded, OpenPortIsGuarded
<1>3. Deserted' => ThreadsTidy' /\ CountersAreHeld' /\ LimitsHold'
  BY DesertedServer, PTL
<1>4. Unused' => Ledger'
  BY UnusedSource, PTL
<1>5. QED
  BY <1>1, <1>2, <1>3, <1>4 DEF IngestInv

\* Every step keeps the invariant.
LEMMA NextIngest ==
    ASSUME IngestConstants, IngestInv, [IngestNext]_ingestVars
    PROVE  IngestInv'
<1>1. CASE UNCHANGED ingestVars
  <2>1. UNCHANGED <<thread, live, inflight, node, gate, otlp, drain, written>>
    BY <1>1 DEF ingestVars
  <2>2. QED
    BY <2>1, LedgerStays, GuardStays, ThreadsStay
<1>2. CASE (\E secret \in BOOLEAN, flags \in {0, 2, 4} : Start(secret, flags))
              \/ StartFails \/ Stop
  BY <1>2, StartIngest
<1>3. ASSUME NEW c \in Conn, SpawnFails(c)
      PROVE  IngestInv'
  <2>1. UNCHANGED <<thread, live, inflight, node, gate, otlp, drain, written>>
    BY <1>3 DEF SpawnFails, store
  <2>2. QED
    BY <2>1, LedgerStays, GuardStays, ThreadsStay
<1>4. ASSUME NEW c \in Conn, AcceptConnection(c) \/ Shed(c) \/ ThreadStep(c)
      PROVE  IngestInv'
  <2>1. CASE AcceptConnection(c)
    BY <2>1, AcceptIngest
  <2>2. CASE Shed(c) \/ Close(c)
    BY <2>2, ShedIngest
  <2>3. CASE ReadHead(c)
    BY <2>3, ReadHeadIngest
  <2>4. CASE LeaveLoop(c) \/ RefuseHead(c) \/ WriteFails(c)
    BY <2>4, LeaveIngest
  <2>5. CASE Inspect(c)
    BY <2>5, InspectIngest
  <2>6. CASE Reserve(c)
    BY <2>6, ReserveIngest
  <2>7. CASE ReadBody(c) \/ BodyFails(c)
    BY <2>7, BodyIngest
  <2>8. CASE Submit(c)
    BY <2>8, SubmitIngest
  <2>9. CASE PanicUnderLock(c)
    BY <2>9, PanicIngest
  <2>10. CASE WriteAnswer(c)
    BY <2>10, WriteIngest
  <2>11. QED
    BY <1>4, <2>1, <2>2, <2>3, <2>4, <2>5, <2>6, <2>7, <2>8, <2>9, <2>10 DEF ThreadStep
<1>5. CASE DrainStep
  <2>1. CASE Poll
    BY <2>1, PollIngest
  <2>2. CASE PollPoisoned \/ PlaneRefuses
    BY <2>2, ExitIngest DEF PollPoisoned, PlaneRefuses
  <2>3. CASE NoteAnomalies
    BY <2>3, NoteIngest
  <2>4. CASE PlaneAccepts
    BY <2>4, PlaneIngest
  <2>5. QED
    BY <1>5, <2>1, <2>2, <2>3, <2>4 DEF DrainStep
<1>6. QED
  BY <1>1, <1>2, <1>3, <1>4, <1>5 DEF IngestNext

-----------------------------------------------------------------------------
\* Server, Ingest and OtlpSource: whatever order threads, the accept loop and the
\* drain loop run in and wherever they fail or panic, the places and the bytes counted
\* are the ones held and stay within their limits, no port the network can reach is
\* without a gate, the queue passes its limit by less than one batch, and no answer
\* says of a batch what did not happen to it.  What anomaly_total counts and counts as
\* reported is written down or in the drain loop's hands, once, where the trust domain
\* leaves room for the record's name; where it does not, nothing ever is.  For any
\* number of connections, any requests and every limit.
THEOREM Accounted == IngestSpec => []IntakeIsAccounted
<1>0. IngestConstants
  BY IngestAssumption
<1>1. IngestInv => IntakeIsAccounted
  <2> SUFFICES ASSUME IngestInv PROVE IntakeIsAccounted
    OBVIOUS
  <2>1. BudgetsAreExact
    BY DEF IngestInv, BudgetsAreExact, Guarded
  <2>2. QueueIsBounded /\ LossesAreWritten
    BY DEF IngestInv, Ledger, LossesAreWritten
  <2>3. AnswersAreTrue
    BY DEF IngestInv, ThreadsTidy, Tidy, Truthful, AnswersAreTrue
  <2>4. QED
    BY <2>1, <2>2, <2>3 DEF IntakeIsAccounted
<1>2. IngestInv /\ [IngestNext]_ingestVars => IngestInv'
  BY <1>0, NextIngest
<1>3. IngestInit => IngestInv
  BY <1>0, InitIngest
<1>4. QED
  BY <1>1, <1>2, <1>3, PTL DEF IngestSpec

-----------------------------------------------------------------------------
(* The signing queue.                                                      *)

\* What a process is made of.
Processes ==
    [kind : {"run", "events"},
     at : {"loop", "reconcile", "drain", "sign", "remove", "done", "down"},
     key : {NoKey, Pin}, todo : Seq(Nat)]

\* The folders tell one story: what was ever queued is in one of the two, under
\* the time of its first request, and nothing else is.
Folders ==
    /\ sealed \in Nat
    /\ \A r \in DOMAIN pending : r \in 1..sealed
    /\ \A r \in DOMAIN first :
          /\ r \in DOMAIN pending \cup DOMAIN signed
          /\ r \in DOMAIN pending => pending[r] = first[r]
          /\ r \in DOMAIN signed => signed[r].time = first[r]
    /\ \A r \in DOMAIN pending \cup DOMAIN signed : r \in DOMAIN first

\* Every signature kept is the pinned key's, over its root and its time.
Signatures ==
    \A r \in DOMAIN signed :
        Verifies(Pin, Statement(r, signed[r].time, Pin), signed[r].signature)

\* drain goes through distinct queued roots with the pinned key in its hand; the
\* one it is about to take out of the queue is signed.
Draining(p) ==
    /\ p \in Processes
    /\ p.todo \in Seq(DOMAIN pending)
    /\ \A i, j \in 1..Len(p.todo) : i # j => p.todo[i] # p.todo[j]
    /\ p.at \in {"sign", "remove"} => p.key = Pin
    /\ p.at = "remove" => p.todo # <<>> /\ p.todo[1] \in DOMAIN signed

SignInv == Folders /\ Signatures /\ Draining(proc)

\* The fields of a process, and a process made of fields.
LEMMA ProcessFields ==
    ASSUME NEW p \in Processes
    PROVE  /\ p.kind \in {"run", "events"} /\ p.key \in {NoKey, Pin} /\ p.todo \in Seq(Nat)
           /\ p = [kind |-> p.kind, at |-> p.at, key |-> p.key, todo |-> p.todo]
BY DEF Processes

\* A process is its command, its place, its key and what it has yet to sign.
LEMMA ProcessMade ==
    ASSUME NEW k \in {"run", "events"}, NEW key \in {NoKey, Pin}, NEW q \in Seq(Nat),
           NEW a \in {"loop", "reconcile", "drain", "sign", "remove", "done", "down"}
    PROVE  [kind |-> k, at |-> a, key |-> key, todo |-> q] \in Processes
BY DEF Processes

\* A command starts in its loop with nothing to sign.
LEMMA NewProcess ==
    ASSUME NEW k \in {"run", "events"}
    PROVE  Process(k) \in Processes /\ Process(k).todo = <<>> /\ Process(k).at = "loop"
<1>1. <<>> \in Seq(Nat)
  OBVIOUS
<1>2. QED
  BY <1>1, ProcessMade DEF Process

\* A pass that has told its outcome has nothing left to sign.
LEMMA ReportedProcess ==
    ASSUME NEW p \in Processes
    PROVE  /\ Reported(p) \in Processes /\ Reported(p).todo = <<>>
           /\ Reported(p).at \in {"loop", "done"}
<1> DEFINE a == IF p.kind = "run" THEN "loop" ELSE "done"
<1>1. p = [kind |-> p.kind, at |-> p.at, key |-> p.key, todo |-> p.todo]
  BY ProcessFields
<1>2. [p EXCEPT !.at = a] = [kind |-> p.kind, at |-> a, key |-> p.key, todo |-> p.todo]
  BY <1>1
<1>3. Reported(p) = [[p EXCEPT !.at = a] EXCEPT !.todo = <<>>]
  BY DEF Reported
<1>4. p.kind \in {"run", "events"} /\ a \in {"loop", "done"} /\ <<>> \in Seq(Nat)
  BY ProcessFields
<1> HIDE DEF a
<1>5. Reported(p) = [kind |-> p.kind, at |-> a, key |-> p.key, todo |-> <<>>]
  BY <1>2, <1>3
<1>6. Reported(p) \in Processes
  <2>1. p.key \in {NoKey, Pin}
    BY ProcessFields
  <2>2. a \in {"loop", "reconcile", "drain", "sign", "remove", "done", "down"}
    BY <1>4
  <2>3. QED
    BY <1>4, <1>5, <2>1, <2>2, ProcessMade
<1>7. QED
  BY <1>4, <1>5, <1>6

\* A sequence is one over any set its elements are in.
LEMMA SeqOver ==
    ASSUME NEW S, NEW T, NEW s \in Seq(S), \A i \in 1..Len(s) : s[i] \in T
    PROVE  s \in Seq(T)
<1>1. Len(s) \in Nat /\ s = [i \in 1..Len(s) |-> s[i]]
  OBVIOUS
<1>2. QED
  BY <1>1

\* A process that has no list in its hand.
LEMMA NothingAtHand ==
    ASSUME NEW p \in Processes, p.todo = <<>>, p.at \notin {"sign", "remove"}
    PROVE  Draining(p)
BY DEF Draining

\* Nothing is queued and nothing signed at first.
LEMMA InitSign == SigningInit => SignInv
<1> SUFFICES ASSUME SigningInit PROVE SignInv
  OBVIOUS
<1>1. DOMAIN pending = {} /\ DOMAIN signed = {} /\ DOMAIN first = {}
  BY DEF SigningInit
<1>2. Folders /\ Signatures
  BY <1>1 DEF Folders, Signatures, SigningInit
<1>3. proc \in Processes /\ proc.todo = <<>> /\ proc.at = "loop"
  BY NewProcess DEF SigningInit
<1>4. QED
  BY <1>2, <1>3, NothingAtHand DEF SignInv

\* A step that leaves both folders alone.
LEMMA FoldersStay ==
    ASSUME SignInv, UNCHANGED <<pending, signed, first>>, sealed' \in Nat, sealed <= sealed',
           Draining(proc')
    PROVE  SignInv'
<1>1. Folders'
  <2>1. \A r \in DOMAIN pending : r \in 1..sealed'
    BY DEF SignInv, Folders
  <2>2. QED
    BY <2>1 DEF SignInv, Folders
<1>2. Signatures'
  BY DEF SignInv, Signatures, Verifies, Statement
<1>3. Draining(proc)'
  BY DEF Draining
<1>4. QED
  BY <1>1, <1>2, <1>3 DEF SignInv

\* reconcile queues the current root, unless it is signed or queued already.
LEMMA ReconcileSign ==
    ASSUME SignInv, Reconcile
    PROVE  SignInv'
<1>1. /\ proc.at = "reconcile" /\ proc' = [proc EXCEPT !.at = "drain"]
      /\ UNCHANGED <<sealed, signed>> /\ proc \in Processes /\ sealed \in Nat
  BY DEF Reconcile, SignInv, Draining, Folders
<1>2. CASE UNCHANGED <<pending, first>>
  <2>1. Draining(proc')
    BY <1>1 DEF SignInv, Draining, Processes
  <2>2. sealed' \in Nat /\ sealed <= sealed'
    BY <1>1
  <2>3. QED
    BY <1>1, <1>2, <2>1, <2>2, FoldersStay
<1>3. CASE ~ UNCHANGED <<pending, first>>
  <2>1. PICK t \in Times : /\ pending' = Filed(pending, sealed, t)
                           /\ first' = Filed(first, sealed, t)
    BY <1>3 DEF Reconcile, CurrentRoot
  <2>2. sealed # 0 /\ sealed \notin DOMAIN signed /\ sealed \notin DOMAIN pending
    BY <1>3 DEF Reconcile, CurrentRoot
  <2>3. /\ DOMAIN pending' = {sealed} \cup DOMAIN pending
        /\ DOMAIN first' = {sealed} \cup DOMAIN first
        /\ pending'[sealed] = t /\ first'[sealed] = t
        /\ \A r \in DOMAIN pending : r # sealed => pending'[r] = pending[r]
        /\ \A r \in DOMAIN first : r # sealed => first'[r] = first[r]
    BY <2>1 DEF Filed
  <2>4. Folders'
    <3>1. sealed \in 1..sealed
      BY <1>1, <2>2
    <3>2. QED
      BY <1>1, <2>2, <2>3, <3>1 DEF SignInv, Folders
  <2>5. Signatures'
    BY <1>1 DEF SignInv, Signatures, Verifies, Statement
  <2>6. Draining(proc)'
    <3>1. proc' \in Processes /\ proc'.at = "drain" /\ proc'.todo = proc.todo
      BY <1>1 DEF Processes
    <3>2. proc.todo \in Seq(DOMAIN pending')
      BY <2>3 DEF SignInv, Draining
    <3>3. QED
      BY <3>1, <3>2 DEF SignInv, Draining
  <2>7. QED
    BY <2>4, <2>5, <2>6 DEF SignInv
<1>4. QED
  BY <1>2, <1>3

\* refresh reads the list of queued roots and the pinned key.
LEMMA RefreshSign ==
    ASSUME SignInv, Refresh
    PROVE  SignInv'
<1> DEFINE key == PinnedKey(KeySet(keyryx))
<1>1. UNCHANGED <<sealed, pending, signed, first>> /\ proc \in Processes /\ sealed \in Nat
  BY DEF Refresh, SignInv, Draining, Folders
<1>2. CASE DOMAIN pending = {} \/ key = NoKey
  <2> DEFINE p == Reported(proc)
  <2>0. proc' = [p EXCEPT !.key = IF DOMAIN pending = {} THEN p.key ELSE NoKey]
    BY <1>2 DEF Refresh
  <2>1. p \in Processes /\ p.todo = <<>> /\ p.at \in {"loop", "done"}
    BY <1>1, ReportedProcess
  <2> HIDE DEF p
  <2>2. proc' \in Processes /\ proc'.todo = <<>> /\ proc'.at \in {"loop", "done"}
    BY <2>0, <2>1 DEF Processes
  <2>3. Draining(proc')
    BY <2>2, NothingAtHand
  <2>4. sealed' \in Nat /\ sealed <= sealed'
    BY <1>1
  <2>5. QED
    BY <1>1, <2>3, <2>4, FoldersStay
<1>3. CASE ~ (DOMAIN pending = {} \/ key = NoKey)
  <2>1. PICK q \in ReadPending : proc' = [proc EXCEPT !.at = "sign", !.key = key, !.todo = q]
    BY <1>3 DEF Refresh
  <2>2. key = Pin
    BY <1>3 DEF PinnedKey
  <2>3. IsFiniteSet(DOMAIN pending) /\ DOMAIN pending \subseteq Nat
    <3>1. DOMAIN pending \in SUBSET (1..sealed) /\ IsFiniteSet(1..sealed)
      BY <1>1, FS_Interval DEF SignInv, Folders
    <3>2. IsFiniteSet(DOMAIN pending)
      BY <3>1, FS_Subset
    <3>3. QED
      BY <1>1, <3>1, <3>2
  <2> DEFINE n == Cardinality(DOMAIN pending)
  <2>4. n \in Nat
    BY <2>3, FS_CardinalityType
  <2>5. q \in [1..n -> DOMAIN pending] /\ \A i, j \in 1..n : i # j => q[i] # q[j]
    BY DEF ReadPending, SetToSeqs
  <2> HIDE DEF n
  <2>6. q \in Seq(DOMAIN pending) /\ Len(q) = n /\ q \in Seq(Nat)
    BY <2>3, <2>4, <2>5
  <2>7. proc' \in Processes /\ proc'.at = "sign" /\ proc'.key = Pin /\ proc'.todo = q
    BY <1>1, <2>1, <2>2, <2>6 DEF Processes
  <2>8. Draining(proc')
    BY <2>5, <2>6, <2>7 DEF Draining
  <2>9. sealed' \in Nat /\ sealed <= sealed'
    BY <1>1
  <2>10. QED
    BY <1>1, <2>8, <2>9, FoldersStay
<1>4. QED
  BY <1>2, <1>3

\* The signature is written: over the queued time, and only if it verifies.
LEMMA StoreSign ==
    ASSUME SignInv, SignStores
    PROVE  SignInv'
<1> DEFINE r == Head(proc.todo)
<1>1. /\ proc.at = "sign" /\ proc.todo # <<>> /\ proc' = [proc EXCEPT !.at = "remove"]
      /\ UNCHANGED <<sealed, pending, first>> /\ proc \in Processes
  BY DEF SignStores, SignInv, Draining
<1>2. proc.key = Pin /\ proc.todo \in Seq(DOMAIN pending)
  BY <1>1 DEF SignInv, Draining
<1>3. r \in DOMAIN pending /\ r = proc.todo[1]
  BY <1>1, <1>2
<1>4. PICK s \in Made(r) : signed' = Filed(signed, r, s)
  BY DEF SignStores
<1>5. s.time = pending[r] /\ Verifies(Pin, Statement(r, pending[r], Pin), s.signature)
  BY <1>2 DEF Made, Signs
<1> HIDE DEF r
<1>6. /\ DOMAIN signed' = {r} \cup DOMAIN signed /\ signed'[r] = s
      /\ \A x \in DOMAIN signed : x # r => signed'[x] = signed[x]
  BY <1>4 DEF Filed
<1>7. r \in DOMAIN first /\ pending[r] = first[r]
  BY <1>3 DEF SignInv, Folders
<1>8. Folders'
  BY <1>1, <1>3, <1>5, <1>6, <1>7 DEF SignInv, Folders
<1>9. Signatures'
  <2>1. ASSUME NEW x \in DOMAIN signed'
        PROVE  Verifies(Pin, Statement(x, signed'[x].time, Pin), signed'[x].signature)
    BY <1>5, <1>6 DEF SignInv, Signatures
  <2>2. QED
    BY <2>1 DEF Signatures, Verifies, Statement
<1>10. Draining(proc)'
  <2>1. /\ proc' \in Processes /\ proc'.at = "remove" /\ proc'.todo = proc.todo
        /\ proc'.key = proc.key
    BY <1>1 DEF Processes
  <2>2. QED
    BY <1>1, <1>2, <1>3, <1>6, <2>1 DEF SignInv, Draining
<1>11. QED
  BY <1>8, <1>9, <1>10 DEF SignInv

\* The signed root leaves the queue; the ones after it stay.
LEMMA RemoveSign ==
    ASSUME SignInv, SignRemoves
    PROVE  SignInv'
<1> DEFINE r == Head(proc.todo)
           q == proc.todo
<1>1. /\ proc.at = "remove" /\ proc' = [proc EXCEPT !.at = "sign", !.todo = Tail(q)]
      /\ pending' = Restrict(pending, DOMAIN pending \ {r})
      /\ UNCHANGED <<sealed, signed, first>> /\ proc \in Processes
  BY DEF SignRemoves, SignInv, Draining
<1>2. /\ proc.key = Pin /\ q \in Seq(DOMAIN pending) /\ q # <<>> /\ q[1] \in DOMAIN signed
      /\ \A i, j \in 1..Len(q) : i # j => q[i] # q[j]
      /\ q \in Seq(Nat)
  BY <1>1 DEF SignInv, Draining, Processes
<1>3. r = q[1]
  BY <1>2
<1> HIDE DEF r, q
<1>4. /\ DOMAIN pending' = DOMAIN pending \ {r}
      /\ \A x \in DOMAIN pending' : pending'[x] = pending[x]
  BY <1>1 DEF Restrict
<1>5. Folders'
  BY <1>1, <1>2, <1>3, <1>4 DEF SignInv, Folders
<1>6. Signatures'
  BY <1>1 DEF SignInv, Signatures, Verifies, Statement
<1>7. /\ Len(q) \in Nat /\ Len(q) > 0 /\ Len(Tail(q)) = Len(q) - 1 /\ Tail(q) \in Seq(Nat)
      /\ \A i \in 1..Len(Tail(q)) : i + 1 \in 1..Len(q) /\ Tail(q)[i] = q[i + 1]
  BY <1>2
<1>8. \A i \in 1..Len(Tail(q)) : Tail(q)[i] \in DOMAIN pending'
  <2>1. ASSUME NEW i \in 1..Len(Tail(q))
        PROVE  q[i + 1] \in DOMAIN pending /\ q[i + 1] # q[1]
    <3>1. i + 1 \in 1..Len(q) /\ 1 \in 1..Len(q) /\ i + 1 # 1
      BY <1>7
    <3>2. QED
      BY <1>2, <3>1
  <2>2. QED
    BY <1>3, <1>4, <1>7, <2>1
<1>9. Tail(q) \in Seq(DOMAIN pending')
  BY <1>7, <1>8, SeqOver
<1>10. \A i, j \in 1..Len(Tail(q)) : i # j => Tail(q)[i] # Tail(q)[j]
  BY <1>2, <1>7
<1>11. proc' \in Processes /\ proc'.at = "sign" /\ proc'.key = Pin /\ proc'.todo = Tail(q)
  BY <1>1, <1>2, <1>7 DEF Processes
<1>12. Draining(proc)'
  BY <1>9, <1>10, <1>11 DEF Draining
<1>13. QED
  BY <1>5, <1>6, <1>12 DEF SignInv

\* Every step keeps the invariant.
LEMMA NextSign ==
    ASSUME SignInv, [SigningNext]_signingVars
    PROVE  SignInv'
<1>0. proc \in Processes /\ sealed \in Nat
  BY DEF SignInv, Draining, Folders
<1>1. CASE Reconcile
  BY <1>1, ReconcileSign
<1>2. CASE Refresh
  BY <1>2, RefreshSign
<1>3. CASE SignStores
  BY <1>3, StoreSign
<1>4. CASE SignRemoves
  BY <1>4, RemoveSign
<1>5. CASE KeyryxChanges \/ UNCHANGED signingVars
  BY <1>0, <1>5, FoldersStay DEF KeyryxChanges, signingVars, SignInv
<1>6. CASE SealsRoot \/ Attempts
  <2>1. /\ UNCHANGED <<pending, signed, first>> /\ sealed' \in Nat /\ sealed <= sealed'
        /\ \E a \in {"reconcile", "loop"} : proc' = [proc EXCEPT !.at = a]
    BY <1>0, <1>6 DEF SealsRoot, Attempts
  <2>2. Draining(proc')
    BY <1>0, <2>1 DEF SignInv, Draining, Processes
  <2>3. QED
    BY <2>1, <2>2, FoldersStay
<1>7. CASE SignStops \/ SignEnds \/ ReconcileFails \/ SignFails
  <2>1. UNCHANGED <<pending, signed, first, sealed>> /\ proc' = Reported(proc)
    BY <1>7 DEF SignStops, SignEnds, ReconcileFails, SignFails
  <2>2. proc' \in Processes /\ proc'.todo = <<>> /\ proc'.at \in {"loop", "done"}
    BY <1>0, <2>1, ReportedProcess
  <2>3. QED
    BY <1>0, <2>1, <2>2, NothingAtHand, FoldersStay
<1>8. CASE SignerDies \/ SignerStarts
  <2>1. UNCHANGED <<pending, signed, first, sealed>>
    BY <1>8 DEF SignerDies, SignerStarts
  <2>2. proc' \in Processes /\ proc'.todo = <<>> /\ proc'.at \in {"loop", "down"}
    BY <1>0, <1>8, NewProcess DEF SignerDies, SignerStarts, Processes
  <2>3. QED
    BY <1>0, <2>1, <2>2, NothingAtHand, FoldersStay
<1>9. QED
  BY <1>1, <1>2, <1>3, <1>4, <1>5, <1>6, <1>7, <1>8 DEF SigningNext, DrainQueue

\* signing.rs: a root that was ever queued is in the queue or signed under the time it
\* was first queued under, whatever died between the two folders and whatever Keyryx
\* answered, and every pack that carries a signature verifies under the pinned key over
\* its own root and its own time, for every set of keys and every bound.
THEOREM QueueKept == SigningSpec => []QueueIsKept
<1>1. SignInv => QueueIsKept
  <2> SUFFICES ASSUME SignInv PROVE QueueIsKept
    OBVIOUS
  <2>1. ASSUME NEW r \in Roots, NEW t \in Times, NEW s \in PackOf(r, t).signatures
        PROVE  Verifies(Pin, Statement(r, PackOf(r, t).time, Pin), s.signature)
    <3>1. s \in SignedRoot(r)
      BY <2>1 DEF PackOf
    <3>2. r \in DOMAIN signed /\ s = signed[r]
      BY <3>1 DEF SignedRoot
    <3>3. PackOf(r, t).time = signed[r].time
      BY <3>1 DEF PackOf
    <3>4. QED
      BY <3>2, <3>3 DEF SignInv, Signatures
  <2>2. QED
    BY <2>1 DEF QueueIsKept, SignInv, Folders
<1>2. QED
  BY <1>1, InitSign, NextSign, PTL DEF SigningSpec
=============================================================================
