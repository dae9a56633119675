---------------------------- MODULE PlaneProofs ----------------------------
(***************************************************************************)
(* The write path of one shard, for every policy, every number of segments *)
(* and every sequence of ends of the process: what is sealed is whole and  *)
(* durable, one chain, with the notes of what the store lost beside the    *)
(* records; and the shard is one log.                                      *)
(***************************************************************************)
EXTENDS Plane, SequenceTheorems, WellFoundedInduction, TLAPS

Journal == [recs : Seq(Rec), dur : Nat, start : Seq(Rec)]

\* A segment is open: seal has not written its manifest yet.
OpenPc == pc \in {"resync", "up", "flush", "commit"}

-----------------------------------------------------------------------------
(* What happens to a journal.                                              *)

\* One record was appended to the open segment.
PutEffect(r) ==
    /\ journal' \in [Segment -> Journal]
    /\ \A s \in Segment : s # segment => journal'[s] = journal[s]
    /\ journal'[segment].recs = Append(journal[segment].recs, r)
    /\ journal'[segment].dur = journal[segment].dur

\* Everything in the open segment was flushed.
SyncEffect ==
    /\ journal' \in [Segment -> Journal]
    /\ \A s \in Segment : journal'[s].recs = journal[s].recs
    /\ \A s \in Segment : s # segment => journal'[s] = journal[s]
    /\ journal'[segment].dur = Len(journal[segment].recs)

\* A power cut left a prefix of every journal, and all that had been flushed.
CutEffect ==
    /\ journal' \in [Segment -> Journal]
    /\ \A s \in Segment : \E k \in journal[s].dur..Len(journal[s].recs) :
          journal'[s].recs = SubSeq(journal[s].recs, 1, k) /\ journal'[s].dur = k
    /\ \A s \in Segment : journal[s].dur = Len(journal[s].recs) => journal'[s] = journal[s]

\* Appending a record, said of the journal of each segment.
LEMMA PutIs ==
    ASSUME journal \in [Segment -> Journal], segment \in Segment, base \in Seq(Rec),
           NEW r \in Rec, Put(r)
    PROVE  PutEffect(r)
<1> DEFINE j == journal[segment]
           k == [j EXCEPT !.recs = Append(j.recs, r)]
           J == [journal EXCEPT ![segment] = k]
           l == [J[segment] EXCEPT !.start = IF j.recs = <<>> THEN base ELSE J[segment].start]
<1>1. j \in Journal /\ j.recs \in Seq(Rec)
  BY DEF Journal
<1>2. journal' = [J EXCEPT ![segment] = l]
  BY DEF Put
<1>3. Append(j.recs, r) \in Seq(Rec)
  BY <1>1
<1>4. k \in Journal /\ k.recs = Append(j.recs, r) /\ k.dur = j.dur
  BY <1>1, <1>3 DEF Journal
<1> HIDE DEF k
<1>5. J \in [Segment -> Journal] /\ J[segment] = k /\ \A s \in Segment : s # segment => J[s] = journal[s]
  BY <1>4
<1> HIDE DEF J
<1>6. l \in Journal /\ l.recs = Append(j.recs, r) /\ l.dur = j.dur
  BY <1>1, <1>4, <1>5 DEF Journal
<1> HIDE DEF l
<1>7. /\ journal' \in [Segment -> Journal] /\ journal'[segment] = l
      /\ \A s \in Segment : s # segment => journal'[s] = journal[s]
  BY <1>2, <1>5, <1>6
<1>8. QED
  BY <1>6, <1>7 DEF PutEffect

\* A sync makes the open journal durable, and no other changes.
LEMMA SyncIs ==
    ASSUME journal \in [Segment -> Journal], segment \in Segment, JournalSync
    PROVE  SyncEffect
<1> DEFINE j == journal[segment]
           k == [j EXCEPT !.dur = Written]
<1>1. j \in Journal /\ j.recs \in Seq(Rec) /\ Written \in Nat /\ Written = Len(j.recs)
  BY DEF Journal, Written
<1>2. journal' = [journal EXCEPT ![segment] = k]
  BY DEF JournalSync
<1>3. k \in Journal /\ k.recs = j.recs /\ k.dur = Len(j.recs)
  BY <1>1 DEF Journal
<1> HIDE DEF k
<1>4. /\ journal' \in [Segment -> Journal] /\ journal'[segment] = k
      /\ \A s \in Segment : s # segment => journal'[s] = journal[s]
  BY <1>2, <1>3
<1>5. QED
  BY <1>3, <1>4 DEF SyncEffect

\* A power cut shortens journals down to what is durable.
LEMMA CutIs ==
    ASSUME journal \in [Segment -> Journal], \A s \in Segment : journal[s].dur <= Len(journal[s].recs),
           PowerCut
    PROVE  CutEffect
<1> DEFINE loose == {s \in Segment : journal[s].dur < Len(journal[s].recs)}
<1>1. PICK keep \in [loose -> 0..Len(ShardLog)] :
         /\ \A s \in loose : keep[s] \in journal[s].dur..Len(journal[s].recs)
         /\ journal' = [s \in Segment |->
                IF s \in loose
                THEN [journal[s] EXCEPT !.recs = SubSeq(@, 1, keep[s]), !.dur = keep[s]]
                ELSE journal[s]]
  BY DEF PowerCut
<1>2. ASSUME NEW s \in Segment
      PROVE  /\ journal'[s] \in Journal
             /\ \E k \in journal[s].dur..Len(journal[s].recs) :
                   journal'[s].recs = SubSeq(journal[s].recs, 1, k) /\ journal'[s].dur = k
             /\ journal[s].dur = Len(journal[s].recs) => journal'[s] = journal[s]
  <2> DEFINE j == journal[s]
  <2>1. /\ j \in Journal /\ j.recs \in Seq(Rec) /\ Len(j.recs) \in Nat /\ j.dur \in Nat
        /\ j.dur <= Len(j.recs)
    BY DEF Journal
  <2>2. CASE s \in loose
    <3>0. keep[s] \in j.dur..Len(j.recs) /\ j.dur < Len(j.recs)
      BY <1>1, <2>2
    <3>1. keep[s] \in j.dur..Len(j.recs) /\ keep[s] \in Nat /\ j.dur # Len(j.recs)
      BY <2>1, <3>0
    <3>2. journal'[s] = [j EXCEPT !.recs = SubSeq(@, 1, keep[s]), !.dur = keep[s]]
      BY <1>1, <2>2
    <3>3. SubSeq(j.recs, 1, keep[s]) \in Seq(Rec)
      BY <2>1, <3>1
    <3>4. /\ journal'[s] \in Journal /\ journal'[s].recs = SubSeq(j.recs, 1, keep[s])
          /\ journal'[s].dur = keep[s]
      BY <2>1, <3>1, <3>2, <3>3 DEF Journal
    <3>5. QED
      BY <3>1, <3>4
  <2>3. CASE s \notin loose
    <3>0. journal'[s] = j /\ ~ (j.dur < Len(j.recs))
      BY <1>1, <2>3
    <3>1. journal'[s] = j /\ j.dur = Len(j.recs)
      BY <2>1, <3>0
    <3>2. SubSeq(j.recs, 1, Len(j.recs)) = j.recs
      BY <2>1
    <3>3. j.dur \in j.dur..Len(j.recs)
      BY <2>1
    <3>4. QED
      BY <2>1, <3>1, <3>2, <3>3
  <2>4. QED
    BY <2>2, <2>3
<1>3. journal' \in [Segment -> Journal]
  <2>1. /\ DOMAIN journal' = Segment /\ journal' = [s \in Segment |-> journal'[s]]
    BY <1>1
  <2>2. QED
    BY <1>2, <2>1
<1>4. QED
  BY <1>2, <1>3 DEF CutEffect

-----------------------------------------------------------------------------
(* The last sealed segment.                                                *)

\* A set of numbers that is not empty has a least one.
LEMMA LeastNumber ==
    ASSUME NEW T, T \subseteq Nat, T # {}
    PROVE  \E x \in T : \A y \in T : x <= y
<1>1. IsWellFoundedOn(OpToRel(<, Nat), Nat)
  BY NatLessThanWellFounded
<1>2. PICK x \in T : \A y \in T : ~ (<<y, x>> \in OpToRel(<, Nat))
  BY <1>1, WFMin
<1>3. \A y \in T : ~ (y < x)
  BY <1>2 DEF OpToRel
<1>4. \A a, b \in Nat : ~ (b < a) => a <= b
  OBVIOUS
<1>5. QED
  BY <1>3, <1>4

\* A bounded one has a greatest.
LEMMA GreatestNumber ==
    ASSUME NEW N \in Nat, NEW T, T \subseteq 1..N, T # {}
    PROVE  \E x \in T : \A y \in T : y <= x
<1> DEFINE U == {N - t : t \in T}
<1>1. U \subseteq Nat /\ U # {}
  <2>1. \A t \in T : N - t \in Nat
    OBVIOUS
  <2>2. PICK t \in T : TRUE
    OBVIOUS
  <2>3. N - t \in U
    OBVIOUS
  <2>4. QED
    BY <2>1, <2>3
<1> HIDE DEF U
<1>2. PICK u \in U : \A y \in U : u <= y
  BY <1>1, LeastNumber
<1> USE DEF U
<1>3. PICK x \in T : u = N - x
  OBVIOUS
<1>4. ASSUME NEW y \in T
      PROVE  y <= x
  <2>1. N - y \in U
    OBVIOUS
  <2>2. N - x <= N - y
    BY <1>2, <1>3, <2>1
  <2>3. x \in Nat /\ y \in Nat
    OBVIOUS
  <2>4. QED
    BY <2>2, <2>3
<1>5. QED
  BY <1>4

\* LastSealed is the greatest sealed segment, or none.
LEMMA LastSealedIs ==
    /\ LastSealed \in 0..MaxSegs
    /\ \A s \in Segment : Sealed(s) => s <= LastSealed
    /\ LastSealed # 0 => LastSealed \in Segment /\ Sealed(LastSealed)
<1> DEFINE T == {s \in Segment : Sealed(s)}
<1>1. MaxSegs \in Nat \ {0}
  BY PlaneBoundAssumption
<1>2. CASE T = {}
  <2>1. LastSealed = 0
    BY <1>2 DEF LastSealed
  <2>2. QED
    BY <1>1, <1>2, <2>1
<1>3. CASE T # {}
  <2>1. T \subseteq 1..MaxSegs
    BY DEF Segment
  <2>2. PICK x \in T : \A y \in T : y <= x
    BY <1>1, <1>3, <2>1, GreatestNumber
  <2>3. LastSealed = Highest(T)
    BY <1>3 DEF LastSealed
  <2>4. Highest(T) \in T /\ \A t \in T : t <= Highest(T)
    BY <2>2 DEF Highest
  <2>5. QED
    BY <1>1, <2>1, <2>3, <2>4
<1>4. QED
  BY <1>2, <1>3

-----------------------------------------------------------------------------
(* The records of a shard, in the order of its segments.                   *)

\* g is the log up to each segment of the journals j.
Adds(g, j, n) == g = [s \in 0..n |-> IF s = 0 THEN <<>> ELSE g[s - 1] \o j[s].recs]

\* The log can be put together journal by journal, up to any number of them.
LEMMA AddsExist ==
    ASSUME NEW j, NEW N \in Nat
    PROVE  \E g : Adds(g, j, N)
<1> DEFINE T == {n \in Nat : ~ \E g : Adds(g, j, n)}
<1> SUFFICES ASSUME N \in T PROVE FALSE
  OBVIOUS
<1>1. T \subseteq Nat /\ T # {}
  OBVIOUS
<1> HIDE DEF T
<1>2. PICK n \in T : \A k \in T : n <= k
  BY <1>1, LeastNumber
<1> USE DEF T
<1>3. n \in Nat /\ ~ \E g : Adds(g, j, n)
  OBVIOUS
<1>4. CASE n = 0
  <2> DEFINE g == [s \in 0..0 |-> <<>>]
  <2>1. g = [s \in 0..0 |-> IF s = 0 THEN <<>> ELSE g[s - 1] \o j[s].recs]
    OBVIOUS
  <2>2. Adds(g, j, n)
    BY <1>4, <2>1 DEF Adds
  <2>3. QED
    BY <1>3, <2>2
<1>5. CASE n # 0
  <2>1. n - 1 \in Nat /\ n - 1 \notin T
    BY <1>2, <1>3, <1>5
  <2>2. PICK g : Adds(g, j, n - 1)
    BY <2>1
  <2> DEFINE h == [s \in 0..n |-> IF s = n THEN g[n - 1] \o j[n].recs ELSE g[s]]
  <2>3. ASSUME NEW s \in 0..n
        PROVE  h[s] = IF s = 0 THEN <<>> ELSE h[s - 1] \o j[s].recs
    <3>1. CASE s = n
      <4>0. n \in 0..n /\ n - 1 \in 0..n /\ n - 1 # n
        BY <1>3, <1>5
      <4>1. h[s] = g[n - 1] \o j[n].recs /\ n - 1 \in 0..n /\ n - 1 # n
        BY <3>1, <4>0
      <4>2. h[n - 1] = g[n - 1]
        BY <4>1
      <4>3. QED
        BY <1>5, <3>1, <4>1, <4>2
    <3>2. CASE s # n
      <4>1. s \in 0..(n - 1) /\ h[s] = g[s]
        BY <1>3, <3>2
      <4>2. g[s] = IF s = 0 THEN <<>> ELSE g[s - 1] \o j[s].recs
        BY <2>2, <4>1 DEF Adds
      <4>3. s # 0 => s - 1 \in 0..n /\ s - 1 # n
        BY <1>3, <4>1
      <4>4. s # 0 => h[s - 1] = g[s - 1]
        BY <4>3
      <4>5. QED
        BY <4>1, <4>2, <4>4
    <3>3. QED
      BY <3>1, <3>2
  <2>4. h = [s \in 0..n |-> h[s]]
    OBVIOUS
  <2> HIDE DEF h
  <2>5. h = [s \in 0..n |-> IF s = 0 THEN <<>> ELSE h[s - 1] \o j[s].recs]
    BY <2>3, <2>4
  <2>6. QED
    BY <1>3, <2>5 DEF Adds
<1>6. QED
  BY <1>4, <1>5

\* ShardLog, now and after a step.
LEMMA ShardLogIs ==
    /\ \E g : Adds(g, journal, MaxSegs) /\ ShardLog = g[MaxSegs]
    /\ \E g : Adds(g, journal', MaxSegs) /\ ShardLog' = g[MaxSegs]
<1>1. MaxSegs \in Nat
  BY PlaneBoundAssumption
<1>2. ASSUME NEW j
      PROVE  LET f == CHOOSE g : Adds(g, j, MaxSegs) IN Adds(f, j, MaxSegs)
  BY <1>1, AddsExist
<1>3. \E g : Adds(g, journal, MaxSegs) /\ ShardLog = g[MaxSegs]
  BY <1>2 DEF ShardLog, Adds
<1>4. \E g : Adds(g, journal', MaxSegs) /\ ShardLog' = g[MaxSegs]
  BY <1>2 DEF ShardLog, Adds
<1>5. QED
  BY <1>3, <1>4

\* The log up to any segment is a sequence of records.
LEMMA AddsType ==
    ASSUME NEW j, \A s \in Segment : j[s].recs \in Seq(Rec), NEW g, Adds(g, j, MaxSegs)
    PROVE  \A s \in 0..MaxSegs : g[s] \in Seq(Rec)
<1> DEFINE T == {s \in 0..MaxSegs : g[s] \notin Seq(Rec)}
<1> SUFFICES ASSUME T # {} PROVE FALSE
  OBVIOUS
<1>0. MaxSegs \in Nat
  BY PlaneBoundAssumption
<1>1. T \subseteq Nat
  OBVIOUS
<1> HIDE DEF T
<1>2. PICK s \in T : \A k \in T : s <= k
  BY <1>1, LeastNumber
<1> USE DEF T
<1>3. s \in 0..MaxSegs /\ g[s] \notin Seq(Rec)
  OBVIOUS
<1>4. g[s] = IF s = 0 THEN <<>> ELSE g[s - 1] \o j[s].recs
  BY <1>3 DEF Adds
<1>5. s # 0
  BY <1>3, <1>4
<1>6. s - 1 \in 0..MaxSegs /\ s - 1 \notin T /\ s \in Segment
  BY <1>0, <1>2, <1>3, <1>5 DEF Segment
<1>7. g[s - 1] \in Seq(Rec) /\ j[s].recs \in Seq(Rec)
  BY <1>6
<1>8. QED
  BY <1>3, <1>4, <1>5, <1>7

\* It is a sequence of records.
LEMMA ShardLogType ==
    ASSUME \A s \in Segment : journal[s].recs \in Seq(Rec)
    PROVE  ShardLog \in Seq(Rec)
<1>1. PICK g : Adds(g, journal, MaxSegs) /\ ShardLog = g[MaxSegs]
  BY ShardLogIs
<1>2. MaxSegs \in 0..MaxSegs
  BY PlaneBoundAssumption
<1>3. QED
  BY <1>1, <1>2, AddsType

-----------------------------------------------------------------------------
(* The open segment and the sealed ones.                                   *)

\* What a manifest commits to is on file and durable.
Kept(s) ==
    /\ manifest[s].recs = journal[s].recs
    /\ journal[s].dur = Len(journal[s].recs)
    /\ journal[s].recs # <<>>

\* A journal begins with a unit, handed over after enough others to have filled
\* the segments before it.
BeginsWithUnit(s) ==
    journal[s].recs # <<>> =>
        /\ journal[s].recs[1].kind = "unit"
        /\ journal[s].recs[1].src \in (s - 1)..(taken - 1)

CountType == taken \in 0..MaxTaken /\ unnamed \in Nat /\ DOMAIN manifest = Segment

Sealing == pc \in {"flush", "commit", "roll"}

Place ==
    /\ OpenPc => segment - 1 <= taken /\ \A s \in Segment : Sealed(s) => s < segment
    /\ pc = "roll" => Sealed(segment) /\ \A s \in Segment : Sealed(s) => s <= segment
    /\ Sealing => journal[segment].recs # <<>>
    /\ pc = "commit" => acked = Len(journal[segment].recs) /\ journal[segment].dur = acked

SealInv ==
    /\ PlaneTypeOK /\ CountType /\ Place
    /\ \A s \in Segment : Sealed(s) => Kept(s)
    /\ \A s \in Segment : BeginsWithUnit(s)

\* What the invariant says of the types.
LEMMA SealFacts ==
    ASSUME SealInv
    PROVE  /\ journal \in [Segment -> Journal] /\ segment \in Segment /\ segment \in Nat
           /\ base \in Seq(Rec) /\ Written \in Nat /\ acked \in Nat /\ taken \in Nat
           /\ \A s \in Segment : /\ journal[s].recs \in Seq(Rec) /\ Len(journal[s].recs) \in Nat
                                 /\ journal[s].dur \in Nat /\ journal[s].dur <= Len(journal[s].recs)
           /\ MaxSegs \in Nat /\ MaxTaken \in Nat /\ MaxTaken < MaxSegs /\ unnamed \in Nat
BY PlaneBoundAssumption
   DEF SealInv, PlaneTypeOK, CountType, Journal, Segment, Written

\* Every sealed segment took a unit of its own, so the next one is in bounds.
LEMMA NextSegment ==
    ASSUME SealInv, NEW m \in Segment, Sealed(m)
    PROVE  m <= taken /\ m + 1 \in Segment
<1>1. Kept(m) /\ BeginsWithUnit(m)
  BY DEF SealInv
<1>2. journal[m].recs[1].src \in (m - 1)..(taken - 1)
  BY <1>1 DEF Kept, BeginsWithUnit
<1>3. m \in 1..MaxSegs /\ MaxSegs \in Nat
  BY SealFacts DEF Segment
<1>4. taken \in 0..MaxTaken
  BY DEF SealInv, CountType
<1>5. m <= taken
  BY <1>2, <1>3, <1>4, SealFacts
<1>6. QED
  BY <1>3, <1>4, <1>5, SealFacts DEF Segment

\* An empty directory: nothing is sealed.
LEMMA InitSeal == Init => SealInv
<1> SUFFICES ASSUME Init PROVE SealInv
  OBVIOUS
<1>1. \A s \in Segment : /\ journal[s] = Empty /\ manifest[s] = NoManifest
  BY DEF Init
<1>2. Empty.recs = <<>> /\ Empty.dur = 0 /\ Len(Empty.recs) = 0
  BY DEF Empty
<1>3. Empty \in Journal
  BY DEF Empty, Journal
<1>4. \A s \in Segment : ~ Sealed(s)
  BY <1>1 DEF Sealed
<1>5. PlaneTypeOK
  <2>1. journal \in [Segment -> Journal]
    BY <1>3 DEF Init
  <2>2. 1 \in Segment
    BY PlaneBoundAssumption DEF Segment
  <2>3. <<>> \in Seq(Rec)
    OBVIOUS
  <2>4. QED
    BY <1>1, <1>2, <1>4, <2>1, <2>2, <2>3 DEF Init, PlaneTypeOK, Journal
<1>6. CountType
  BY PlaneBoundAssumption DEF Init, CountType
<1>7. Place
  BY DEF Init, Place, OpenPc, Sealing
<1>8. QED
  BY <1>1, <1>2, <1>4, <1>5, <1>6, <1>7 DEF SealInv, BeginsWithUnit

\* The part of the types that does not speak of a journal or a manifest.
PlainType ==
    /\ pc \in {"down", "resync", "up", "flush", "commit", "roll"}
    /\ segment \in Segment /\ base \in Seq(Rec) /\ acked \in Nat
    /\ owed \subseteq Note /\ oldest \in {"none", "young", "old"}
    /\ promise \in Seq(Rec) /\ cut \subseteq Segment

\* The invariant has the types of the plain variables in it.
LEMMA PlainIs == SealInv => PlainType
BY DEF SealInv, PlaneTypeOK, PlainType

\* A step that leaves the files alone.
LEMMA FilesStay ==
    ASSUME SealInv, UNCHANGED <<journal, manifest, named, taken, unnamed>>, PlainType', Place',
           pc' # "down" => acked' <= Len(journal[segment'].recs)
    PROVE  SealInv'
<1>1. PlaneTypeOK'
  BY DEF SealInv, PlaneTypeOK, PlainType, Sealed, Written
<1>2. \A s \in Segment : (Sealed(s) => Kept(s))'
  BY DEF SealInv, Sealed, Kept
<1>3. \A s \in Segment : BeginsWithUnit(s)'
  BY DEF SealInv, BeginsWithUnit
<1>4. CountType'
  BY DEF SealInv, CountType
<1>5. QED
  BY <1>1, <1>2, <1>3, <1>4 DEF SealInv

\* open goes on behind the last manifest it finds.
LEMMA OpenSeal ==
    ASSUME SealInv, Open
    PROVE  SealInv'
<1> DEFINE m == LastSealed
<1>1. /\ m \in 0..MaxSegs /\ \A s \in Segment : Sealed(s) => s <= m
      /\ m # 0 => m \in Segment /\ Sealed(m)
  BY LastSealedIs
<1>2. m <= taken /\ m + 1 \in Segment
  <2>1. CASE m = 0
    BY <2>1, SealFacts, PlaneBoundAssumption DEF Segment
  <2>2. CASE m # 0
    BY <1>1, <2>2, NextSegment
  <2>3. QED
    BY <2>1, <2>2
<1>3. NextStart \in Seq(Rec)
  <2>1. m # 0 => manifest[m] \in [before : Seq(Rec), recs : Seq(Rec)]
    BY <1>1 DEF SealInv, PlaneTypeOK
  <2>2. m # 0 => manifest[m].before \o manifest[m].recs \in Seq(Rec)
    BY <2>1
  <2>3. QED
    BY <2>2 DEF NextStart, ChainAfter
<1>4. /\ UNCHANGED <<journal, manifest, named, promise, cut, taken, unnamed>>
      /\ segment' = m + 1 /\ base' = NextStart /\ acked' = 0 /\ owed' = {}
      /\ oldest' \in {"none", "young"} /\ pc' \in {"resync", "up"}
  BY DEF Open, files, past
<1> HIDE DEF m
<1>5. PlainType'
  BY <1>2, <1>3, <1>4, PlainIs DEF PlainType
<1>6. Place'
  <2>1. \A s \in Segment : Sealed(s) => s < m + 1
    BY <1>1 DEF Segment
  <2>3. segment' - 1 <= taken'
    BY <1>1, <1>2, <1>4, SealFacts
  <2>4. \A s \in Segment : (Sealed(s) => s < segment)'
    BY <1>4, <2>1 DEF Sealed
  <2>5. QED
    BY <1>4, <2>3, <2>4 DEF Place, OpenPc, Sealing
<1>7. acked' <= Len(journal[segment'].recs)
  BY <1>2, <1>4, SealFacts
<1>8. QED
  BY <1>4, <1>5, <1>6, <1>7, FilesStay

\* A step of the schedule, an end of the process, or nothing at all.
LEMMA QuietSeal ==
    ASSUME SealInv, TimePasses \/ StartSeal \/ RollRefused \/ Exit \/ UNCHANGED vars
    PROVE  SealInv'
<1>1. /\ UNCHANGED <<journal, manifest, named, segment, base, acked, owed, promise, taken, unnamed>>
      /\ oldest' \in {"none", "young", "old"} /\ cut' \subseteq Segment
  <2>1. PlainType
    BY PlainIs
  <2>2. QED
    BY <2>1 DEF TimePasses, StartSeal, RollRefused, Exit, Interrupt, vars, files, plane, past, PlainType
<1>2. pc' = "down" \/ (pc' = "flush" /\ pc = "up" /\ journal[segment].recs # <<>>) \/ pc' = pc
  <2>1. StartSeal => journal[segment].recs # <<>>
    <3>1. SealDue => Len(journal[segment].recs) > 0
      BY DEF SealDue, Written
    <3>2. QED
      BY <3>1 DEF StartSeal
  <2>2. QED
    BY <2>1 DEF TimePasses, StartSeal, RollRefused, Exit, Interrupt, vars, files, plane, past
<1>3. PlainType'
  BY <1>1, <1>2, PlainIs DEF PlainType
<1>4. Place'
  BY <1>1, <1>2 DEF SealInv, Place, OpenPc, Sealing, Sealed
<1>5. pc' # "down" => acked' <= Len(journal[segment'].recs)
  BY <1>1, <1>2 DEF SealInv, PlaneTypeOK, Written
<1>6. QED
  BY <1>1, <1>3, <1>4, <1>5, FilesStay

\* The next segment's journal is created empty or found.
LEMMA RollSeal ==
    ASSUME SealInv, Roll
    PROVE  SealInv'
<1>1. /\ UNCHANGED <<journal, manifest, named, promise, cut, taken, unnamed, owed>>
      /\ segment' = segment + 1 /\ base' = ChainAfter(segment) /\ acked' = 0
      /\ oldest' = "none" /\ pc' = "up" /\ pc = "roll"
  BY DEF Roll, files, past
<1>2. Sealed(segment) /\ segment <= taken /\ segment + 1 \in Segment
  BY <1>1, NextSegment, SealFacts DEF SealInv, Place
<1>3. ChainAfter(segment) \in Seq(Rec)
  <2>1. manifest[segment] \in [before : Seq(Rec), recs : Seq(Rec)]
    BY <1>2, SealFacts DEF SealInv, PlaneTypeOK
  <2>2. QED
    BY <2>1 DEF ChainAfter
<1>4. PlainType'
  BY <1>1, <1>2, <1>3, PlainIs DEF PlainType
<1>5. Place'
  <2>1. \A s \in Segment : Sealed(s) => s < segment + 1
    <3>1. \A s \in Segment : Sealed(s) => s <= segment
      BY <1>1 DEF SealInv, Place
    <3>2. QED
      BY <3>1, SealFacts DEF Segment
  <2>3. segment' - 1 <= taken'
    BY <1>1, <1>2, SealFacts
  <2>4. \A s \in Segment : (Sealed(s) => s < segment)'
    BY <1>1, <2>1 DEF Sealed
  <2>5. QED
    BY <1>1, <2>3, <2>4 DEF Place, OpenPc, Sealing
<1>6. acked' <= Len(journal[segment'].recs)
  BY <1>1, <1>2, SealFacts
<1>7. QED
  BY <1>1, <1>4, <1>5, <1>6, FilesStay

\* A flush changes no record.
LEMMA FlushSeal ==
    ASSUME SealInv, Resync \/ Sync \/ SealSync \/ StopAfterSync
    PROVE  SealInv'
<1>1. /\ UNCHANGED <<manifest, named, segment, base, owed, oldest, taken, unnamed>>
      /\ JournalSync /\ pc \in {"resync", "up", "flush"} /\ cut' \subseteq Segment
  BY PlainIs DEF Resync, Sync, SealSync, StopAfterSync, Interrupt, PlainType
<1>2. /\ pc' \in {"up", "down", "commit"}
      /\ pc' = "commit" => pc = "flush"
  BY DEF Resync, Sync, SealSync, StopAfterSync, Interrupt
<1>3. SyncEffect /\ acked' = Len(journal[segment].recs) /\ promise' = ShardLog
  BY <1>1, SyncIs, SealFacts DEF JournalSync, Written
<1>4. \A s \in Segment : Sealed(s) => s # segment
  <2>1. OpenPc
    BY <1>1 DEF OpenPc
  <2>2. QED
    BY <2>1, SealFacts DEF SealInv, Place, Segment
<1>5. PlaneTypeOK'
  <2>1. promise' \in Seq(Rec)
    BY <1>3, ShardLogType, SealFacts
  <2>2. \A s \in Segment : journal'[s].dur <= Len(journal'[s].recs)
    BY <1>3, SealFacts DEF SyncEffect
  <2>3. journal' \in [Segment -> Journal]
    BY <1>3 DEF SyncEffect
  <2>4. acked' \in Nat /\ acked' <= Len(journal'[segment'].recs)
    BY <1>1, <1>3, SealFacts DEF SyncEffect
  <2>5. QED
    BY <1>1, <1>2, <2>1, <2>2, <2>3, <2>4 DEF SealInv, PlaneTypeOK, Journal, Sealed, Written
<1>6. Place'
  <2>1. \A s \in Segment : journal'[s].recs = journal[s].recs
    BY <1>3 DEF SyncEffect
  <2>2. journal'[segment].dur = acked' /\ acked' = Len(journal'[segment].recs)
    BY <1>3, SealFacts DEF SyncEffect
  <2>3. pc' = "commit" => journal[segment].recs # <<>>
    BY <1>2 DEF SealInv, Place, Sealing
  <2>4. segment - 1 <= taken /\ \A s \in Segment : Sealed(s) => s < segment
    BY <1>1 DEF SealInv, Place, OpenPc
  <2>5. QED
    BY <1>1, <1>2, <2>1, <2>2, <2>3, <2>4, SealFacts DEF Place, OpenPc, Sealing, Sealed
<1>7. \A s \in Segment : (Sealed(s) => Kept(s))'
  BY <1>1, <1>3, <1>4 DEF SealInv, Sealed, Kept, SyncEffect
<1>8. \A s \in Segment : BeginsWithUnit(s)'
  BY <1>1, <1>3 DEF SealInv, BeginsWithUnit, SyncEffect
<1>9. CountType'
  BY <1>1 DEF SealInv, CountType
<1>10. QED
  BY <1>5, <1>6, <1>7, <1>8, <1>9 DEF SealInv

\* A record was appended: the first of a segment is a unit.
LEMMA PutSeal ==
    ASSUME SealInv, NEW r \in Rec, Put(r), pc \in {"up", "flush"}, owed' \subseteq Note,
           UNCHANGED <<manifest, named, pc, segment, base, acked, promise, cut, unnamed>>,
           taken' \in taken..MaxTaken,
           journal[segment].recs = <<>> => r.kind = "unit" /\ r.src = taken /\ taken' = taken + 1
    PROVE  SealInv'
<1>1. PutEffect(r)
  BY PutIs, SealFacts
<1>2. OpenPc /\ segment - 1 <= taken /\ (\A s \in Segment : Sealed(s) => s < segment)
  BY DEF SealInv, Place, OpenPc
<1>3. \A s \in Segment : Sealed(s) => s # segment
  BY <1>2, SealFacts DEF Segment
<1>4. taken' \in Nat /\ taken <= taken'
  BY SealFacts
<1>a. \A y \in Nat : \A x \in (y - 1)..(taken - 1) : x \in (y - 1)..(taken' - 1)
  <2>1. \A y, t, u \in Nat : t <= u => \A x \in (y - 1)..(t - 1) : x \in (y - 1)..(u - 1)
    OBVIOUS
  <2>2. QED
    BY <1>4, <2>1, SealFacts
<1>b. \A a, b \in Nat : a <= b => a <= b + 1
  OBVIOUS
<1> DEFINE old == journal[segment].recs
           new == journal'[segment].recs
<1>5. /\ new = Append(old, r) /\ new \in Seq(Rec) /\ Len(new) = Len(old) + 1 /\ new # <<>>
      /\ new[1] = IF old = <<>> THEN r ELSE old[1]
  <2>1. old \in Seq(Rec) /\ Len(old) \in Nat /\ new = Append(old, r)
    BY <1>1, SealFacts DEF PutEffect
  <2>2. old # <<>> => Len(old) >= 1
    BY <2>1
  <2>3. QED
    BY <2>1, <2>2
<1>6. PlaneTypeOK'
  <2>1. \A s \in Segment : journal'[s].dur <= Len(journal'[s].recs)
    <3> SUFFICES ASSUME NEW s \in Segment
                 PROVE  journal'[s].dur <= Len(journal'[s].recs)
      OBVIOUS
    <3>1. CASE s = segment
      <4>1. journal'[segment].dur = journal[segment].dur
        BY <1>1 DEF PutEffect
      <4>2. QED
        BY <1>5, <1>b, <3>1, <4>1, SealFacts
    <3>2. CASE s # segment
      BY <1>1, <3>2, SealFacts DEF PutEffect
    <3>3. QED
      BY <3>1, <3>2
  <2>2. journal' \in [Segment -> Journal]
    BY <1>1 DEF PutEffect
  <2>3. acked <= Len(journal[segment].recs)
    BY DEF SealInv, PlaneTypeOK, Written
  <2>4. acked' <= Len(journal'[segment'].recs)
    BY <1>5, <2>3, SealFacts
  <2>5. oldest' \in {"none", "young", "old"}
    BY DEF Put, SealInv, PlaneTypeOK
  <2>6. QED
    BY <2>1, <2>2, <2>4, <2>5 DEF SealInv, PlaneTypeOK, Journal, Sealed, Written
<1>7. Place'
  <2>1. segment' - 1 <= taken'
    BY <1>2, <1>4, SealFacts
  <2>2. \A s \in Segment : (Sealed(s) => s < segment)'
    BY <1>2 DEF Sealed
  <2>3. QED
    BY <1>5, <2>1, <2>2 DEF Place, OpenPc, Sealing
<1>8. \A s \in Segment : (Sealed(s) => Kept(s))'
  BY <1>1, <1>3 DEF SealInv, Sealed, Kept, PutEffect
<1>9. ASSUME NEW s \in Segment
      PROVE  BeginsWithUnit(s)'
  <2>0. BeginsWithUnit(s) /\ s \in Nat
    BY DEF SealInv, Segment
  <2>1. CASE s # segment
    <3>1. journal'[s] = journal[s]
      BY <1>1, <2>1 DEF PutEffect
    <3>2. QED
      BY <1>a, <2>0, <3>1 DEF BeginsWithUnit
  <2>2. CASE s = segment /\ old = <<>>
    <3>1. new[1].kind = "unit" /\ new[1].src = taken /\ taken' = taken + 1
      BY <1>5, <2>2
    <3>2. new[1].src \in (s - 1)..(taken' - 1)
      BY <1>2, <2>2, <3>1, SealFacts
    <3>3. QED
      BY <2>2, <3>1, <3>2 DEF BeginsWithUnit
  <2>3. CASE s = segment /\ old # <<>>
    <3>1. new[1] = old[1]
      BY <1>5, <2>3
    <3>2. old[1].kind = "unit" /\ old[1].src \in (s - 1)..(taken - 1)
      BY <2>0, <2>3 DEF BeginsWithUnit
    <3>3. old[1].src \in (s - 1)..(taken' - 1)
      BY <1>a, <2>0, <3>2
    <3>4. QED
      BY <2>3, <3>1, <3>2, <3>3 DEF BeginsWithUnit
  <2>4. QED
    BY <2>1, <2>2, <2>3
<1>10. CountType'
  BY <1>4, SealFacts DEF SealInv, CountType
<1>11. QED
  BY <1>6, <1>7, <1>8, <1>9, <1>10 DEF SealInv

\* A unit goes to a journal that has no manifest.
LEMMA AcceptSeal ==
    ASSUME SealInv, Accept
    PROVE  SealInv'
<1>1. taken < MaxTaken /\ taken' = taken + 1
  BY DEF Accept
<1>2. PICK run \in Run, owes \in Losses : AcceptUnit(run, owes, taken)
  BY DEF Accept
<1> DEFINE r == [kind |-> "unit", run |-> run, owes |-> owes, src |-> taken]
<1>3. r \in Rec /\ r.kind = "unit" /\ r.src = taken
  BY <1>1, SealFacts DEF Rec, Unit, SealInv, CountType
<1>4. /\ pc = "up" /\ Put(r)
      /\ owed' = owed \cup [why : owes, run : {run}]
      /\ UNCHANGED <<manifest, named, pc, segment, base, acked, promise, cut, unnamed>>
  BY <1>2 DEF AcceptUnit
<1>5. owed' \subseteq Note
  <2>1. owes \subseteq Why
    BY PolicyAssumption
  <2>2. owed \subseteq Note
    BY PlainIs DEF PlainType
  <2>3. QED
    BY <1>4, <2>1, <2>2 DEF Note
<1>6. taken' \in taken..MaxTaken
  BY <1>1, SealFacts
<1> HIDE DEF r
<1>7. QED
  BY <1>1, <1>3, <1>4, <1>5, <1>6, PutSeal

\* So does a note.
LEMMA NoteSeal ==
    ASSUME SealInv, FlushNote
    PROVE  SealInv'
<1>1. PICK n \in owed : /\ Put([kind |-> "note", why |-> n.why, run |-> n.run])
                        /\ owed' = owed \ {n}
  BY DEF FlushNote
<1> DEFINE r == [kind |-> "note", why |-> n.why, run |-> n.run]
<1>2. owed \subseteq Note
  BY PlainIs DEF PlainType
<1>3. r \in Rec
  BY <1>2 DEF Note, Rec
<1>4. /\ pc = "flush" /\ UNCHANGED <<manifest, named, pc, segment, base, acked, promise, cut, unnamed>>
      /\ taken' = taken
  BY DEF FlushNote, past
<1>5. journal[segment].recs # <<>>
  BY <1>4 DEF SealInv, Place, Sealing
<1>6. taken' \in taken..MaxTaken /\ owed' \subseteq Note
  BY <1>1, <1>2, <1>4, SealFacts DEF SealInv, CountType
<1> HIDE DEF r
<1>7. Put(r)
  BY <1>1 DEF r
<1>8. QED
  BY <1>3, <1>4, <1>5, <1>6, <1>7, PutSeal

\* The manifest commits to all of the open segment.
LEMMA CommitSeal ==
    ASSUME SealInv, NEW flushed \in BOOLEAN, Commit(flushed)
    PROVE  SealInv'
<1> DEFINE j == journal[segment]
           M == [before |-> base, recs |-> SubSeq(j.recs, 1, acked)]
<1>1. /\ pc = "commit" /\ pc' = "roll"
      /\ manifest' = [manifest EXCEPT ![segment] = M]
      /\ UNCHANGED <<journal, segment, base, acked, owed, oldest, taken, promise, cut>>
      /\ unnamed' = unnamed + (IF flushed THEN 0 ELSE 1)
      /\ named' = IF flushed THEN {s \in Segment : Sealed(s)'} ELSE named
  BY DEF Commit, NameIt, plane
<1>2. /\ acked = Len(j.recs) /\ j.dur = Len(j.recs) /\ j.recs # <<>> /\ j.recs \in Seq(Rec)
      /\ segment \in Segment /\ segment - 1 <= taken
      /\ \A s \in Segment : Sealed(s) => s < segment
  BY <1>1, SealFacts DEF SealInv, Place, Sealing, OpenPc
<1>3. M \in [before : Seq(Rec), recs : Seq(Rec)] /\ M.recs = j.recs /\ M # NoManifest
  <2>1. SubSeq(j.recs, 1, acked) = j.recs
    BY <1>2
  <2>2. base \in Seq(Rec)
    BY SealFacts
  <2>3. M \in [before : Seq(Rec), recs : Seq(Rec)] /\ M.recs = j.recs
    BY <1>2, <2>1, <2>2
  <2>4. QED
    BY <2>3, PolicyAssumption
<1> HIDE DEF M
<1>4. DOMAIN manifest = Segment
  BY DEF SealInv, CountType
<1>5. /\ manifest'[segment] = M /\ DOMAIN manifest' = Segment
      /\ \A s \in Segment : s # segment => manifest'[s] = manifest[s]
  BY <1>1, <1>2, <1>4
<1>6. \A s \in Segment : Sealed(s)' <=> Sealed(s) \/ s = segment
  BY <1>3, <1>5 DEF Sealed
<1>7. PlaneTypeOK'
  <2>1. \A s \in Segment : Sealed(s)' => manifest'[s] \in [before : Seq(Rec), recs : Seq(Rec)]
    BY <1>3, <1>5, <1>6 DEF SealInv, PlaneTypeOK
  <2>2. named' \subseteq {s \in Segment : Sealed(s)'}
    <3>1. named \subseteq {s \in Segment : Sealed(s)}
      BY DEF SealInv, PlaneTypeOK
    <3>2. QED
      BY <1>1, <1>6, <3>1
  <2>3. acked <= Len(j.recs)
    BY <1>2, SealFacts
  <2>4. /\ journal' \in [Segment -> [recs : Seq(Rec), dur : Nat, start : Seq(Rec)]]
        /\ \A s \in Segment : journal'[s].dur <= Len(journal'[s].recs)
        /\ segment' \in Segment /\ base' \in Seq(Rec) /\ acked' \in Nat
        /\ owed' \subseteq Note /\ oldest' \in {"none", "young", "old"}
        /\ promise' \in Seq(Rec) /\ cut' \subseteq Segment
    BY <1>1 DEF SealInv, PlaneTypeOK
  <2>5. QED
    BY <1>1, <2>1, <2>2, <2>3, <2>4 DEF PlaneTypeOK, Written, Sealed
<1>8. Place'
  <2>0. \A s \in Segment : Sealed(s) \/ s = segment => s <= segment
    BY <1>2, SealFacts DEF Segment
  <2>1. Sealed(segment)' /\ \A s \in Segment : Sealed(s)' => s <= segment
    BY <1>1, <1>3, <1>5, <1>6, <2>0 DEF Sealed
  <2>2. QED
    BY <1>1, <1>2, <2>1 DEF Place, OpenPc, Sealing, Sealed
<1>9. ASSUME NEW s \in Segment, Sealed(s)'
      PROVE  Kept(s)'
  <2>1. CASE s = segment
    BY <1>1, <1>2, <1>3, <1>5, <2>1 DEF Kept
  <2>2. CASE s # segment
    <3>1. Kept(s)
      BY <1>6, <1>9, <2>2 DEF SealInv
    <3>2. QED
      BY <1>1, <1>5, <2>2, <3>1 DEF Kept
  <2>3. QED
    BY <2>1, <2>2
<1>10. \A s \in Segment : BeginsWithUnit(s)'
  BY <1>1 DEF SealInv, BeginsWithUnit
<1>11. CountType'
  BY <1>1, <1>5, SealFacts DEF SealInv, CountType
<1>12. QED
  BY <1>7, <1>8, <1>9, <1>10, <1>11 DEF SealInv

\* What a power cut leaves of the manifests: the named ones, and perhaps others.
CutManifests ==
    /\ DOMAIN manifest' = Segment
    /\ \A s \in Segment : manifest'[s] = manifest[s] \/ (s \notin named /\ manifest'[s] = NoManifest)
    /\ \A s \in Segment : Sealed(s)' => Sealed(s) /\ manifest'[s] = manifest[s]
    /\ named' = {s \in Segment : Sealed(s)'}

\* A power cut takes only manifests whose name was not made durable.
LEMMA CutManifestsIs ==
    ASSUME PowerCut
    PROVE  CutManifests
<1>1. PICK gone \in SUBSET {s \in Segment : Sealed(s) /\ s \notin named} :
         manifest' = [s \in Segment |-> IF s \in gone THEN NoManifest ELSE manifest[s]]
  BY DEF PowerCut
<1>2. named' = {s \in Segment : Sealed(s)'}
  BY DEF PowerCut
<1>3. QED
  BY <1>1, <1>2 DEF CutManifests, Sealed

\* A power cut: what a manifest describes was durable before it was written.
LEMMA CutSeal ==
    ASSUME SealInv, PowerCut
    PROVE  SealInv'
<1>1. CutEffect
  BY CutIs, SealFacts
<1>2. CutManifests
  BY CutManifestsIs
<1>3. /\ pc' = "down" /\ UNCHANGED <<segment, base, owed, oldest, taken, unnamed, acked, promise>>
      /\ cut' \subseteq Segment
  BY PlainIs DEF PowerCut, Interrupt, PlainType
<1>4. ASSUME NEW s \in Segment
      PROVE  /\ journal'[s].dur <= Len(journal'[s].recs)
             /\ BeginsWithUnit(s)'
  <2> DEFINE j == journal[s].recs
  <2>1. PICK k \in journal[s].dur..Len(j) :
           journal'[s].recs = SubSeq(j, 1, k) /\ journal'[s].dur = k
    BY <1>1 DEF CutEffect
  <2>2. j \in Seq(Rec) /\ Len(j) \in Nat /\ k \in Nat /\ k <= Len(j)
    BY <2>1, SealFacts
  <2> HIDE DEF j
  <2>3. Len(SubSeq(j, 1, k)) = k /\ (k # 0 => SubSeq(j, 1, k)[1] = j[1])
    BY <2>2
  <2>4. k <= k
    BY <2>2
  <2>5. SubSeq(j, 1, k) # <<>> => k # 0 /\ j # <<>>
    BY <2>2, <2>3
  <2>6. BeginsWithUnit(s)
    BY DEF SealInv
  <2>7. QED
    BY <1>3, <2>1, <2>3, <2>4, <2>5, <2>6 DEF BeginsWithUnit, j
<1>5. PlaneTypeOK'
  <2>1. journal' \in [Segment -> Journal]
    BY <1>1 DEF CutEffect
  <2>2. \A s \in Segment : Sealed(s)' => manifest'[s] \in [before : Seq(Rec), recs : Seq(Rec)]
    BY <1>2 DEF CutManifests, SealInv, PlaneTypeOK
  <2>3. named' \subseteq {s \in Segment : Sealed(s)'}
    BY <1>2 DEF CutManifests
  <2>4. /\ segment' \in Segment /\ base' \in Seq(Rec) /\ acked' \in Nat
        /\ owed' \subseteq Note /\ oldest' \in {"none", "young", "old"}
        /\ promise' \in Seq(Rec)
    BY <1>3, PlainIs DEF PlainType
  <2>5. QED
    BY <1>3, <1>4, <2>1, <2>2, <2>3, <2>4 DEF PlaneTypeOK, Journal, Sealed
<1>6. Place'
  BY <1>3 DEF Place, OpenPc, Sealing
<1>7. \A s \in Segment : (Sealed(s) => Kept(s))'
  <2> SUFFICES ASSUME NEW s \in Segment, Sealed(s)' PROVE Kept(s)'
    OBVIOUS
  <2>1. Sealed(s) /\ manifest'[s] = manifest[s]
    BY <1>2 DEF CutManifests
  <2>2. Kept(s)
    BY <2>1 DEF SealInv
  <2>3. journal'[s] = journal[s]
    BY <1>1, <2>2 DEF Kept, CutEffect
  <2>4. QED
    BY <2>1, <2>2, <2>3 DEF Kept
<1>8. CountType'
  BY <1>2, <1>3 DEF SealInv, CountType, CutManifests
<1>9. QED
  BY <1>4, <1>5, <1>6, <1>7, <1>8 DEF SealInv

\* Every step keeps manifests and journals together.
LEMMA NextSeal ==
    ASSUME SealInv, [Next]_vars
    PROVE  SealInv'
<1>1. CASE Open
  BY <1>1, OpenSeal
<1>2. CASE OpenRefused \/ Idle \/ TimePasses \/ StartSeal \/ RollRefused \/ Exit \/ UNCHANGED vars
  BY <1>2, QuietSeal DEF OpenRefused, Idle
<1>3. CASE Resync \/ Sync \/ SealSync \/ StopAfterSync
  BY <1>3, FlushSeal
<1>4. CASE Accept
  BY <1>4, AcceptSeal
<1>5. CASE FlushNote
  BY <1>5, NoteSeal
<1>6. CASE \E flushed \in BOOLEAN : Commit(flushed)
  BY <1>6, CommitSeal
<1>7. CASE Roll
  BY <1>7, RollSeal
<1>8. CASE PowerCut
  BY <1>8, CutSeal
<1>9. QED
  BY <1>1, <1>2, <1>3, <1>4, <1>5, <1>6, <1>7, <1>8 DEF Next

\* seal: a manifest describes exactly the records of its journal and all of them are
\* durable, whatever the policy and however often the process or the power goes.
THEOREM SealsAreWhole == Spec => [](PlaneTypeOK /\ SealedIsWhole)
<1>1. SealInv /\ [Next]_vars => SealInv'
  BY NextSeal
<1>2. SealInv => PlaneTypeOK /\ SealedIsWhole
  BY DEF SealInv, SealedIsWhole, Kept
<1>3. QED
  BY <1>1, <1>2, InitSeal, PTL DEF Spec

-----------------------------------------------------------------------------
(* One chain.                                                              *)

Before(s) == IF s = 1 THEN <<>> ELSE ChainAfter(s - 1)

\* Exactly the segments up to m are sealed, each from the head of the one before;
\* only the last of them may still lose its name.
ChainTo(m) ==
    /\ \A s \in Segment : Sealed(s) <=> s <= m
    /\ \A s \in Segment : s <= m => manifest[s].before = Before(s)
    /\ OpenPc => segment = m + 1 /\ base = Before(segment)
    /\ pc = "roll" => segment = m
    /\ \A s \in Segment : s <= m /\ s \notin named => s = m /\ unnamed > 0

ChainInv == unnamed <= 1 => \E m \in 0..MaxSegs : ChainTo(m)

\* A step that leaves the manifests alone and does not move to another segment.
LEMMA ChainStays ==
    ASSUME NEW m \in 0..MaxSegs, ChainTo(m), UNCHANGED <<manifest, named, unnamed, segment, base>>,
           OpenPc' => OpenPc, pc' = "roll" => pc = "roll"
    PROVE  ChainTo(m)'
BY DEF ChainTo, Sealed, Before, ChainAfter

\* Opening leaves the chain of manifests as it is.
LEMMA ChainOpens ==
    ASSUME SealInv, NEW m \in 0..MaxSegs, ChainTo(m), Open
    PROVE  ChainTo(m)'
<1>0. MaxSegs \in Nat /\ m \in Nat
  BY SealFacts
<1>1. LastSealed = m
  <2>1. \A s \in Segment : Sealed(s) <=> s <= m
    BY DEF ChainTo
  <2>2. m # 0 => m \in Segment /\ m <= LastSealed
    BY <1>0, <2>1, LastSealedIs DEF Segment
  <2>3. LastSealed # 0 => LastSealed <= m
    BY <2>1, LastSealedIs
  <2>4. LastSealed \in Nat
    BY <1>0, LastSealedIs
  <2>5. QED
    BY <1>0, <2>2, <2>3, <2>4
<1>2. UNCHANGED <<manifest, named, unnamed>> /\ segment' = m + 1 /\ base' = NextStart
  BY <1>1 DEF Open, files, past
<1>3. pc' \in {"resync", "up"}
  BY DEF Open
<1>4. NextStart = IF m = 0 THEN <<>> ELSE ChainAfter(m)
  BY <1>1 DEF NextStart
<1>5. (m + 1 = 1 <=> m = 0) /\ m + 1 - 1 = m
  BY <1>0
<1>6. NextStart = Before(m + 1)
  BY <1>4, <1>5 DEF Before
<1>7. base' = Before(segment)'
  BY <1>2, <1>6 DEF Before, ChainAfter
<1>8. QED
  BY <1>2, <1>3, <1>7 DEF ChainTo, Sealed, Before, ChainAfter

\* So does rolling.
LEMMA ChainRolls ==
    ASSUME SealInv, NEW m \in 0..MaxSegs, ChainTo(m), Roll
    PROVE  ChainTo(m)'
<1>0. MaxSegs \in Nat /\ m \in Nat /\ segment \in 1..MaxSegs
  BY SealFacts DEF Segment
<1>1. /\ UNCHANGED <<manifest, named, unnamed>> /\ segment' = m + 1 /\ base' = ChainAfter(m)
      /\ pc' = "up" /\ segment = m
  BY DEF Roll, files, past, ChainTo
<1>2. m + 1 # 1 /\ m + 1 - 1 = m
  BY <1>0, <1>1
<1>3. base' = Before(segment)'
  <2>1. Before(m + 1) = ChainAfter(m)
    BY <1>2 DEF Before
  <2>2. QED
    BY <1>1, <2>1 DEF Before, ChainAfter
<1>4. QED
  BY <1>1, <1>3 DEF ChainTo, Sealed, Before, ChainAfter

\* A manifest that is written makes the chain longer by one.
LEMMA ChainCommits ==
    ASSUME SealInv, NEW m \in 0..MaxSegs, ChainTo(m), NEW flushed \in BOOLEAN, Commit(flushed),
           unnamed' <= 1
    PROVE  m + 1 \in 0..MaxSegs /\ ChainTo(m + 1)'
<1> DEFINE M == [before |-> base, recs |-> SubSeq(journal[segment].recs, 1, acked)]
<1>0. MaxSegs \in Nat /\ m \in Nat /\ segment \in 1..MaxSegs /\ unnamed \in Nat /\ segment \in Segment
  BY SealFacts DEF Segment
<1>1. /\ pc = "commit" /\ pc' = "roll" /\ segment' = segment
      /\ manifest' = [manifest EXCEPT ![segment] = M]
      /\ unnamed' = unnamed + (IF flushed THEN 0 ELSE 1)
      /\ named' = IF flushed THEN {s \in Segment : Sealed(s)'} ELSE named
  BY DEF Commit, NameIt, plane
<1>2. segment = m + 1 /\ base = Before(m + 1)
  BY <1>1 DEF ChainTo, OpenPc
<1>3. M # NoManifest /\ M.before = Before(m + 1)
  <2>1. acked = Len(journal[segment].recs)
    BY <1>1 DEF SealInv, Place
  <2>2. SubSeq(journal[segment].recs, 1, acked) \in Seq(Rec) /\ base \in Seq(Rec)
    BY <1>0, <2>1, SealFacts
  <2>3. M \in [before : Seq(Rec), recs : Seq(Rec)]
    BY <2>2
  <2>4. QED
    BY <1>2, <2>3, PolicyAssumption
<1> HIDE DEF M
<1>4. /\ manifest'[segment] = M
      /\ \A s \in Segment : s # segment => manifest'[s] = manifest[s]
  BY <1>0, <1>1 DEF SealInv, CountType
<1>5. \A s \in Segment : Sealed(s)' <=> s <= m + 1
  <2>1. \A s \in Segment : Sealed(s)' <=> Sealed(s) \/ s = segment
    BY <1>3, <1>4 DEF Sealed
  <2>2. \A s \in Segment : s <= m + 1 <=> s <= m \/ s = m + 1
    BY <1>0 DEF Segment
  <2>3. QED
    BY <1>2, <2>1, <2>2 DEF ChainTo
<1>6. ASSUME NEW s \in Segment, s <= m + 1
      PROVE  manifest'[s].before = Before(s)'
  <2>1. Before(s)' = Before(s)
    <3>1. s # 1 => s - 1 \in Segment /\ s - 1 # segment
      BY <1>0, <1>2, <1>6 DEF Segment
    <3>2. QED
      BY <1>4, <3>1 DEF Before, ChainAfter
  <2>2. CASE s = m + 1
    BY <1>2, <1>3, <1>4, <2>1, <2>2
  <2>3. CASE s # m + 1
    <3>1. s <= m /\ s # segment
      BY <1>0, <1>2, <1>6, <2>3 DEF Segment
    <3>2. QED
      BY <1>4, <2>1, <3>1 DEF ChainTo
  <2>4. QED
    BY <2>2, <2>3
<1>7. ASSUME NEW s \in Segment, s <= m + 1, s \notin named'
      PROVE  s = m + 1 /\ unnamed' > 0
  <2>1. ~ flushed
    BY <1>1, <1>5, <1>7
  <2>2. named' = named /\ unnamed' = unnamed + 1 /\ unnamed = 0
    BY <1>0, <1>1, <2>1
  <2>3. s <= m => s \in named
    BY <1>0, <2>2 DEF ChainTo
  <2>4. s <= m \/ s = m + 1
    BY <1>0, <1>7 DEF Segment
  <2>5. QED
    BY <1>0, <1>7, <2>2, <2>3, <2>4
<1>8. m + 1 \in 0..MaxSegs
  BY <1>0, <1>2
<1>9. QED
  BY <1>1, <1>2, <1>5, <1>6, <1>7, <1>8 DEF ChainTo, OpenPc

\* A power cut leaves a chain, perhaps a shorter one.
LEMMA ChainCut ==
    ASSUME SealInv, NEW m \in 0..MaxSegs, ChainTo(m), PowerCut
    PROVE  \E n \in 0..MaxSegs : ChainTo(n)'
<1>0. MaxSegs \in Nat /\ m \in Nat
  BY SealFacts
<1>1. CutManifests /\ pc' = "down"
  BY CutManifestsIs DEF PowerCut, Interrupt
<1>2. \A s \in Segment : s < m => s \in named
  BY <1>0 DEF ChainTo, Segment
<1>3. \A s \in Segment : s < m => manifest'[s] = manifest[s] /\ Sealed(s)'
  BY <1>0, <1>1, <1>2 DEF ChainTo, CutManifests, Sealed, Segment
<1>4. \A s \in Segment : Sealed(s)' => s <= m /\ manifest'[s] = manifest[s]
  BY <1>1 DEF ChainTo, CutManifests
<1>5. ASSUME NEW s \in Segment, Sealed(s)'
      PROVE  manifest'[s].before = Before(s)'
  <2>1. s # 1 => s - 1 \in Segment /\ s - 1 < m
    BY <1>0, <1>4, <1>5 DEF Segment
  <2>2. s # 1 => manifest'[s - 1] = manifest[s - 1]
    BY <1>3, <2>1
  <2>3. Before(s)' = Before(s)
    BY <2>2 DEF Before, ChainAfter
  <2>4. QED
    BY <1>4, <1>5, <2>3 DEF ChainTo
<1>6. named' = {s \in Segment : Sealed(s)'}
  BY <1>1 DEF CutManifests
<1>7. CASE m \in Segment => Sealed(m)'
  <2>1. \A s \in Segment : Sealed(s)' <=> s <= m
    <3>1. \A s \in Segment : s <= m => s < m \/ s = m
      BY <1>0 DEF Segment
    <3>2. QED
      BY <1>3, <1>4, <1>7, <3>1
  <2>2. ChainTo(m)'
    BY <1>1, <1>5, <1>6, <2>1 DEF ChainTo, OpenPc
  <2>3. QED
    BY <2>2
<1>8. CASE m \in Segment /\ ~ Sealed(m)'
  <2>1. m - 1 \in 0..MaxSegs
    BY <1>0, <1>8 DEF Segment
  <2>2. \A s \in Segment : Sealed(s)' <=> s <= m - 1
    <3>1. \A s \in Segment : /\ s <= m - 1 <=> s < m
                             /\ s <= m => s < m \/ s = m
      BY <1>0 DEF Segment
    <3>2. QED
      BY <1>3, <1>4, <1>8, <3>1
  <2>3. ChainTo(m - 1)'
    BY <1>1, <1>5, <1>6, <2>2 DEF ChainTo, OpenPc
  <2>4. QED
    BY <2>1, <2>3
<1>9. QED
  BY <1>7, <1>8

\* The steps that neither move to another segment nor touch a manifest.
LEMMA StillSteps ==
    ASSUME [Next]_vars, ~ Open, ~ Roll, ~ (\E flushed \in BOOLEAN : Commit(flushed)), ~ PowerCut
    PROVE  /\ UNCHANGED <<manifest, named, unnamed, segment, base>>
           /\ OpenPc' => OpenPc
           /\ pc' = "roll" => pc = "roll"
<1> USE DEF OpenPc, files, plane, past, vars
<1>1. CASE OpenRefused \/ Idle \/ TimePasses \/ StartSeal \/ RollRefused \/ UNCHANGED vars
  BY <1>1 DEF OpenRefused, Idle, TimePasses, StartSeal, RollRefused
<1>2. CASE Resync \/ Sync \/ SealSync \/ StopAfterSync \/ Exit
  BY <1>2 DEF Resync, Sync, SealSync, StopAfterSync, Exit, Interrupt
<1>3. CASE Accept \/ FlushNote
  BY <1>3 DEF Accept, AcceptUnit, FlushNote
<1>4. QED
  BY <1>1, <1>2, <1>3 DEF Next

\* The count of directory flushes that did not happen never falls.
LEMMA UnnamedGrows ==
    ASSUME SealInv, [Next]_vars
    PROVE  unnamed \in Nat /\ unnamed' \in Nat /\ unnamed <= unnamed'
<1>1. unnamed \in Nat
  BY SealFacts
<1>2. CASE Open \/ Roll \/ PowerCut
  <2>1. unnamed' = unnamed
    BY <1>2 DEF Open, Roll, PowerCut, Interrupt, past
  <2>2. QED
    BY <1>1, <2>1
<1>3. CASE \E flushed \in BOOLEAN : Commit(flushed)
  <2>1. unnamed' = unnamed + 0 \/ unnamed' = unnamed + 1
    BY <1>3 DEF Commit, NameIt
  <2>2. QED
    BY <1>1, <2>1
<1>4. CASE unnamed' = unnamed
  BY <1>1, <1>4
<1>5. QED
  BY <1>2, <1>3, <1>4, StillSteps

\* Every step keeps the chain, while at most one such flush is missing.
LEMMA NextChain ==
    ASSUME SealInv, ChainInv, [Next]_vars
    PROVE  ChainInv'
<1> SUFFICES ASSUME unnamed' <= 1 PROVE \E n \in 0..MaxSegs : ChainTo(n)'
  BY DEF ChainInv
<1>1. unnamed <= 1
  BY UnnamedGrows
<1>2. PICK m \in 0..MaxSegs : ChainTo(m)
  BY <1>1 DEF ChainInv
<1>3. CASE Open
  BY <1>2, <1>3, ChainOpens
<1>4. CASE Roll
  BY <1>2, <1>4, ChainRolls
<1>5. CASE \E flushed \in BOOLEAN : Commit(flushed)
  BY <1>2, <1>5, ChainCommits
<1>6. CASE PowerCut
  BY <1>2, <1>6, ChainCut
<1>7. CASE ~ (Open \/ Roll \/ PowerCut \/ \E flushed \in BOOLEAN : Commit(flushed))
  <2>1. ChainTo(m)'
    BY <1>2, <1>7, StillSteps, ChainStays
  <2>2. QED
    BY <2>1
<1>8. QED
  BY <1>3, <1>4, <1>5, <1>6, <1>7

\* The empty chain.
LEMMA InitChain == Init => ChainInv
<1> SUFFICES ASSUME Init PROVE ChainTo(0) /\ 0 \in 0..MaxSegs
  BY DEF ChainInv
<1>1. \A s \in Segment : ~ Sealed(s) /\ ~ (s <= 0)
  BY DEF Init, Sealed, Segment
<1>2. QED
  BY <1>1, PlaneBoundAssumption DEF Init, ChainTo, OpenPc

\* seal and open: the sealed segments are whole, durable and one unbroken chain from
\* the genesis, whatever the policy, the number of segments and the order of restarts and
\* power cuts, as long as the directory flush after a rename, which the code calls best
\* effort, has failed to happen at most once.
THEOREM OneChain == Spec => [](unnamed <= 1 => SealedHistoryIsWhole)
<1>1. SealInv /\ ChainInv /\ [Next]_vars => (SealInv /\ ChainInv)'
  BY NextSeal, NextChain
<1>2. SealInv /\ ChainInv => (unnamed <= 1 => SealedHistoryIsWhole)
  <2> SUFFICES ASSUME SealInv, ChainInv, unnamed <= 1 PROVE SealedHistoryIsWhole
    OBVIOUS
  <2>1. PlaneTypeOK /\ SealedIsWhole
    BY DEF SealInv, SealedIsWhole, Kept
  <2>2. PICK m \in 0..MaxSegs : ChainTo(m)
    BY DEF ChainInv
  <2>3. ASSUME NEW s \in Segment, Sealed(s)
        PROVE  IF s = 1 THEN manifest[s].before = <<>>
               ELSE Sealed(s - 1) /\ manifest[s].before = ChainAfter(s - 1)
    <3>1. s <= m /\ manifest[s].before = Before(s)
      BY <2>2, <2>3 DEF ChainTo
    <3>2. s # 1 => s - 1 \in Segment /\ s - 1 <= m
      BY <3>1, SealFacts DEF Segment
    <3>3. s # 1 => Sealed(s - 1)
      BY <2>2, <3>2 DEF ChainTo
    <3>4. QED
      BY <3>1, <3>3 DEF Before
  <2>4. QED
    BY <2>1, <2>3 DEF SealedHistoryIsWhole, ChainMeets
<1>3. QED
  BY <1>1, <1>2, InitSeal, InitChain, PTL DEF Spec

-----------------------------------------------------------------------------
(* Notes.                                                                  *)

HasNote(q, why, run) ==
    \E i \in 1..Len(q) : q[i].kind = "note" /\ q[i].why = why /\ q[i].run = run

\* What the units of q cost is noted in q, or among the notes in O.
Beside(q, O) ==
    \A i \in 1..Len(q) : q[i].kind = "unit" =>
        \A why \in q[i].owes :
            HasNote(q, why, q[i].run) \/ [why |-> why, run |-> q[i].run] \in O

\* NotesIn, said of the sequence of records.
LEMMA NotesAre ==
    ASSUME NEW s
    PROVE  NotesIn(s) <=> Beside(journal[s].recs, {})
BY DEF NotesIn, Noted, Beside, HasNote

\* A note stays in the sequence when a record is appended.
LEMMA NotesStay ==
    ASSUME NEW q \in Seq(Rec), NEW r \in Rec, NEW why, NEW run, HasNote(q, why, run)
    PROVE  HasNote(Append(q, r), why, run)
<1>1. PICK i \in 1..Len(q) : q[i].kind = "note" /\ q[i].why = why /\ q[i].run = run
  BY DEF HasNote
<1>2. i \in 1..Len(Append(q, r)) /\ Append(q, r)[i] = q[i]
  OBVIOUS
<1>3. QED
  BY <1>1, <1>2 DEF HasNote

\* Accepting a unit and owing what it cost, or writing one of the notes owed.
LEMMA BesideGrows ==
    ASSUME NEW q \in Seq(Rec), NEW r \in Rec, NEW O, NEW P, Beside(q, O),
           \A n \in O : n \in P \/ (r.kind = "note" /\ r.why = n.why /\ r.run = n.run),
           r.kind = "unit" => \A why \in r.owes : [why |-> why, run |-> r.run] \in P
    PROVE  Beside(Append(q, r), P)
<1> DEFINE t == Append(q, r)
<1>1. /\ t \in Seq(Rec) /\ Len(t) = Len(q) + 1 /\ Len(q) \in Nat
      /\ \A i \in 1..Len(q) : t[i] = q[i]
      /\ t[Len(q) + 1] = r
  OBVIOUS
<1>2. ASSUME NEW i \in 1..Len(t), t[i].kind = "unit", NEW why \in t[i].owes
      PROVE  HasNote(t, why, t[i].run) \/ [why |-> why, run |-> t[i].run] \in P
  <2>1. CASE i = Len(q) + 1
    BY <1>1, <1>2, <2>1
  <2>2. CASE i # Len(q) + 1
    <3>1. i \in 1..Len(q) /\ t[i] = q[i]
      BY <1>1, <2>2
    <3> DEFINE n == [why |-> why, run |-> q[i].run]
    <3>2. HasNote(q, why, q[i].run) \/ n \in O
      BY <1>2, <3>1 DEF Beside
    <3>3. CASE HasNote(q, why, q[i].run)
      BY <3>1, <3>3, NotesStay
    <3>4. CASE n \in O /\ n \notin P
      <4>1. r.kind = "note" /\ r.why = why /\ r.run = q[i].run
        BY <3>4
      <4>2. Len(q) + 1 \in 1..Len(t)
        BY <1>1
      <4>3. HasNote(t, why, q[i].run)
        BY <1>1, <4>1, <4>2 DEF HasNote
      <4>4. QED
        BY <3>1, <4>3
    <3>5. CASE n \in P
      BY <3>1, <3>5
    <3>6. QED
      BY <3>2, <3>3, <3>4, <3>5
  <2>3. QED
    BY <2>1, <2>2
<1>3. QED
  BY <1>2 DEF Beside

Busy(s) == OpenPc /\ s = segment

\* The notes of a segment one process wrote are in it or still owed, and once it
\* is not written to any more all of it is durable.
NotesOf(s) ==
    /\ ~ Busy(s) => journal[s].dur = Len(journal[s].recs) /\ Beside(journal[s].recs, {})
    /\ Busy(s) => Beside(journal[s].recs, owed)

NotesInv ==
    /\ pc \in {"commit", "roll"} => owed = {}
    /\ \A s \in Segment : s \notin cut => NotesOf(s)

\* What is owed can only be more.
LEMMA BesideMore ==
    ASSUME NEW q, NEW O, Beside(q, {})
    PROVE  Beside(q, O)
BY DEF Beside

\* Nothing is lost at first.
LEMMA InitNotes == Init => NotesInv
<1> SUFFICES ASSUME Init, NEW s \in Segment PROVE NotesOf(s)
  BY DEF Init, NotesInv
<1>1. journal[s].recs = <<>> /\ journal[s].dur = 0 /\ Len(<<>>) = 0
  BY DEF Init, Empty
<1>2. Beside(<<>>, {})
  BY DEF Beside
<1>3. QED
  BY <1>1, <1>2 DEF NotesOf, Busy, OpenPc, Init

\* The end of a process takes the segment it had begun out of the claim, and leaves
\* one it had not.
LEMMA EndNotes ==
    ASSUME SealInv, NotesInv, Interrupt,
           \A s \in Segment : /\ journal[s].dur = Len(journal[s].recs)
                              /\ ~ Busy(s) \/ journal[s].recs = <<>>
                              => /\ journal'[s].recs = journal[s].recs
                                 /\ journal'[s].dur = journal[s].dur
    PROVE  NotesInv'
<1>1. /\ pc' = "down"
      /\ cut' = cut \cup (IF OpenPc /\ journal[segment].recs # <<>> THEN {segment} ELSE {})
  BY DEF Interrupt, OpenPc
<1>2. ASSUME NEW s \in Segment, s \notin cut'
      PROVE  NotesOf(s)'
  <2>1. s \notin cut /\ (~ Busy(s) \/ journal[s].recs = <<>>)
    BY <1>1, <1>2 DEF Busy
  <2>2. journal[s].dur = Len(journal[s].recs) /\ Beside(journal[s].recs, {})
    <3>1. CASE ~ Busy(s)
      BY <2>1, <3>1 DEF NotesInv, NotesOf
    <3>2. CASE journal[s].recs = <<>>
      <4>1. Len(journal[s].recs) = 0
        BY <3>2
      <4>2. journal[s].dur = 0
        BY <4>1, SealFacts
      <4>3. Beside(<<>>, {})
        BY DEF Beside
      <4>4. QED
        BY <3>2, <4>1, <4>2, <4>3
    <3>3. QED
      BY <2>1, <3>1, <3>2
  <2>3. journal'[s].recs = journal[s].recs /\ journal'[s].dur = journal[s].dur
    BY <2>1, <2>2
  <2>4. ~ Busy(s)'
    BY <1>1 DEF Busy, OpenPc
  <2>5. QED
    BY <2>2, <2>3, <2>4 DEF NotesOf
<1>3. QED
  BY <1>1, <1>2 DEF NotesInv

\* A step of the process that appends nothing.
LEMMA StillNotes ==
    ASSUME NotesInv, OpenPc' = OpenPc, UNCHANGED <<segment, cut, owed>>,
           pc' \in {"commit", "roll"} => owed = {},
           \A s \in Segment : journal'[s].recs = journal[s].recs,
           \A s \in Segment : ~ Busy(s) => journal'[s].dur = journal[s].dur
    PROVE  NotesInv'
<1>1. ASSUME NEW s \in Segment, s \notin cut'
      PROVE  NotesOf(s)'
  <2>1. NotesOf(s)
    BY <1>1 DEF NotesInv
  <2>2. Busy(s)' <=> Busy(s)
    BY DEF Busy
  <2>3. QED
    BY <2>1, <2>2 DEF NotesOf
<1>2. QED
  BY <1>1 DEF NotesInv

\* Open and Roll: nothing is being written to, and the plane moves to a segment.
LEMMA MoveNotes ==
    ASSUME NotesInv, Open \/ Roll
    PROVE  NotesInv'
<1>1. /\ ~ OpenPc /\ pc' \notin {"commit", "roll"}
      /\ journal' = journal /\ cut' = cut
  BY DEF Open, Roll, OpenPc, files, past
<1>2. ASSUME NEW s \in Segment, s \notin cut'
      PROVE  NotesOf(s)'
  <2>1. journal[s].dur = Len(journal[s].recs) /\ Beside(journal[s].recs, {})
    BY <1>1, <1>2 DEF NotesInv, NotesOf, Busy
  <2>2. Beside(journal[s].recs, owed')
    BY <2>1, BesideMore
  <2>3. QED
    BY <1>1, <2>1, <2>2 DEF NotesOf
<1>3. QED
  BY <1>1, <1>2 DEF NotesInv

\* accept and flush_notes: one record is appended to the open segment.
LEMMA PutNotes ==
    ASSUME SealInv, NotesInv, NEW r \in Rec, Put(r), pc \in {"up", "flush"},
           UNCHANGED <<pc, segment, cut>>,
           \A n \in owed : n \in owed' \/ (r.kind = "note" /\ r.why = n.why /\ r.run = n.run),
           r.kind = "unit" => \A why \in r.owes : [why |-> why, run |-> r.run] \in owed'
    PROVE  NotesInv'
<1>1. PutEffect(r)
  BY PutIs, SealFacts
<1>2. OpenPc /\ OpenPc' /\ pc' \notin {"commit", "roll"}
  BY DEF OpenPc
<1>3. ASSUME NEW s \in Segment, s \notin cut'
      PROVE  NotesOf(s)'
  <2>1. NotesOf(s)
    BY <1>3 DEF NotesInv
  <2>2. CASE s = segment
    <3>1. Beside(journal[s].recs, owed)
      BY <1>2, <2>1, <2>2 DEF NotesOf, Busy
    <3>2. Beside(Append(journal[s].recs, r), owed')
      BY <3>1, BesideGrows, SealFacts
    <3>3. journal'[s].recs = Append(journal[s].recs, r)
      BY <1>1, <2>2 DEF PutEffect
    <3>4. QED
      BY <1>2, <2>2, <3>2, <3>3 DEF NotesOf, Busy
  <2>3. CASE s # segment
    BY <1>1, <2>1, <2>3 DEF NotesOf, Busy, PutEffect
  <2>4. QED
    BY <2>2, <2>3
<1>4. QED
  BY <1>2, <1>3 DEF NotesInv

\* A segment is sealed only when nothing is owed to it.
LEMMA CommitNotes ==
    ASSUME SealInv, NotesInv, NEW flushed \in BOOLEAN, Commit(flushed)
    PROVE  NotesInv'
<1>1. /\ pc = "commit" /\ pc' = "roll" /\ UNCHANGED <<journal, segment, cut, owed>>
  BY DEF Commit, plane
<1>2. journal[segment].dur = Len(journal[segment].recs) /\ owed = {}
  BY <1>1 DEF SealInv, Place, NotesInv
<1>3. ASSUME NEW s \in Segment, s \notin cut'
      PROVE  NotesOf(s)'
  <2>1. NotesOf(s)
    BY <1>1, <1>3 DEF NotesInv
  <2>2. QED
    BY <1>1, <1>2, <2>1 DEF NotesOf, Busy, OpenPc
<1>4. QED
  BY <1>1, <1>2, <1>3 DEF NotesInv

\* Every step keeps losses noted or owed.
LEMMA NextNotes ==
    ASSUME SealInv, NotesInv, [Next]_vars
    PROVE  NotesInv'
<1>1. CASE Open \/ Roll
  BY <1>1, MoveNotes
<1>2. CASE Accept
  <2>1. PICK run \in Run, owes \in Losses : AcceptUnit(run, owes, taken) /\ taken < MaxTaken
    BY <1>2 DEF Accept
  <2> DEFINE r == [kind |-> "unit", run |-> run, owes |-> owes, src |-> taken]
  <2>2. /\ r \in Rec /\ r.kind = "unit" /\ r.owes = owes /\ r.run = run
    BY SealFacts DEF Rec, Unit, SealInv, CountType
  <2>3. /\ pc = "up" /\ Put(r) /\ owed' = owed \cup [why : owes, run : {run}]
        /\ UNCHANGED <<pc, segment, cut>>
    BY <2>1 DEF AcceptUnit
  <2>4. \A why \in owes : [why |-> why, run |-> run] \in owed'
    BY <2>3
  <2>5. \A n \in owed : n \in owed'
    BY <2>3
  <2> HIDE DEF r
  <2>6. QED
    BY <2>2, <2>3, <2>4, <2>5, PutNotes
<1>3. CASE FlushNote
  <2>1. PICK n \in owed : /\ Put([kind |-> "note", why |-> n.why, run |-> n.run])
                          /\ owed' = owed \ {n}
    BY <1>3 DEF FlushNote
  <2> DEFINE r == [kind |-> "note", why |-> n.why, run |-> n.run]
  <2>2. owed \subseteq Note
    BY PlainIs DEF PlainType
  <2>3. r \in Rec /\ r.kind = "note" /\ r.why = n.why /\ r.run = n.run
    BY <2>2 DEF Note, Rec
  <2>4. pc = "flush" /\ UNCHANGED <<pc, segment, cut>>
    BY <1>3 DEF FlushNote, past
  <2>5. \A o \in owed : o \in owed' \/ o = n
    BY <2>1
  <2> HIDE DEF r
  <2>6. Put(r)
    BY <2>1 DEF r
  <2>7. QED
    BY <2>3, <2>4, <2>5, <2>6, PutNotes
<1>4. CASE Resync \/ Sync \/ SealSync
  <2>1. /\ JournalSync /\ OpenPc /\ OpenPc' /\ UNCHANGED <<segment, cut, owed>>
        /\ pc' \in {"commit", "roll"} => owed = {}
    BY <1>4 DEF Resync, Sync, SealSync, OpenPc
  <2>2. SyncEffect
    BY <2>1, SyncIs, SealFacts
  <2>3. \A s \in Segment : ~ Busy(s) => journal'[s].dur = journal[s].dur
    BY <2>1, <2>2 DEF Busy, SyncEffect
  <2>4. \A s \in Segment : journal'[s].recs = journal[s].recs
    BY <2>2 DEF SyncEffect
  <2>5. OpenPc' = OpenPc
    BY <2>1 DEF OpenPc
  <2>6. QED
    BY <2>1, <2>3, <2>4, <2>5, StillNotes
<1>5. CASE OpenRefused \/ Idle \/ TimePasses \/ StartSeal \/ UNCHANGED vars \/ RollRefused
  <2>1. /\ UNCHANGED <<journal, segment, cut, owed>> /\ OpenPc' = OpenPc
        /\ pc' = pc \/ pc' \notin {"commit", "roll"}
    BY <1>5 DEF OpenRefused, Idle, TimePasses, StartSeal, RollRefused, OpenPc, vars, files, plane, past
  <2>2. pc' \in {"commit", "roll"} => owed = {}
    BY <2>1 DEF NotesInv
  <2>3. QED
    BY <2>1, <2>2, StillNotes
<1>6. CASE \E flushed \in BOOLEAN : Commit(flushed)
  BY <1>6, CommitNotes
<1>7. CASE Exit
  BY <1>7, EndNotes DEF Exit, files
<1>8. CASE StopAfterSync
  <2>1. JournalSync /\ Interrupt /\ OpenPc
    BY <1>8 DEF StopAfterSync, OpenPc
  <2>2. SyncEffect
    BY <2>1, SyncIs, SealFacts
  <2>3. \A s \in Segment : journal[s].dur = Len(journal[s].recs)
                           => /\ journal'[s].recs = journal[s].recs
                              /\ journal'[s].dur = journal[s].dur
    BY <2>2 DEF SyncEffect
  <2>4. QED
    BY <2>1, <2>3, EndNotes
<1>9. CASE PowerCut
  <2>1. CutEffect /\ Interrupt
    BY <1>9, CutIs, SealFacts DEF PowerCut
  <2>2. QED
    BY <2>1, EndNotes DEF CutEffect
<1>10. QED
  BY <1>1, <1>2, <1>3, <1>4, <1>5, <1>6, <1>7, <1>8, <1>9 DEF Next

\* flush_notes and seal: whatever the store dropped or declined is written down in the
\* segment that holds the records it is about, for every segment that one process wrote
\* from its first record to its manifest, for every policy and whatever else failed.
THEOREM LossesAreNoted == Spec => []NotesBesideRecords
<1>1. SealInv /\ NotesInv /\ [Next]_vars => (SealInv /\ NotesInv)'
  BY NextSeal, NextNotes
<1>2. SealInv /\ NotesInv => NotesBesideRecords
  <2> SUFFICES ASSUME SealInv, NotesInv, NEW s \in Segment, Sealed(s), s \notin cut
               PROVE  NotesIn(s)
    BY DEF NotesBesideRecords
  <2>1. OpenPc => s < segment
    BY DEF SealInv, Place
  <2>2. ~ Busy(s)
    BY <2>1, SealFacts DEF Busy, Segment
  <2>3. Beside(journal[s].recs, {})
    BY <2>2 DEF NotesInv, NotesOf
  <2>4. QED
    BY <2>3, NotesAre
<1>3. QED
  BY <1>1, <1>2, InitSeal, InitNotes, PTL DEF Spec

-----------------------------------------------------------------------------
(* One log.                                                                *)

\* Logs of journals that agree up to m agree up to m.
LEMMA AddsAgree ==
    ASSUME NEW j, NEW k, NEW g, NEW h, Adds(g, j, MaxSegs), Adds(h, k, MaxSegs),
           NEW m \in 0..MaxSegs, \A s \in Segment : s <= m => j[s].recs = k[s].recs
    PROVE  g[m] = h[m]
<1> DEFINE T == {s \in 0..MaxSegs : s <= m /\ g[s] # h[s]}
<1> SUFFICES ASSUME T # {} PROVE FALSE
  <2>1. m \in 0..MaxSegs /\ m <= m
    BY PlaneBoundAssumption
  <2>2. QED
    BY <2>1
<1>0. MaxSegs \in Nat /\ m \in Nat
  BY PlaneBoundAssumption
<1>1. T \subseteq Nat
  OBVIOUS
<1> HIDE DEF T
<1>2. PICK s \in T : \A i \in T : s <= i
  BY <1>1, LeastNumber
<1> USE DEF T
<1>3. s \in 0..MaxSegs /\ s <= m /\ g[s] # h[s]
  OBVIOUS
<1>4. /\ g[s] = IF s = 0 THEN <<>> ELSE g[s - 1] \o j[s].recs
      /\ h[s] = IF s = 0 THEN <<>> ELSE h[s - 1] \o k[s].recs
  BY <1>3 DEF Adds
<1>5. s # 0
  BY <1>3, <1>4
<1>6. s - 1 \in 0..MaxSegs /\ s - 1 <= m /\ s - 1 \notin T /\ s \in Segment
  BY <1>0, <1>2, <1>3, <1>5 DEF Segment
<1>7. g[s - 1] = h[s - 1] /\ j[s].recs = k[s].recs
  BY <1>3, <1>6
<1>8. QED
  BY <1>3, <1>4, <1>5, <1>7

\* With nothing after segment m + 1, the log ends with that segment's records.
LEMMA AddsEnds ==
    ASSUME NEW j, \A s \in Segment : j[s].recs \in Seq(Rec), NEW g, Adds(g, j, MaxSegs),
           NEW m \in 0..MaxSegs, m + 1 \in Segment,
           \A s \in Segment : s > m + 1 => j[s].recs = <<>>
    PROVE  g[MaxSegs] = g[m] \o j[m + 1].recs
<1> DEFINE T == {s \in 0..MaxSegs : s >= m + 1 /\ g[s] # g[m + 1]}
<1>0. MaxSegs \in Nat /\ m \in Nat /\ m + 1 <= MaxSegs
  BY PlaneBoundAssumption DEF Segment
<1>1. g[m + 1] = g[m] \o j[m + 1].recs
  <2> DEFINE n == m + 1
  <2>1. n \in 0..MaxSegs /\ n # 0 /\ n - 1 = m /\ n = m + 1
    BY <1>0
  <2> HIDE DEF n
  <2>2. \A s \in 0..MaxSegs : s # 0 => g[s] = g[s - 1] \o j[s].recs
    BY DEF Adds
  <2>3. g[n] = g[m] \o j[n].recs
    BY <2>1, <2>2
  <2>4. QED
    BY <2>1, <2>3
<1> SUFFICES ASSUME T # {} PROVE FALSE
  <2>1. MaxSegs \in 0..MaxSegs /\ MaxSegs >= m + 1
    BY <1>0
  <2>2. MaxSegs \notin T => g[MaxSegs] = g[m + 1]
    BY <2>1
  <2>3. QED
    BY <1>1, <2>2
<1>2. T \subseteq Nat
  OBVIOUS
<1> HIDE DEF T
<1>3. PICK s \in T : \A i \in T : s <= i
  BY <1>2, LeastNumber
<1> USE DEF T
<1>4. s \in 0..MaxSegs /\ s >= m + 1 /\ g[s] # g[m + 1]
  OBVIOUS
<1>5. s > m + 1 /\ s # 0 /\ s \in Segment
  BY <1>0, <1>4 DEF Segment
<1>6. s - 1 \in 0..MaxSegs /\ s - 1 >= m + 1 /\ s - 1 \notin T
  BY <1>0, <1>3, <1>4, <1>5
<1>7. g[s - 1] = g[m + 1]
  BY <1>6
<1>8. g[s] = g[s - 1] \o <<>>
  BY <1>4, <1>5 DEF Adds
<1>9. g[s - 1] \in Seq(Rec)
  BY <1>6, AddsType
<1>10. QED
  BY <1>4, <1>7, <1>8, <1>9

\* Nothing was written after the open segment, and all that was promised lies in
\* the sealed segments and the durable part of the open one.
LogTo(m) ==
    /\ m + 1 \in Segment
    /\ \A s \in Segment : s > m + 1 => journal[s].recs = <<>>
    /\ pc = "roll" => journal[m + 1].recs = <<>>
    /\ \A g : Adds(g, journal, MaxSegs) => Len(promise) <= Len(g[m]) + journal[m + 1].dur

LogInv == unnamed = 0 => \E m \in 0..MaxSegs : ChainTo(m) /\ LogTo(m)

\* The empty log.
LEMMA InitLog == Init => LogInv
<1> SUFFICES ASSUME Init PROVE ChainTo(0) /\ LogTo(0) /\ 0 \in 0..MaxSegs
  BY DEF LogInv
<1>1. \A s \in Segment : ~ Sealed(s) /\ ~ (s <= 0) /\ journal[s].recs = <<>> /\ journal[s].dur = 0
  BY DEF Init, Sealed, Segment, Empty
<1>2. ChainTo(0) /\ 0 \in 0..MaxSegs
  BY <1>1, PlaneBoundAssumption DEF Init, ChainTo, OpenPc
<1>3. 0 + 1 \in Segment
  BY PlaneBoundAssumption DEF Segment
<1>4. ASSUME NEW g, Adds(g, journal, MaxSegs)
      PROVE  Len(promise) <= Len(g[0]) + journal[0 + 1].dur
  <2>1. g[0] = <<>> /\ promise = <<>> /\ journal[0 + 1].dur = 0
    BY <1>1, <1>2, <1>3, <1>4 DEF Adds, Init
  <2>2. QED
    BY <2>1
<1>5. QED
  BY <1>1, <1>2, <1>3, <1>4 DEF LogTo, Init

\* The shard's log, spelt out.
LEMMA LogEnds ==
    ASSUME SealInv, NEW m \in 0..MaxSegs, LogTo(m)
    PROVE  \E g : /\ Adds(g, journal, MaxSegs) /\ g[m] \in Seq(Rec) /\ Len(g[m]) \in Nat
                  /\ journal[m + 1].recs \in Seq(Rec)
                  /\ ShardLog = g[m] \o journal[m + 1].recs
                  /\ Len(ShardLog) = Len(g[m]) + Len(journal[m + 1].recs)
                  /\ Len(promise) <= Len(g[m]) + journal[m + 1].dur
                  /\ promise \in Seq(Rec) /\ Len(promise) \in Nat
<1>1. PICK g : Adds(g, journal, MaxSegs) /\ ShardLog = g[MaxSegs]
  BY ShardLogIs
<1>2. \A s \in Segment : journal[s].recs \in Seq(Rec)
  BY SealFacts
<1>3. g[m] \in Seq(Rec)
  BY <1>1, <1>2, AddsType
<1>4. m + 1 \in Segment /\ \A s \in Segment : s > m + 1 => journal[s].recs = <<>>
  BY DEF LogTo
<1>5. ShardLog = g[m] \o journal[m + 1].recs
  BY <1>1, <1>2, <1>4, AddsEnds
<1>6. journal[m + 1].recs \in Seq(Rec) /\ promise \in Seq(Rec)
  BY <1>2, <1>4, PlainIs DEF PlainType
<1>7. Len(promise) <= Len(g[m]) + journal[m + 1].dur
  BY <1>1 DEF LogTo
<1>8. Len(g[m] \o journal[m + 1].recs) = Len(g[m]) + Len(journal[m + 1].recs)
  BY <1>3, <1>6
<1>9. Len(g[m]) \in Nat /\ Len(promise) \in Nat
  BY <1>3, <1>6
<1>10. QED
  BY <1>1, <1>3, <1>5, <1>6, <1>7, <1>8, <1>9

\* Steps that leave every record and every promise where it was.
LEMMA LogStays ==
    ASSUME SealInv, NEW m \in 0..MaxSegs, LogTo(m), UNCHANGED <<journal, promise>>,
           pc' = "roll" => pc = "roll"
    PROVE  LogTo(m)' /\ UNCHANGED <<ShardLog, Len(promise)>>
<1>1. LogTo(m)'
  BY DEF LogTo
<1>2. ShardLog' = ShardLog
  BY DEF ShardLog
<1>3. QED
  BY <1>1, <1>2

\* Append: one record more at the end of the log.
LEMMA LogPut ==
    ASSUME SealInv, NEW m \in 0..MaxSegs, LogTo(m), NEW r \in Rec, PutEffect(r), segment = m + 1,
           UNCHANGED promise, pc' # "roll"
    PROVE  LogTo(m)' /\ ShardLog' = Append(ShardLog, r) /\ Len(promise)' = Len(promise)
<1> DEFINE q == journal[m + 1].recs
<1>0. m \in Nat /\ MaxSegs \in Nat /\ m + 1 \in Segment
  BY SealFacts DEF LogTo
<1>1. /\ \A s \in Segment : journal'[s].recs \in Seq(Rec)
      /\ \A s \in Segment : s # m + 1 => journal'[s].recs = journal[s].recs
      /\ journal'[m + 1].recs = Append(q, r) /\ journal'[m + 1].dur = journal[m + 1].dur
  BY <1>0 DEF PutEffect, Journal
<1>2. PICK g : /\ Adds(g, journal, MaxSegs) /\ g[m] \in Seq(Rec) /\ q \in Seq(Rec)
               /\ ShardLog = g[m] \o q
  BY LogEnds
<1>3. \A s \in Segment : s > m + 1 => journal'[s].recs = <<>>
  <2>1. \A s \in Segment : s > m + 1 => s # m + 1
    BY <1>0 DEF Segment
  <2>2. QED
    BY <1>1, <2>1 DEF LogTo
<1>4. ASSUME NEW h, Adds(h, journal', MaxSegs)
      PROVE  h[m] = g[m] /\ h[MaxSegs] = g[m] \o Append(q, r)
  <2>1. \A s \in Segment : s <= m => journal[s].recs = journal'[s].recs
    <3>1. \A s \in Segment : s <= m => s # m + 1
      BY <1>0 DEF Segment
    <3>2. QED
      BY <1>1, <3>1
  <2>2. g[m] = h[m]
    BY <1>2, <1>4, <2>1, AddsAgree
  <2>3. h[MaxSegs] = h[m] \o journal'[m + 1].recs
    BY <1>0, <1>1, <1>3, <1>4, AddsEnds
  <2>4. QED
    BY <1>1, <2>2, <2>3
<1>5. ShardLog' = g[m] \o Append(q, r)
  <2>1. PICK h : Adds(h, journal', MaxSegs) /\ ShardLog' = h[MaxSegs]
    BY ShardLogIs
  <2>2. QED
    BY <1>4, <2>1
<1>6. \A a, b \in Seq(Rec) : a \o Append(b, r) = Append(a \o b, r)
  OBVIOUS
<1>7. ASSUME NEW h, Adds(h, journal', MaxSegs)
      PROVE  Len(promise') <= Len(h[m]) + journal'[m + 1].dur
  <2>1. Len(promise) <= Len(g[m]) + journal[m + 1].dur
    BY <1>2 DEF LogTo
  <2>2. QED
    BY <1>1, <1>4, <1>7, <2>1
<1>8. LogTo(m)'
  BY <1>0, <1>3, <1>7 DEF LogTo
<1>9. ShardLog' = Append(ShardLog, r)
  BY <1>2, <1>5, <1>6
<1>10. QED
  BY <1>8, <1>9

\* journal.sync: all of the log is promised.
LEMMA LogSync ==
    ASSUME SealInv, NEW m \in 0..MaxSegs, LogTo(m), SyncEffect, segment = m + 1,
           promise' = ShardLog, pc' # "roll"
    PROVE  LogTo(m)' /\ ShardLog' = ShardLog /\ Len(promise)' \in Len(promise)..Len(ShardLog)
<1>0. m \in Nat /\ MaxSegs \in Nat /\ m + 1 \in Segment
  BY SealFacts DEF LogTo
<1>1. /\ \A s \in Segment : journal'[s].recs = journal[s].recs
      /\ journal'[m + 1].dur = Len(journal[m + 1].recs)
  BY DEF SyncEffect
<1>2. PICK g : /\ Adds(g, journal, MaxSegs) /\ g[m] \in Seq(Rec) /\ Len(g[m]) \in Nat
               /\ ShardLog = g[m] \o journal[m + 1].recs
               /\ Len(ShardLog) = Len(g[m]) + Len(journal[m + 1].recs)
               /\ Len(promise) <= Len(g[m]) + journal[m + 1].dur
               /\ Len(promise) \in Nat
  BY LogEnds
<1>3. \A h : Adds(h, journal', MaxSegs) => \A i \in 0..MaxSegs : h[i] = g[i]
  BY <1>1, <1>2, AddsAgree
<1>4. ShardLog' = ShardLog
  <2>1. PICK h : Adds(h, journal', MaxSegs) /\ ShardLog' = h[MaxSegs]
    BY ShardLogIs
  <2>2. PICK f : Adds(f, journal, MaxSegs) /\ ShardLog = f[MaxSegs]
    BY ShardLogIs
  <2>3. MaxSegs \in 0..MaxSegs
    BY <1>0
  <2>4. QED
    BY <1>1, <2>1, <2>2, <2>3, AddsAgree
<1>5. Len(promise') = Len(g[m]) + journal'[m + 1].dur
  BY <1>1, <1>2
<1>6. LogTo(m)'
  <2>1. ASSUME NEW h, Adds(h, journal', MaxSegs)
        PROVE  Len(promise') <= Len(h[m]) + journal'[m + 1].dur
    <3>1. h[m] = g[m]
      BY <1>3, <2>1
    <3>2. Len(g[m]) \in Nat /\ Len(journal[m + 1].recs) \in Nat
      BY <1>0, <1>2, SealFacts
    <3>3. \A a, b \in Nat : a + b <= a + b
      OBVIOUS
    <3>4. Len(g[m]) + journal'[m + 1].dur <= Len(g[m]) + journal'[m + 1].dur
      BY <1>1, <3>2, <3>3
    <3>5. QED
      BY <1>5, <3>1, <3>4
  <2>2. QED
    BY <1>0, <1>1, <2>1 DEF LogTo
<1>7. Len(promise') \in Len(promise)..Len(ShardLog)
  <2>1. journal[m + 1].dur \in Nat /\ journal[m + 1].dur <= Len(journal[m + 1].recs)
        /\ Len(journal[m + 1].recs) \in Nat
    BY <1>0, SealFacts
  <2>2. \A a, b, c, d, e \in Nat : a <= b + c /\ c <= d /\ e = b + d => a <= e
    OBVIOUS
  <2>3. ShardLog \in Seq(Rec)
    BY ShardLogType, SealFacts
  <2>4. Len(ShardLog) \in Nat
    BY <2>3
  <2>5. Len(promise) <= Len(ShardLog)
    BY <1>2, <2>1, <2>2, <2>4
  <2>6. \A a, b \in Nat : a <= b => b \in a..b
    OBVIOUS
  <2>7. QED
    BY <1>2, <2>4, <2>5, <2>6
<1>8. QED
  BY <1>4, <1>6, <1>7

\* The manifest moves the open segment into the sealed part.
LEMMA LogCommits ==
    ASSUME SealInv, NEW m \in 0..MaxSegs, LogTo(m), UNCHANGED <<journal, promise>>, segment = m + 1,
           journal[segment].recs # <<>>
    PROVE  LogTo(m + 1)'
<1> DEFINE n == m + 1
<1>0. m \in Nat /\ MaxSegs \in Nat /\ n \in Segment /\ n \in Nat /\ n = m + 1 /\ n \in 0..MaxSegs
  BY SealFacts DEF LogTo, Segment
<1> HIDE DEF n
<1>1. n + 1 \in Segment
  <2>1. journal[n].recs[1].src \in (n - 1)..(taken - 1) /\ taken \in 0..MaxTaken
    BY <1>0 DEF SealInv, BeginsWithUnit, CountType
  <2>2. QED
    BY <1>0, <2>1, SealFacts DEF Segment
<1>2. \A s \in Segment : s > n => journal[s].recs = <<>>
  BY <1>0 DEF LogTo
<1>3. \A s \in Segment : s > n + 1 => s > n
  BY <1>0 DEF Segment
<1>4. n + 1 > n
  BY <1>0
<1>5. ASSUME NEW g, Adds(g, journal, MaxSegs)
      PROVE  Len(promise) <= Len(g[n]) + journal[n + 1].dur
  <2>1. Len(promise) <= Len(g[m]) + journal[n].dur
    BY <1>0, <1>5 DEF LogTo
  <2>2. \A s \in 0..MaxSegs : s # 0 => g[s] = g[s - 1] \o journal[s].recs
    BY <1>5 DEF Adds
  <2>3. n # 0 /\ n - 1 = m
    BY <1>0
  <2>4. g[n] = g[m] \o journal[n].recs
    BY <1>0, <2>2, <2>3
  <2>5. g[m] \in Seq(Rec) /\ journal[n].recs \in Seq(Rec)
    BY <1>0, <1>5, AddsType, SealFacts
  <2>6. Len(g[n]) = Len(g[m]) + Len(journal[n].recs) /\ Len(g[m]) \in Nat
    BY <2>4, <2>5
  <2>7. /\ journal[n].dur \in Nat /\ journal[n].dur <= Len(journal[n].recs)
        /\ Len(journal[n].recs) \in Nat /\ journal[n + 1].dur \in Nat
    BY <1>0, <1>1, SealFacts
  <2>8. Len(promise) \in Nat
    BY PlainIs DEF PlainType
  <2>9. \A a, b, c, d, e \in Nat : a <= b + c /\ c <= d => a <= (b + d) + e
    OBVIOUS
  <2>10. QED
    BY <2>1, <2>6, <2>7, <2>8, <2>9
<1>6. LogTo(n)'
  BY <1>1, <1>2, <1>3, <1>4, <1>5 DEF LogTo
<1>7. QED
  BY <1>0, <1>6

\* Cutting the last file is cutting the log.
LEMMA CutConcat ==
    ASSUME NEW a \in Seq(Rec), NEW q \in Seq(Rec), NEW k \in Nat, k <= Len(q)
    PROVE  a \o SubSeq(q, 1, k) = SubSeq(a \o q, 1, Len(a) + k)
<1> DEFINE u == SubSeq(q, 1, k)
           w == a \o q
<1>1. u \in Seq(Rec) /\ Len(u) = k /\ \A i \in 1..k : u[i] = q[i]
  OBVIOUS
<1>2. /\ w \in Seq(Rec) /\ Len(w) = Len(a) + Len(q) /\ Len(a) \in Nat /\ Len(q) \in Nat
      /\ \A i \in 1..(Len(a) + Len(q)) : w[i] = IF i <= Len(a) THEN a[i] ELSE q[i - Len(a)]
  OBVIOUS
<1>3. Len(a) + k \in Nat /\ Len(a) + k <= Len(w)
  BY <1>2
<1> HIDE DEF u, w
<1> DEFINE x == a \o u
           y == SubSeq(w, 1, Len(a) + k)
<1>4. /\ x \in Seq(Rec) /\ Len(x) = Len(a) + k
      /\ \A i \in 1..(Len(a) + k) : x[i] = IF i <= Len(a) THEN a[i] ELSE u[i - Len(a)]
  BY <1>1
<1>5. /\ y \in Seq(Rec) /\ Len(y) = Len(a) + k
      /\ \A i \in 1..(Len(a) + k) : y[i] = w[i]
  BY <1>2, <1>3
<1> HIDE DEF x, y
<1>6. ASSUME NEW i \in 1..(Len(a) + k)
      PROVE  x[i] = y[i]
  <2>1. i \in 1..(Len(a) + Len(q))
    BY <1>2
  <2>2. i > Len(a) => i - Len(a) \in 1..k
    BY <1>2
  <2>3. i <= Len(a) \/ i > Len(a)
    BY <1>2
  <2>4. QED
    BY <1>1, <1>2, <1>4, <1>5, <2>1, <2>2, <2>3
<1>7. x = y
  BY <1>4, <1>5, <1>6, SeqEqual
<1>8. QED
  BY <1>7 DEF x, y, u, w

\* A power cut takes an unpromised end of the log and nothing else.
LEMMA LogCut ==
    ASSUME SealInv, NEW m \in 0..MaxSegs, ChainTo(m), LogTo(m), unnamed = 0, PowerCut
    PROVE  /\ ChainTo(m)' /\ LogTo(m)' /\ UNCHANGED promise
           /\ \E k \in Len(promise)..Len(ShardLog) : ShardLog' = SubSeq(ShardLog, 1, k)
<1> DEFINE n == m + 1
           q == journal[n].recs
<1>0. m \in Nat /\ MaxSegs \in Nat /\ n \in Segment /\ n = m + 1
  BY SealFacts DEF LogTo
<1>1. CutManifests /\ CutEffect /\ pc' = "down" /\ UNCHANGED promise /\ unnamed' = unnamed
  BY CutManifestsIs, CutIs, SealFacts DEF PowerCut, Interrupt
<1>2. \A s \in Segment : s <= m => s \in named
  BY DEF ChainTo
<1>3. \A s \in Segment : Sealed(s)' <=> Sealed(s)
  BY <1>1, <1>2 DEF CutManifests, ChainTo, Sealed
<1>4. \A s \in Segment : s <= m => manifest'[s] = manifest[s]
  BY <1>1, <1>3 DEF CutManifests, ChainTo
<1>5. ChainTo(m)'
  <2>1. ASSUME NEW s \in Segment, s <= m
        PROVE  manifest'[s].before = Before(s)'
    <3>1. s # 1 => s - 1 \in Segment /\ s - 1 <= m
      BY <1>0, <2>1 DEF Segment
    <3>2. Before(s)' = Before(s)
      BY <1>4, <3>1 DEF Before, ChainAfter
    <3>3. QED
      BY <1>4, <2>1, <3>2 DEF ChainTo
  <2>2. named' = {s \in Segment : Sealed(s)'}
    BY <1>1 DEF CutManifests
  <2>3. QED
    BY <1>1, <1>3, <2>1, <2>2 DEF ChainTo, OpenPc
<1> HIDE DEF n
<1>6. PICK k \in journal[n].dur..Len(q) : /\ journal'[n].recs = SubSeq(q, 1, k)
                                           /\ journal'[n].dur = k
  BY <1>0, <1>1 DEF CutEffect
<1>7. \A s \in Segment : s # n => journal'[s] = journal[s]
  <2>1. ASSUME NEW s \in Segment, s # n
        PROVE  journal[s].dur = Len(journal[s].recs)
    <3>1. CASE s <= m
      BY <3>1 DEF SealInv, Kept, ChainTo
    <3>2. CASE ~ (s <= m)
      <4>1. s > n
        BY <1>0, <2>1, <3>2 DEF Segment
      <4>2. journal[s].recs = <<>>
        BY <1>0, <4>1 DEF LogTo
      <4>3. journal[s].dur <= 0 /\ journal[s].dur \in Nat /\ Len(journal[s].recs) = 0
        BY <4>2, SealFacts
      <4>4. QED
        BY <4>3
    <3>3. QED
      BY <3>1, <3>2
  <2>2. QED
    BY <1>1, <2>1 DEF CutEffect
<1>8. \A s \in Segment : journal'[s].recs \in Seq(Rec)
  BY <1>1 DEF CutEffect, Journal
<1>9. \A s \in Segment : s > n => journal'[s].recs = <<>>
  <2>1. \A s \in Segment : s > n => s # n
    BY <1>0 DEF Segment
  <2>2. QED
    BY <1>0, <1>7, <2>1 DEF LogTo
<1>10. PICK g : /\ Adds(g, journal, MaxSegs) /\ g[m] \in Seq(Rec) /\ Len(g[m]) \in Nat
                /\ q \in Seq(Rec) /\ ShardLog = g[m] \o q
                /\ Len(ShardLog) = Len(g[m]) + Len(q)
                /\ Len(promise) <= Len(g[m]) + journal[n].dur
                /\ Len(promise) \in Nat
  BY <1>0, LogEnds
<1>11. ASSUME NEW h, Adds(h, journal', MaxSegs)
       PROVE  h[m] = g[m] /\ h[MaxSegs] = g[m] \o SubSeq(q, 1, k)
  <2>1. \A s \in Segment : s <= m => journal[s].recs = journal'[s].recs
    <3>1. \A s \in Segment : s <= m => s # n
      BY <1>0 DEF Segment
    <3>2. QED
      BY <1>7, <3>1
  <2>2. g[m] = h[m]
    BY <1>10, <1>11, <2>1, AddsAgree
  <2>3. h[MaxSegs] = h[m] \o journal'[n].recs
    BY <1>0, <1>8, <1>9, <1>11, AddsEnds
  <2>4. QED
    BY <1>6, <2>2, <2>3
<1>12. /\ journal[n].dur \in Nat /\ Len(q) \in Nat /\ k \in Nat /\ journal[n].dur <= k /\ k <= Len(q)
  BY <1>0, <1>6, SealFacts
<1>13. Len(promise) <= Len(g[m]) + k
  <2>1. \A a, b, c, d \in Nat : a <= b + c /\ c <= d => a <= b + d
    OBVIOUS
  <2>2. QED
    BY <1>10, <1>12, <2>1
<1>14. LogTo(m)'
  BY <1>0, <1>1, <1>6, <1>9, <1>11, <1>13 DEF LogTo
<1>15. ShardLog' = SubSeq(ShardLog, 1, Len(g[m]) + k)
  <2>1. PICK h : Adds(h, journal', MaxSegs) /\ ShardLog' = h[MaxSegs]
    BY ShardLogIs
  <2>2. ShardLog' = g[m] \o SubSeq(q, 1, k)
    BY <1>11, <2>1
  <2>3. g[m] \o SubSeq(q, 1, k) = SubSeq(g[m] \o q, 1, Len(g[m]) + k)
    BY <1>10, <1>12, CutConcat
  <2>4. QED
    BY <1>10, <2>2, <2>3
<1>16. Len(g[m]) + k \in Len(promise)..Len(ShardLog)
  <2>1. \A a, b, c, d \in Nat : a <= b + c /\ c <= d => b + c \in a..(b + d)
    OBVIOUS
  <2>2. QED
    BY <1>10, <1>12, <1>13, <2>1
<1>17. QED
  BY <1>1, <1>5, <1>14, <1>15, <1>16

\* While no directory flush went missing, every step is one of the contract or leaves
\* the log and the promise alone.
LEMMA NextLog ==
    ASSUME SealInv, LogInv, [Next]_vars, unnamed' = 0
    PROVE  LogInv' /\ (Contract!Next \/ UNCHANGED <<ShardLog, Len(promise)>>)
<1>1. unnamed = 0
  BY UnnamedGrows
<1>2. PICK m \in 0..MaxSegs : ChainTo(m) /\ LogTo(m)
  BY <1>1 DEF LogInv
<1>3. OpenPc => segment = m + 1
  BY <1>2 DEF ChainTo
<1>4. CASE Open \/ Roll
  <2>1. ChainTo(m)'
    BY <1>2, <1>4, ChainOpens, ChainRolls
  <2>2. UNCHANGED <<journal, promise>> /\ pc' # "roll"
    BY <1>4 DEF Open, Roll, files, past
  <2>3. LogTo(m)' /\ UNCHANGED <<ShardLog, Len(promise)>>
    BY <1>2, <2>2, LogStays
  <2>4. QED
    BY <2>1, <2>3 DEF LogInv
<1>5. CASE \E flushed \in BOOLEAN : Commit(flushed)
  <2>1. UNCHANGED <<journal, promise>> /\ pc = "commit"
    BY <1>5 DEF Commit
  <2>2. segment = m + 1 /\ journal[segment].recs # <<>>
    BY <1>3, <2>1 DEF SealInv, Place, OpenPc, Sealing
  <2>3. LogTo(m + 1)'
    BY <1>2, <2>1, <2>2, LogCommits
  <2>4. m + 1 \in 0..MaxSegs /\ ChainTo(m + 1)'
    <3>1. unnamed' <= 1
      OBVIOUS
    <3>2. QED
      BY <1>2, <1>5, <3>1, ChainCommits
  <2>5. UNCHANGED <<ShardLog, Len(promise)>>
    BY <2>1 DEF ShardLog
  <2>6. QED
    BY <2>3, <2>4, <2>5 DEF LogInv
<1>6. CASE PowerCut
  <2>1. /\ ChainTo(m)' /\ LogTo(m)' /\ UNCHANGED promise
        /\ \E k \in Len(promise)..Len(ShardLog) : ShardLog' = SubSeq(ShardLog, 1, k)
    BY <1>1, <1>2, <1>6, LogCut
  <2>2. Contract!Lose
    BY <2>1 DEF Contract!Lose
  <2>3. QED
    BY <2>1, <2>2 DEF LogInv, Contract!Next
<1>7. CASE ~ Open /\ ~ Roll /\ ~ PowerCut /\ ~ \E flushed \in BOOLEAN : Commit(flushed)
  <2>1. ChainTo(m)'
    BY <1>2, <1>7, StillSteps, ChainStays
  <2>2. CASE Accept \/ FlushNote
    <3>1. \E r \in Rec : Put(r)
      <4>1. CASE Accept
        <5>1. PICK run \in Run, owes \in Losses : AcceptUnit(run, owes, taken)
          BY <4>1 DEF Accept
        <5>2. [kind |-> "unit", run |-> run, owes |-> owes, src |-> taken] \in Rec
          BY SealFacts DEF Rec, Unit, SealInv, CountType
        <5>3. QED
          BY <5>1, <5>2 DEF AcceptUnit
      <4>2. CASE FlushNote
        <5>1. PICK n \in owed : Put([kind |-> "note", why |-> n.why, run |-> n.run])
          BY <4>2 DEF FlushNote
        <5>2. [kind |-> "note", why |-> n.why, run |-> n.run] \in Rec
          BY PlainIs DEF PlainType, Note, Rec
        <5>3. QED
          BY <5>1, <5>2
      <4>3. QED
        BY <2>2, <4>1, <4>2
    <3>2. PICK r \in Rec : Put(r)
      BY <3>1
    <3>3. PutEffect(r)
      BY <3>2, PutIs, SealFacts
    <3>4. pc' = pc /\ pc \in {"up", "flush"} /\ promise' = promise
      BY <2>2 DEF Accept, AcceptUnit, FlushNote, past
    <3>5. segment = m + 1 /\ pc' # "roll"
      BY <1>3, <3>4 DEF OpenPc
    <3>6. LogTo(m)' /\ ShardLog' = Append(ShardLog, r) /\ Len(promise)' = Len(promise)
      BY <1>2, <3>3, <3>4, <3>5, LogPut
    <3>7. Contract!Next
      BY <3>6 DEF Contract!Next, Contract!Write
    <3>8. QED
      BY <2>1, <3>6, <3>7 DEF LogInv
  <2>3. CASE Resync \/ Sync \/ SealSync \/ StopAfterSync
    <3>1. JournalSync /\ pc' # "roll" /\ OpenPc
      BY <2>3 DEF Resync, Sync, SealSync, StopAfterSync, Interrupt, OpenPc
    <3>2. SyncEffect /\ promise' = ShardLog
      BY <3>1, SyncIs, SealFacts DEF JournalSync
    <3>3. LogTo(m)' /\ ShardLog' = ShardLog /\ Len(promise)' \in Len(promise)..Len(ShardLog)
      BY <1>2, <1>3, <3>1, <3>2, LogSync
    <3>4. Contract!Next
      BY <3>3 DEF Contract!Next, Contract!Acknowledge
    <3>5. QED
      BY <2>1, <3>3, <3>4 DEF LogInv
  <2>4. CASE OpenRefused \/ Idle \/ TimePasses \/ StartSeal \/ RollRefused \/ Exit \/ UNCHANGED vars
    <3>1. UNCHANGED <<journal, promise>>
      BY <2>4 DEF OpenRefused, Idle, TimePasses, StartSeal, RollRefused, Exit, vars, files, past
    <3>2. pc' = "roll" => pc = "roll"
      BY <1>7, StillSteps
    <3>3. LogTo(m)' /\ UNCHANGED <<ShardLog, Len(promise)>>
      BY <1>2, <3>1, <3>2, LogStays
    <3>4. QED
      BY <2>1, <3>3 DEF LogInv
  <2>5. QED
    BY <1>7, <2>2, <2>3, <2>4 DEF Next
<1>8. QED
  BY <1>4, <1>5, <1>6, <1>7

\* The refinement: across all its files, and whatever seals, restarts and power cuts come
\* between, a shard is one log that grows at its end only and never loses, reorders or
\* repeats what a returned sync covered, for every policy and every number of segments,
\* while every rename was followed by the directory flush the code asks for.
THEOREM ShardKeepsOneLog == Spec => ShardIsOneLog
<1>1. Init => Contract!Init
  <2> SUFFICES ASSUME Init PROVE ShardLog = <<>> /\ Len(promise) = 0
    BY DEF Contract!Init
  <2>1. SealInv /\ LogTo(0) /\ 0 \in 0..MaxSegs
    <3>1. PICK m \in 0..MaxSegs : ChainTo(m) /\ LogTo(m)
      BY InitLog DEF LogInv, Init
    <3>2. m = 0
      <4>1. \A s \in Segment : ~ Sealed(s)
        BY DEF Init, Sealed
      <4>2. m \in Segment => m <= m
        BY SealFacts, InitSeal
      <4>3. QED
        BY <3>1, <4>1, <4>2, SealFacts, InitSeal DEF ChainTo, Segment
    <3>3. QED
      BY <3>1, <3>2, InitSeal
  <2>2. PICK g : /\ Adds(g, journal, MaxSegs) /\ ShardLog = g[0] \o journal[0 + 1].recs
    BY <2>1, LogEnds
  <2>3. 0 + 1 \in Segment
    BY <2>1 DEF LogTo
  <2>4. g[0] = <<>> /\ journal[0 + 1].recs = <<>>
    BY <2>1, <2>2, <2>3 DEF Adds, Init, Empty
  <2>5. promise = <<>>
    BY DEF Init
  <2>6. QED
    BY <2>2, <2>4, <2>5
<1>2. ASSUME SealInv, LogInv, [Next]_vars
      PROVE  SealInv' /\ LogInv' /\ [unnamed' = 0 => Contract!Next]_<<ShardLog, Len(promise)>>
  <2>1. unnamed' = 0 => LogInv' /\ (Contract!Next \/ UNCHANGED <<ShardLog, Len(promise)>>)
    BY <1>2, NextLog
  <2>2. LogInv'
    BY <2>1 DEF LogInv
  <2>3. SealInv'
    BY <1>2, NextSeal
  <2>4. QED
    BY <2>1, <2>2, <2>3
<1>3. QED
  BY <1>1, <1>2, InitSeal, InitLog, PTL DEF Spec, ShardIsOneLog
=============================================================================
