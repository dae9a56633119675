----------------------------- MODULE ShipProofs -----------------------------
(***************************************************************************)
(* The file importer, for every policy, batch and producer, wherever a run *)
(* dies and whatever domain it is handed: the cursor passes only what is   *)
(* sealed or was refused by a run that stored other lines, and it is       *)
(* behind by no more than one segment and the batch that closed it.        *)
(***************************************************************************)
EXTENDS Ship, PlaneProofs, FiniteSetTheorems

-----------------------------------------------------------------------------
(* The plane under an importer: every rename is followed by its flush, and *)
(* segments are not counted by units handed over.                          *)

\* A unit for line n is among the records.
Has(recs, n) ==
    \E i \in 1..Len(recs) : recs[i].kind = "unit" /\ recs[i].src = n

InOpen(n) == Has(journal[segment].recs, n)

\* The open segment is after the sealed ones, and a seal commits all it holds.
OpenLast ==
    /\ OpenPc => \A s \in Segment : Sealed(s) => s < segment
    /\ pc = "roll" => Sealed(segment) /\ \A s \in Segment : Sealed(s) => s <= segment
    /\ pc = "commit" => acked = Len(journal[segment].recs) /\ journal[segment].dur = acked

FlushedInv ==
    /\ PlaneTypeOK /\ SealedIsWhole /\ OpenLast
    /\ named = {s \in Segment : Sealed(s)}
    /\ DOMAIN manifest = Segment

\* Which steps of the plane a step of the run waits for.
StepInv ==
    /\ step \in {"idle", "open", "batch", "seal", "last"}
    /\ step \in {"idle", "open"} => pc = "down"
    /\ step = "batch" => pc \in {"resync", "up"}
    /\ step \in {"seal", "last"} => /\ pc \in {"up", "flush", "commit", "roll"}
                                    /\ pc = "up" => Written = 0

-----------------------------------------------------------------------------
(* The file and what was read of it.                                       *)

\* A file of lines written one after the other.
Counts(f) == \A i \in 1..Len(f) : f[i] = f[1] + i - 1

\* What the source file had before it was rotated away.
Older == made - Len(src)

\* What was read of a file is the start of the one that is there, or the file
\* has been replaced since.
StartOf(f) == Len(f) <= CompletePrefix /\ \A i \in 1..Len(f) : f[i] = src[i]
Replaced(f) == f # <<>> /\ \A i \in 1..Len(f) : f[i] <= Older

SourceInv ==
    /\ kind \in [Line -> LineKind]
    /\ made \in 0..MaxLines /\ src \in Seq(Line) /\ Len(src) <= made
    /\ half \in BOOLEAN /\ (half => src # <<>>)
    /\ \A i \in 1..Len(src) : src[i] = Older + i

CursorInv ==
    cursor # NoCursor => cursor \in Seq(Line) /\ (StartOf(cursor) \/ Replaced(cursor))

RunType ==
    /\ snap \in Seq(Line) /\ domain \in Domains /\ waived \subseteq Line
    /\ through \in 0..Len(snap) /\ stored \in 0..Len(snap)

-----------------------------------------------------------------------------
(* The batches a run still has to hand over.                               *)

BatchForm == [units : Seq(Nat), through : Nat]
Batches == Seq(BatchForm)

\* A batch of positions of M, in order, that reaches as far as its last.
Fits(r, M, lo, hi) ==
    /\ Len(r.units) <= Cut
    /\ lo <= r.through /\ r.through <= hi
    /\ \A x \in 1..Len(r.units) : r.units[x] \in M /\ lo < r.units[x] /\ r.units[x] <= r.through
    /\ \A x, y \in 1..Len(r.units) : x < y => r.units[x] < r.units[y]

\* One batch is before another.
Precedes(r, q) ==
    /\ r.through <= q.through
    /\ \A x \in 1..Len(q.units) : r.through < q.units[x]

Holds(r, j) == \E x \in 1..Len(r.units) : r.units[x] = j

\* b holds what is left to do of the positions M up to hi, all of it after lo.
Ahead(b, M, lo, hi) ==
    /\ b \in Batches /\ M \subseteq Nat
    /\ \A k \in 1..Len(b) : Fits(b[k], M, lo, hi)
    /\ \A k, l \in 1..Len(b) : k < l => Precedes(b[k], b[l])
    /\ \A j \in M : lo < j /\ j <= hi => \E k \in 1..Len(b) : Holds(b[k], j)

\* No batch is empty.
Filled(b) == \A k \in 1..Len(b) : b[k].units # <<>>

-----------------------------------------------------------------------------
(* How far a run has come.                                                 *)

\* The lines of a kind between two positions of a file.
OfKind(k, f, lo, hi) == {j \in (lo + 1)..hi : kind[f[j]] = k}

Most == SealAfter - 1 + Cut

ToMap == OfKind(domain, snap, 0, Len(snap))

Waiting == IF todo = <<>> THEN 0 ELSE Len(todo[1].units)

\* A line is done with: it is sealed, or a run went past it that was not to have it.
Settled(n) == IsSealed(n) \/ n \in waived

\* Everything up to lo is handed over: it is settled or in the open segment, and
\* since the cursor was last moved it is no more than the bound.  A run that has
\* stored nothing has moved nothing.
Progress(lo) ==
    /\ ResumeAt(snap) <= through /\ through <= lo /\ lo <= Len(snap)
    /\ stored <= lo
    /\ Ahead(todo, ToMap, lo, Len(snap))
    /\ stored = 0 => step # "seal" /\ through = ResumeAt(snap) /\ Filled(todo)
    /\ \A j \in 1..lo : kind[snap[j]] = domain =>
          Settled(snap[j]) \/ (step # "open" /\ InOpen(snap[j]))
    /\ step = "open" => lo = ResumeAt(snap)
    /\ step = "seal" => lo = through
    /\ step = "last" => todo = <<>>
    /\ Cardinality(OfKind(domain, snap, ResumeAt(snap), lo)) <= Most
    /\ step = "batch" =>
          /\ Cardinality(OfKind(domain, snap, ResumeAt(snap), lo)) <= Written
          /\ Cardinality(OfKind(domain, snap, ResumeAt(snap), lo)) + Waiting <= Most

RunInv ==
    step # "idle" =>
        /\ snap # <<>> /\ Counts(snap)
        /\ StartOf(snap) \/ Replaced(snap)
        /\ StartOf(snap) => ResumeAt(src) = ResumeAt(snap)
        /\ \E lo \in 0..Len(snap) : Progress(lo)

\* Only lines of some domain that a run has read are stored.
StoredInv ==
    \A n \in 0..MaxTaken : IsStored(n) =>
        /\ n \in Line /\ SomeDomainMaps(n)
        /\ n <= Older + CompletePrefix
        /\ step # "idle" => n <= snap[Len(snap)]

\* A stored line after the cursor has few enough of its kind before it.
WindowInv ==
    \A i \in (ResumeAt(src) + 1)..Len(src) :
        IsStored(src[i]) => Cardinality(OfKind(kind[src[i]], src, ResumeAt(src), i)) <= Most

ShipInv ==
    /\ FlushedInv /\ StepInv
    /\ SourceInv /\ CursorInv /\ RunType
    /\ CursorBehindEvidence
    /\ StoredInv /\ RunInv /\ WindowInv

-----------------------------------------------------------------------------
(* Facts about batches.                                                    *)

\* A batch and a segment take at least one unit.
LEMMA CutIsPositive == Cut \in Nat /\ Cut >= 1 /\ SealAfter \in Nat /\ SealAfter >= 1 /\ Most \in Nat
BY ShipAssumption, PolicyAssumption DEF Cut, Smaller, Most

\* A batch is its units and how far it reaches.
LEMMA BatchFields ==
    ASSUME NEW r \in BatchForm
    PROVE  /\ r = [units |-> r.units, through |-> r.through]
           /\ r.units \in Seq(Nat) /\ r.through \in Nat /\ Len(r.units) \in Nat
           /\ \A x \in 1..Len(r.units) : r.units[x] \in Nat
BY DEF BatchForm

\* Each batch of a sequence is one.
LEMMA BatchAt ==
    ASSUME NEW b \in Batches, NEW k \in 1..Len(b)
    PROVE  b[k] \in BatchForm
BY DEF Batches

\* Replacing one batch leaves the others.
LEMMA BatchPut ==
    ASSUME NEW b \in Batches, NEW k \in 1..Len(b), NEW q \in BatchForm
    PROVE  /\ [b EXCEPT ![k] = q] \in Batches /\ Len([b EXCEPT ![k] = q]) = Len(b)
           /\ [b EXCEPT ![k] = q][k] = q
           /\ \A l \in 1..Len(b) : l # k => [b EXCEPT ![k] = q][l] = b[l]
BY DEF Batches

\* A batch without its first unit.
TailOf(q, r, i) ==
    /\ r.units # <<>> /\ i = r.units[1]
    /\ q.units = Tail(r.units) /\ q.through = r.through

\* A batch without its first unit fits the lines behind that unit.
LEMMA FitsTail ==
    ASSUME NEW r \in BatchForm, NEW M \in SUBSET Nat, NEW lo \in Nat, NEW hi \in Nat, Fits(r, M, lo, hi),
           NEW i \in Nat, NEW q \in BatchForm, TailOf(q, r, i)
    PROVE  /\ i \in M /\ i \in Nat /\ lo < i /\ i <= hi /\ i <= r.through
           /\ q \in BatchForm /\ q.through = r.through /\ Len(q.units) = Len(r.units) - 1
           /\ Fits(q, M, i, hi)
           /\ \A j \in Nat : Holds(r, j) => i <= j /\ (i < j => Holds(q, j))
<1>0. /\ r.units # <<>> /\ i = r.units[1]
      /\ q.units = Tail(r.units) /\ q.through = r.through
  BY DEF TailOf
<1>1. r.units \in Seq(Nat) /\ Len(r.units) \in Nat /\ r.through \in Nat /\ 1 \in 1..Len(r.units)
  BY <1>0, BatchFields
<1>2. i \in M /\ i \in Nat /\ lo < i /\ i <= r.through /\ r.through <= hi
  BY <1>0, <1>1 DEF Fits
<1>3. i <= hi
  BY <1>1, <1>2
<1>4. /\ Len(Tail(r.units)) = Len(r.units) - 1 /\ Tail(r.units) \in Seq(Nat)
      /\ \A x \in 1..(Len(r.units) - 1) : Tail(r.units)[x] = r.units[x + 1]
  BY <1>1
<1>5. q \in BatchForm /\ q.units = Tail(r.units) /\ q.through = r.through
  BY <1>0
<1>6. ASSUME NEW x \in 1..Len(q.units)
      PROVE  x + 1 \in 1..Len(r.units) /\ q.units[x] = r.units[x + 1] /\ x \in Nat /\ 1 < x + 1
  BY <1>1, <1>4, <1>5
<1>7. Fits(q, M, i, hi)
  <2>1. Len(q.units) <= Cut
    <3>1. Len(r.units) <= Cut /\ Len(q.units) = Len(r.units) - 1
      BY <1>4, <1>5 DEF Fits
    <3>2. QED
      BY <1>1, <3>1, CutIsPositive
  <2>2. ASSUME NEW x \in 1..Len(q.units)
        PROVE  q.units[x] \in M /\ i < q.units[x] /\ q.units[x] <= q.through
    BY <1>0, <1>1, <1>5, <1>6 DEF Fits
  <2>3. ASSUME NEW x \in 1..Len(q.units), NEW y \in 1..Len(q.units), x < y
        PROVE  q.units[x] < q.units[y]
    <3>1. x + 1 < y + 1
      BY <1>6, <2>3
    <3>2. QED
      BY <1>6, <3>1 DEF Fits
  <2>4. QED
    BY <1>2, <1>5, <2>1, <2>2, <2>3 DEF Fits
<1>8. ASSUME NEW j \in Nat, Holds(r, j)
      PROVE  i <= j /\ (i < j => Holds(q, j))
  <2>1. PICK x \in 1..Len(r.units) : r.units[x] = j
    BY <1>8 DEF Holds
  <2>2. CASE x = 1
    BY <1>0, <1>2, <2>1, <2>2
  <2>3. CASE x # 1
    <3>1. 1 < x /\ x \in Nat
      BY <1>1, <2>1, <2>3
    <3>2. i < j
      BY <1>0, <1>1, <2>1, <3>1 DEF Fits
    <3>3. x - 1 \in 1..(Len(r.units) - 1) /\ (x - 1) + 1 = x
      <4>1. \A n \in Nat : \A y \in 1..n : 1 < y => y - 1 \in 1..(n - 1) /\ (y - 1) + 1 = y
        OBVIOUS
      <4>2. QED
        BY <1>1, <2>1, <3>1, <4>1
    <3>4. q.units[x - 1] = j /\ x - 1 \in 1..Len(q.units)
      BY <1>4, <1>5, <2>1, <3>3
    <3>5. QED
      BY <1>2, <3>2, <3>4 DEF Holds
  <2>4. QED
    BY <2>2, <2>3
<1>9. QED
  BY <1>2, <1>3, <1>4, <1>5, <1>7, <1>8

\* A batch that comes after another one's reach.
LEMMA FitsFurther ==
    ASSUME NEW r \in BatchForm, NEW q \in BatchForm, NEW M, NEW lo \in Nat, NEW hi \in Nat,
           Fits(q, M, lo, hi), Precedes(r, q), NEW i \in Nat, i <= r.through
    PROVE  /\ Fits(q, M, i, hi)
           /\ \A j \in Nat : Holds(q, j) => i < j /\ r.through < j
<1>1. r.through \in Nat /\ q.through \in Nat /\ \A x \in 1..Len(q.units) : q.units[x] \in Nat
  BY BatchFields
<1>2. i <= q.through /\ \A x \in 1..Len(q.units) : i < q.units[x] /\ r.through < q.units[x]
  BY <1>1 DEF Precedes
<1>3. QED
  BY <1>2 DEF Fits, Holds

\* The first unit of the first batch is taken.
TakesFirst(c, b, i) ==
    /\ b # <<>> /\ b[1].units # <<>> /\ i = b[1].units[1]
    /\ c = [b EXCEPT ![1].units = Tail(b[1].units)]

\* Taking the first unit leaves batches that are ahead of it.
LEMMA AheadTakes ==
    ASSUME NEW b, NEW M, NEW lo \in Nat, NEW hi \in Nat, Ahead(b, M, lo, hi),
           NEW i, NEW c, TakesFirst(c, b, i)
    PROVE  /\ i \in Nat /\ i \in M /\ lo < i /\ i <= hi
           /\ \A j \in M : lo < j /\ j <= hi => i <= j
           /\ Ahead(c, M, i, hi)
           /\ c # <<>> /\ Len(c[1].units) = Len(b[1].units) - 1
<1> USE DEF TakesFirst
<1>1. b \in Batches /\ M \subseteq Nat /\ Len(b) \in Nat /\ 1 \in 1..Len(b)
  BY DEF Ahead, Batches
<1>2. \A k \in 1..Len(b) : b[k] \in BatchForm /\ Fits(b[k], M, lo, hi)
  BY <1>1, BatchAt DEF Ahead
<1>0. PICK q : q = [b[1] EXCEPT !.units = Tail(b[1].units)]
  OBVIOUS
<1>3. c = [b EXCEPT ![1] = q]
  BY <1>0
<1>a. q \in BatchForm /\ q.units = Tail(b[1].units) /\ q.through = b[1].through
  <2>1. b[1] \in BatchForm /\ b[1].units \in Seq(Nat) /\ b[1].units # <<>>
    BY <1>1, <1>2, BatchFields
  <2>2. Tail(b[1].units) \in Seq(Nat)
    BY <2>1
  <2>3. QED
    BY <1>0, <2>1, <2>2 DEF BatchForm
<1>b. i \in Nat
  <2>1. b[1].units \in Seq(Nat) /\ b[1].units # <<>>
    BY <1>1, <1>2, BatchFields
  <2>2. QED
    BY <2>1
<1>4. /\ i \in M /\ i \in Nat /\ lo < i /\ i <= hi /\ i <= b[1].through
      /\ q \in BatchForm /\ q.through = b[1].through /\ Len(q.units) = Len(b[1].units) - 1
      /\ Fits(q, M, i, hi)
      /\ \A j \in Nat : Holds(b[1], j) => i <= j /\ (i < j => Holds(q, j))
  <2>1. b[1] \in BatchForm /\ Fits(b[1], M, lo, hi)
    BY <1>1, <1>2
  <2>2. ASSUME NEW r \in BatchForm, r = b[1]
        PROVE  /\ i \in M /\ i \in Nat /\ lo < i /\ i <= hi /\ i <= r.through
               /\ Len(q.units) = Len(r.units) - 1
               /\ Fits(q, M, i, hi)
               /\ \A j \in Nat : Holds(r, j) => i <= j /\ (i < j => Holds(q, j))
    <3>1. Fits(r, M, lo, hi) /\ TailOf(q, r, i)
      BY <1>a, <2>1, <2>2 DEF TailOf
    <3>2. QED
      <4>1. M \in SUBSET Nat /\ q \in BatchForm /\ i \in Nat
        BY <1>1, <1>a, <1>b
      <4> HIDE <1>a, <1>b
      <4>2. QED
        BY ONLY r \in BatchForm, lo \in Nat, hi \in Nat, <4>1, <3>1, FitsTail
  <2>3. QED
    BY <1>a, <2>1, <2>2
<1>5. /\ c \in Batches /\ Len(c) = Len(b) /\ c[1] = q
      /\ \A k \in 1..Len(b) : k # 1 => c[k] = b[k]
  <2>1. /\ [b EXCEPT ![1] = q] \in Batches /\ Len([b EXCEPT ![1] = q]) = Len(b)
        /\ [b EXCEPT ![1] = q][1] = q
        /\ \A k \in 1..Len(b) : k # 1 => [b EXCEPT ![1] = q][k] = b[k]
    BY ONLY <1>1, <1>a DEF Batches
  <2>2. QED
    BY ONLY <1>3, <2>1
<1>6. ASSUME NEW k \in 1..Len(b), k # 1
      PROVE  /\ Fits(b[k], M, i, hi) /\ Precedes(b[1], b[k])
             /\ \A j \in Nat : Holds(b[k], j) => i < j
  <2>1. Precedes(b[1], b[k])
    BY <1>1, <1>6 DEF Ahead
  <2>2. b[1] \in BatchForm /\ b[k] \in BatchForm /\ Fits(b[k], M, lo, hi)
    BY <1>1, <1>2
  <2>3. QED
    BY <1>4, <2>1, <2>2, FitsFurther
<1>7. ASSUME NEW j \in M, lo < j, j <= hi
      PROVE  i <= j /\ (i < j => \E k \in 1..Len(c) : Holds(c[k], j))
  <2>1. PICK k \in 1..Len(b) : Holds(b[k], j)
    BY <1>7 DEF Ahead
  <2>2. j \in Nat
    BY <1>1
  <2>3. CASE k = 1
    BY <1>1, <1>4, <1>5, <2>1, <2>2, <2>3
  <2>4. CASE k # 1
    <3>1. i < j
      BY <1>6, <2>1, <2>2, <2>4
    <3>2. QED
      BY <1>4, <1>5, <2>1, <2>2, <2>4, <3>1
  <2>5. QED
    BY <2>3, <2>4
<1>8. Ahead(c, M, i, hi)
  <2>1. \A k \in 1..Len(c) : Fits(c[k], M, i, hi)
    BY <1>4, <1>5, <1>6
  <2>2. ASSUME NEW k \in 1..Len(c), NEW l \in 1..Len(c), k < l
        PROVE  Precedes(c[k], c[l])
    <3>1. k \in 1..Len(b) /\ l \in 1..Len(b) /\ l # 1
      BY <1>1, <1>5, <2>2
    <3>2. c[k].through = b[k].through /\ c[l] = b[l] /\ Precedes(b[k], b[l])
      BY <1>4, <1>5, <2>2, <3>1 DEF Ahead
    <3>3. QED
      BY <3>2 DEF Precedes
  <2>3. ASSUME NEW j \in M, i < j /\ j <= hi
        PROVE  \E k \in 1..Len(c) : Holds(c[k], j)
    <3>1. lo < j
      BY <1>1, <1>4, <2>3
    <3>2. QED
      BY <1>7, <2>3, <3>1
  <2>4. QED
    BY <1>1, <1>5, <2>1, <2>2, <2>3 DEF Ahead
<1>9. c # <<>> /\ Len(c[1].units) = Len(b[1].units) - 1
  BY <1>1, <1>4, <1>5
<1>10. QED
  BY <1>4, <1>7, <1>8, <1>9

\* The batch at hand is no larger than a batch may be.
LEMMA WaitingIs ==
    ASSUME NEW b, NEW M, NEW lo, NEW hi, Ahead(b, M, lo, hi), NEW w,
           w = IF b = <<>> THEN 0 ELSE Len(b[1].units)
    PROVE  w \in Nat /\ w <= Cut
<1>1. CASE b = <<>>
  BY <1>1, CutIsPositive
<1>2. CASE b # <<>>
  <2>1. b \in Batches /\ 1 \in 1..Len(b)
    BY <1>2 DEF Ahead, Batches
  <2>2. b[1] \in BatchForm /\ Len(b[1].units) <= Cut
    BY <2>1, BatchAt DEF Ahead, Fits
  <2>3. QED
    BY <1>2, <2>2, BatchFields
<1>3. QED
  BY <1>1, <1>2

\* The first batch is through.
LEMMA AheadDrops ==
    ASSUME NEW b, NEW M, NEW lo \in Nat, NEW hi \in Nat, Ahead(b, M, lo, hi),
           b # <<>>, b[1].units = <<>>
    PROVE  /\ b[1].through \in lo..hi
           /\ \A j \in M : lo < j /\ j <= hi => b[1].through < j
           /\ Ahead(Tail(b), M, b[1].through, hi)
<1>1. b \in Batches /\ M \subseteq Nat /\ Len(b) \in Nat /\ 1 \in 1..Len(b)
  BY DEF Ahead, Batches
<1>2. \A k \in 1..Len(b) : b[k] \in BatchForm /\ Fits(b[k], M, lo, hi)
  BY <1>1, BatchAt DEF Ahead
<1>3. b[1].through \in lo..hi /\ b[1].through \in Nat
  BY <1>1, <1>2, BatchFields DEF Fits
<1>4. /\ Tail(b) \in Batches /\ Len(Tail(b)) = Len(b) - 1
      /\ \A k \in 1..(Len(b) - 1) : Tail(b)[k] = b[k + 1]
  BY <1>1 DEF Batches
<1>5. ASSUME NEW k \in 1..Len(b), k # 1
      PROVE  /\ Fits(b[k], M, b[1].through, hi)
             /\ \A j \in Nat : Holds(b[k], j) => b[1].through < j
  <2>1. Precedes(b[1], b[k])
    BY <1>1, <1>5 DEF Ahead
  <2>2. b[1] \in BatchForm /\ b[k] \in BatchForm /\ Fits(b[k], M, lo, hi)
    BY <1>1, <1>2
  <2>3. b[1].through <= b[1].through
    BY <1>3
  <2>4. QED
    BY <1>3, <2>1, <2>2, <2>3, FitsFurther
<1>6. ASSUME NEW j \in M, lo < j, j <= hi
      PROVE  b[1].through < j /\ \E k \in 1..Len(Tail(b)) : Holds(Tail(b)[k], j)
  <2>1. PICK k \in 1..Len(b) : Holds(b[k], j)
    BY <1>6 DEF Ahead
  <2>2. j \in Nat
    BY <1>1
  <2>3. k # 1
    BY <2>1 DEF Holds
  <2>4. k - 1 \in 1..(Len(b) - 1) /\ (k - 1) + 1 = k
    BY <1>1, <2>1, <2>3
  <2>5. QED
    BY <1>4, <1>5, <2>1, <2>2, <2>3, <2>4
<1>7. Ahead(Tail(b), M, b[1].through, hi)
  <2>1. ASSUME NEW k \in 1..Len(Tail(b))
        PROVE  Tail(b)[k] = b[k + 1] /\ k + 1 \in 1..Len(b) /\ k + 1 # 1 /\ k \in Nat
    BY <1>1, <1>4
  <2>2. \A k \in 1..Len(Tail(b)) : Fits(Tail(b)[k], M, b[1].through, hi)
    BY <1>5, <2>1
  <2>3. ASSUME NEW k \in 1..Len(Tail(b)), NEW l \in 1..Len(Tail(b)), k < l
        PROVE  Precedes(Tail(b)[k], Tail(b)[l])
    <3>1. k + 1 < l + 1
      BY <2>1, <2>3
    <3>2. QED
      BY <2>1, <3>1 DEF Ahead
  <2>4. ASSUME NEW j \in M, b[1].through < j /\ j <= hi
        PROVE  \E k \in 1..Len(Tail(b)) : Holds(Tail(b)[k], j)
    <3>1. lo < j
      BY <1>1, <1>3, <2>4
    <3>2. QED
      BY <1>6, <2>4, <3>1
  <2>5. QED
    BY <1>1, <1>4, <2>2, <2>3, <2>4 DEF Ahead
<1>8. QED
  BY <1>3, <1>6, <1>7

\* A batch with one unit more.
GrownBy(q, r, i) == q.units = Append(r.units, i) /\ q.through = i

\* A batch that takes the next line in fits up to that line.
LEMMA FitsGrown ==
    ASSUME NEW r \in BatchForm, NEW M \in SUBSET Nat, NEW lo \in Nat, NEW n \in Nat,
           Fits(r, M, lo, n), lo <= n, Len(r.units) < Cut, n + 1 \in M,
           NEW q \in BatchForm, GrownBy(q, r, n + 1)
    PROVE  /\ Fits(q, M, lo, n + 1)
           /\ Holds(q, n + 1) /\ \A j \in Nat : Holds(r, j) => Holds(q, j)
           /\ \A p \in BatchForm : p.through <= n /\ Precedes(p, r) => Precedes(p, q)
<1>1. r.units \in Seq(Nat) /\ Len(r.units) \in Nat /\ r.through \in Nat
  BY BatchFields
<1>2. /\ q.through = n + 1 /\ Len(q.units) = Len(r.units) + 1
      /\ q.units[Len(r.units) + 1] = n + 1
      /\ \A x \in 1..Len(r.units) : q.units[x] = r.units[x]
  BY <1>1 DEF GrownBy
<1> DEFINE L == Len(r.units)
<1>3. \A x \in 1..Len(q.units) : x \in 1..L \/ x = L + 1
  BY <1>1, <1>2
<1>4. \A x \in 1..L : /\ q.units[x] = r.units[x] /\ r.units[x] \in M /\ r.units[x] \in Nat
                      /\ lo < r.units[x] /\ r.units[x] <= n
  <2>1. r.through <= n /\ \A x \in 1..L : r.units[x] \in Nat
    BY <1>1 DEF Fits
  <2>2. QED
    BY <1>1, <1>2, <2>1 DEF Fits
<1>5. Fits(q, M, lo, n + 1)
  <2>1. Len(q.units) <= Cut /\ lo <= q.through /\ q.through <= n + 1
    BY <1>1, <1>2, CutIsPositive
  <2>2. ASSUME NEW x \in 1..Len(q.units)
        PROVE  q.units[x] \in M /\ lo < q.units[x] /\ q.units[x] <= q.through
    <3>1. CASE x \in 1..L
      BY <1>2, <1>4, <3>1
    <3>2. CASE x = L + 1
      BY <1>2, <3>2
    <3>3. QED
      BY <1>3, <3>1, <3>2
  <2>3. ASSUME NEW x \in 1..Len(q.units), NEW y \in 1..Len(q.units), x < y
        PROVE  q.units[x] < q.units[y]
    <3>1. x \in 1..L
      BY <1>1, <1>2, <2>3
    <3>2. CASE y \in 1..L
      BY <1>2, <2>3, <3>1, <3>2 DEF Fits
    <3>3. CASE y = L + 1
      BY <1>2, <1>4, <3>1, <3>3
    <3>4. QED
      BY <1>3, <3>2, <3>3
  <2>4. QED
    BY <2>1, <2>2, <2>3 DEF Fits
<1>6. Holds(q, n + 1)
  <2>1. L + 1 \in 1..Len(q.units)
    BY <1>1, <1>2
  <2>2. QED
    BY <1>2, <2>1 DEF Holds
<1>7. ASSUME NEW j \in Nat, Holds(r, j)
      PROVE  Holds(q, j)
  <2>1. PICK x \in 1..L : r.units[x] = j
    BY <1>7 DEF Holds
  <2>2. x \in 1..Len(q.units)
    BY <1>1, <1>2
  <2>3. QED
    BY <1>2, <2>1, <2>2 DEF Holds
<1>8. ASSUME NEW p \in BatchForm, p.through <= n, Precedes(p, r)
      PROVE  Precedes(p, q)
  <2>1. p.through \in Nat
    BY BatchFields
  <2>2. ASSUME NEW x \in 1..Len(q.units)
        PROVE  p.through < q.units[x]
    <3>1. CASE x \in 1..L
      BY <1>2, <1>8, <3>1 DEF Precedes
    <3>2. CASE x = L + 1
      BY <1>2, <1>8, <2>1, <3>2
    <3>3. QED
      BY <1>3, <3>1, <3>2
  <2>3. QED
    BY <1>2, <1>8, <2>1, <2>2 DEF Precedes
<1>9. QED
  BY <1>5, <1>6, <1>7, <1>8

\* A line that maps to nothing leaves a batch fitting.
LEMMA FitsWider ==
    ASSUME NEW r \in BatchForm, NEW M \in SUBSET Nat, NEW lo \in Nat, NEW n \in Nat,
           Fits(r, M, lo, n)
    PROVE  Fits(r, M, lo, n + 1)
<1>1. r.through \in Nat /\ r.through <= n
  BY BatchFields DEF Fits
<1>2. QED
  BY <1>1 DEF Fits

\* A line that does not map moves nothing.
LEMMA AheadPasses ==
    ASSUME NEW b, NEW M \in SUBSET Nat, NEW lo \in Nat, NEW n \in Nat, lo <= n,
           Ahead(b, M, lo, n), n + 1 \notin M
    PROVE  Ahead(b, M, lo, n + 1)
<1>1. \A k \in 1..Len(b) : b[k] \in BatchForm /\ Fits(b[k], M, lo, n)
  BY BatchAt DEF Ahead
<1>2. \A k \in 1..Len(b) : Fits(b[k], M, lo, n + 1)
  BY <1>1, FitsWider
<1>3. ASSUME NEW j \in M, lo < j /\ j <= n + 1
      PROVE  j <= n
  BY <1>3
<1>4. QED
  BY <1>2, <1>3 DEF Ahead

\* A line that maps goes into the last batch or into a new one.
LEMMA AheadAdds ==
    ASSUME NEW b, NEW M \in SUBSET Nat, NEW lo \in Nat, NEW n \in Nat, lo <= n,
           Ahead(b, M, lo, n), n + 1 \in M
    PROVE  Ahead(Take(b, n + 1), M, lo, n + 1)
<1>1. b \in Batches /\ Len(b) \in Nat
  BY DEF Ahead, Batches
<1>2. \A k \in 1..Len(b) : b[k] \in BatchForm /\ Fits(b[k], M, lo, n)
  BY BatchAt DEF Ahead
<1>3. \A k \in 1..Len(b) : Fits(b[k], M, lo, n + 1) /\ b[k].through \in Nat /\ b[k].through <= n
  <2>1. \A k \in 1..Len(b) : Fits(b[k], M, lo, n + 1)
    BY <1>2, FitsWider
  <2>2. QED
    BY <1>2, <2>1, BatchFields DEF Fits
<1>4. \A j \in M : lo < j /\ j <= n + 1 => j = n + 1 \/ \E k \in 1..Len(b) : Holds(b[k], j)
  <2>1. ASSUME NEW j \in M, lo < j, j <= n + 1, j # n + 1
        PROVE  \E k \in 1..Len(b) : Holds(b[k], j)
    <3>1. j <= n
      BY <2>1
    <3>2. QED
      BY <2>1, <3>1 DEF Ahead
  <2>2. QED
    BY <2>1
<1>5. CASE b # <<>> /\ Len(b[Len(b)].units) < Cut
  <2> DEFINE L == Len(b)
  <2>0. PICK r \in BatchForm : r = b[L]
    BY <1>1, <1>2, <1>5
  <2>1. L \in 1..Len(b) /\ r.units \in Seq(Nat) /\ Fits(r, M, lo, n)
    BY <1>1, <1>2, <1>5, <2>0, BatchFields
  <2>2. PICK q : q = [units |-> Append(r.units, n + 1), through |-> n + 1]
    OBVIOUS
  <2>3. q \in BatchForm /\ GrownBy(q, r, n + 1)
    <3>1. Append(r.units, n + 1) \in Seq(Nat) /\ n + 1 \in Nat
      BY <2>1
    <3>2. QED
      BY <2>2, <3>1 DEF BatchForm, GrownBy
  <2>4. /\ Fits(q, M, lo, n + 1)
        /\ Holds(q, n + 1) /\ \A j \in Nat : Holds(r, j) => Holds(q, j)
        /\ \A p \in BatchForm : p.through <= n /\ Precedes(p, r) => Precedes(p, q)
    <3>1. Len(r.units) < Cut
      BY <1>5, <2>0
    <3>2. QED
      BY <2>1, <2>3, <3>1, FitsGrown
  <2>5. PICK c : c = [b EXCEPT ![L] = q]
    OBVIOUS
  <2>6. c = Take(b, n + 1)
    BY <1>5, <2>0, <2>2, <2>5 DEF Take
  <2>7. /\ c \in Batches /\ Len(c) = L /\ c[L] = q
        /\ \A k \in 1..L : k # L => c[k] = b[k]
    BY ONLY <1>1, <2>1, <2>3, <2>5 DEF Batches
  <2>8. \A k \in 1..Len(c) : Fits(c[k], M, lo, n + 1)
    BY <1>3, <2>4, <2>7
  <2>9. ASSUME NEW k \in 1..Len(c), NEW l \in 1..Len(c), k < l
        PROVE  Precedes(c[k], c[l])
    <3>1. k \in 1..Len(b) /\ l \in 1..Len(b) /\ k # L /\ c[k] = b[k] /\ Precedes(b[k], b[l])
      <4>1. k \in 1..Len(b) /\ l \in 1..Len(b) /\ k # L
        BY <1>1, <2>7, <2>9
      <4>2. QED
        BY <2>7, <2>9, <4>1 DEF Ahead
    <3>2. CASE l = L
      BY <1>2, <1>3, <2>0, <2>4, <2>7, <3>1, <3>2
    <3>3. CASE l # L
      BY <2>7, <3>1, <3>3
    <3>4. QED
      BY <3>2, <3>3
  <2>10. ASSUME NEW j \in M, lo < j /\ j <= n + 1
         PROVE  \E k \in 1..Len(c) : Holds(c[k], j)
    <3>1. CASE j = n + 1
      BY <2>1, <2>4, <2>7, <3>1
    <3>2. CASE \E k \in 1..Len(b) : Holds(b[k], j)
      <4>1. PICK k \in 1..Len(b) : Holds(b[k], j)
        BY <3>2
      <4>2. CASE k = L
        BY <2>0, <2>1, <2>4, <2>7, <4>1, <4>2
      <4>3. CASE k # L
        BY <2>7, <4>1, <4>3
      <4>4. QED
        BY <4>2, <4>3
    <3>3. QED
      BY <1>4, <2>10, <3>1, <3>2
  <2>11. QED
    BY <2>6, <2>7, <2>8, <2>9, <2>10 DEF Ahead
<1>6. CASE ~ (b # <<>> /\ Len(b[Len(b)].units) < Cut)
  <2>2. PICK q : q = [units |-> <<n + 1>>, through |-> n + 1]
    OBVIOUS
  <2>3. /\ q \in BatchForm /\ q.through = n + 1 /\ Len(q.units) = 1 /\ q.units[1] = n + 1
    BY <2>2 DEF BatchForm
  <2>4. Fits(q, M, lo, n + 1) /\ Holds(q, n + 1)
    <3>1. \A x \in 1..Len(q.units) : x = 1
      BY <2>3
    <3>2. 1 \in 1..Len(q.units)
      BY <2>3
    <3>3. QED
      BY <2>3, <3>1, <3>2, CutIsPositive DEF Fits, Holds
  <2>5. PICK c : c = Append(b, q)
    OBVIOUS
  <2>6. c = Take(b, n + 1)
    BY <1>6, <2>2, <2>5 DEF Take
  <2>7. /\ c \in Batches /\ Len(c) = Len(b) + 1 /\ c[Len(b) + 1] = q
        /\ \A k \in 1..Len(b) : c[k] = b[k]
    BY ONLY <1>1, <2>3, <2>5 DEF Batches
  <2>8. \A k \in 1..Len(c) : k \in 1..Len(b) \/ k = Len(b) + 1
    BY <1>1, <2>7
  <2>9. \A k \in 1..Len(c) : Fits(c[k], M, lo, n + 1)
    BY <1>3, <2>4, <2>7, <2>8
  <2>10. ASSUME NEW k \in 1..Len(c), NEW l \in 1..Len(c), k < l
         PROVE  Precedes(c[k], c[l])
    <3>1. k \in 1..Len(b)
      BY <1>1, <2>7, <2>10
    <3>2. CASE l = Len(b) + 1
      <4>1. \A x \in 1..Len(q.units) : x = 1
        BY <2>3
      <4>2. Precedes(b[k], q)
        BY <1>3, <2>3, <3>1, <4>1 DEF Precedes
      <4>3. QED
        BY <2>7, <3>1, <3>2, <4>2
    <3>3. CASE l \in 1..Len(b)
      <4>1. Precedes(b[k], b[l])
        BY <2>10, <3>1, <3>3 DEF Ahead
      <4>2. QED
        BY <2>7, <3>1, <3>3, <4>1
    <3>4. QED
      BY <2>8, <3>2, <3>3
  <2>11. ASSUME NEW j \in M, lo < j /\ j <= n + 1
         PROVE  \E k \in 1..Len(c) : Holds(c[k], j)
    <3>1. CASE j = n + 1
      <4>1. Len(b) + 1 \in 1..Len(c)
        BY <1>1, <2>7
      <4>2. QED
        BY <2>4, <2>7, <3>1, <4>1
    <3>2. CASE \E k \in 1..Len(b) : Holds(b[k], j)
      <4>1. PICK k \in 1..Len(b) : Holds(b[k], j)
        BY <3>2
      <4>2. k \in 1..Len(c)
        BY <1>1, <2>7
      <4>3. QED
        BY <2>7, <4>1, <4>2
    <3>3. QED
      BY <1>4, <2>11, <3>1, <3>2
  <2>12. QED
    BY <2>6, <2>7, <2>9, <2>10, <2>11 DEF Ahead
<1>7. QED
  BY <1>5, <1>6

\* A batch is started with a unit in it.
LEMMA FilledTakes ==
    ASSUME NEW b \in Batches, Filled(b), NEW i \in Nat
    PROVE  Filled(Take(b, i))
<1>1. Len(b) \in Nat /\ \A k \in 1..Len(b) : b[k].units \in Seq(Nat)
  BY BatchAt, BatchFields DEF Batches
<1>2. CASE b # <<>> /\ Len(b[Len(b)].units) < Cut
  <2>1. PICK q : q = [units |-> Append(b[Len(b)].units, i), through |-> i]
    OBVIOUS
  <2>2. Take(b, i) = [b EXCEPT ![Len(b)] = q]
    BY <1>2, <2>1 DEF Take
  <2>3. Len(b) \in 1..Len(b)
    BY <1>1, <1>2 DEF Batches
  <2>4. Append(b[Len(b)].units, i) \in Seq(Nat) /\ q.units # <<>>
    BY <1>1, <2>1, <2>3
  <2>5. q \in BatchForm
    BY <2>1, <2>4 DEF BatchForm
  <2>6. QED
    BY <2>2, <2>3, <2>4, <2>5, BatchPut DEF Filled
<1>3. CASE ~ (b # <<>> /\ Len(b[Len(b)].units) < Cut)
  <2>1. PICK q : q = [units |-> <<i>>, through |-> i]
    OBVIOUS
  <2>2. Take(b, i) = Append(b, q)
    BY <1>3, <2>1 DEF Take
  <2>3. q.units # <<>> /\ q \in BatchForm
    BY <2>1 DEF BatchForm
  <2>4. /\ Len(Append(b, q)) = Len(b) + 1 /\ Append(b, q)[Len(b) + 1] = q
        /\ \A k \in 1..Len(b) : Append(b, q)[k] = b[k]
    BY <2>3 DEF Batches
  <2>5. \A k \in 1..(Len(b) + 1) : k \in 1..Len(b) \/ k = Len(b) + 1
    BY <1>1
  <2>6. QED
    BY <2>2, <2>3, <2>4, <2>5 DEF Filled
<1>4. QED
  BY <1>2, <1>3

-----------------------------------------------------------------------------
(* What frame makes of the lines after the cursor.                         *)

\* f[i] is what the lines of M up to i are cut into, from `from` to n.
Cuts(f, M, from, n) ==
    f = [i \in from..n |-> IF i = from THEN <<>>
                           ELSE IF i \in M THEN Take(f[i - 1], i) ELSE f[i - 1]]

\* The batches after each line can be lined up, up to any line.
LEMMA CutsExist ==
    ASSUME NEW M, NEW from \in Nat, NEW N \in Nat, from <= N
    PROVE  \E f : Cuts(f, M, from, N)
<1> DEFINE T == {n \in Nat : from <= n /\ ~ \E f : Cuts(f, M, from, n)}
<1> SUFFICES ASSUME N \in T PROVE FALSE
  OBVIOUS
<1>1. T \subseteq Nat /\ T # {}
  OBVIOUS
<1> HIDE DEF T
<1>2. PICK n \in T : \A k \in T : n <= k
  BY <1>1, LeastNumber
<1> USE DEF T
<1>3. n \in Nat /\ from <= n /\ ~ \E f : Cuts(f, M, from, n)
  OBVIOUS
<1>4. CASE n = from
  <2> DEFINE f == [i \in from..n |-> <<>>]
  <2>1. \A i \in from..n : i = from
    BY <1>4
  <2>2. f = [i \in from..n |-> IF i = from THEN <<>>
                               ELSE IF i \in M THEN Take(f[i - 1], i) ELSE f[i - 1]]
    BY <2>1
  <2>3. Cuts(f, M, from, n)
    BY <2>2 DEF Cuts
  <2>4. QED
    BY <1>3, <2>3
<1>5. CASE n # from
  <2>1. n - 1 \in Nat /\ from <= n - 1 /\ n - 1 \notin T
    BY <1>2, <1>3, <1>5
  <2>2. PICK g : Cuts(g, M, from, n - 1)
    BY <2>1
  <2> DEFINE last == IF n \in M THEN Take(g[n - 1], n) ELSE g[n - 1]
             h == [i \in from..n |-> IF i = n THEN last ELSE g[i]]
  <2>3. ASSUME NEW i \in from..n
        PROVE  h[i] = IF i = from THEN <<>>
                      ELSE IF i \in M THEN Take(h[i - 1], i) ELSE h[i - 1]
    <3>1. CASE i = n
      <4>1. n - 1 \in from..n /\ n - 1 # n
        BY <1>3, <2>1
      <4>2. h[n - 1] = g[n - 1] /\ h[i] = last
        BY <3>1, <4>1
      <4>3. QED
        BY <1>5, <3>1, <4>2
    <3>2. CASE i # n
      <4>1. i \in from..(n - 1) /\ h[i] = g[i]
        BY <1>3, <3>2
      <4>2. g[i] = IF i = from THEN <<>>
                   ELSE IF i \in M THEN Take(g[i - 1], i) ELSE g[i - 1]
        BY <2>2, <4>1 DEF Cuts
      <4>3. i # from => i - 1 \in from..n /\ i - 1 # n
        BY <1>3, <4>1
      <4>4. i # from => h[i - 1] = g[i - 1]
        BY <4>3
      <4>5. QED
        BY <4>1, <4>2, <4>4
    <3>3. QED
      BY <3>1, <3>2
  <2>4. h = [i \in from..n |-> h[i]]
    OBVIOUS
  <2> HIDE DEF h
  <2>5. Cuts(h, M, from, n)
    BY <2>3, <2>4 DEF Cuts
  <2>6. QED
    BY <1>3, <2>5
<1>6. QED
  BY <1>4, <1>5

\* The batches hold exactly the mapped lines, in order.
LEMMA CutsAhead ==
    ASSUME NEW M \in SUBSET Nat, NEW from \in Nat, NEW N \in Nat, from <= N,
           NEW f, Cuts(f, M, from, N)
    PROVE  Ahead(f[N], M, from, N) /\ Filled(f[N])
<1> DEFINE P(n) == Ahead(f[n], M, from, n) /\ Filled(f[n])
           T == {n \in Nat : from <= n /\ n <= N /\ ~ P(n)}
<1> SUFFICES ASSUME N \in T PROVE FALSE
  OBVIOUS
<1>1. T \subseteq Nat /\ T # {}
  OBVIOUS
<1> HIDE DEF T
<1>2. PICK n \in T : \A k \in T : n <= k
  BY <1>1, LeastNumber
<1> USE DEF T
<1>3. n \in from..N /\ n \in Nat /\ ~ P(n)
  OBVIOUS
<1>4. f[n] = IF n = from THEN <<>> ELSE IF n \in M THEN Take(f[n - 1], n) ELSE f[n - 1]
  BY <1>3 DEF Cuts
<1>5. CASE n = from
  <2>1. f[n] = <<>> /\ <<>> \in Batches /\ Len(<<>>) = 0
    BY <1>4, <1>5 DEF Batches
  <2>2. \A k \in 1..0 : FALSE
    OBVIOUS
  <2>3. \A j \in M : ~ (from < j /\ j <= n)
    BY <1>5
  <2>4. Ahead(f[n], M, from, n)
    BY <2>1, <2>2, <2>3 DEF Ahead
  <2>5. Filled(f[n])
    BY <2>1, <2>2 DEF Filled
  <2>6. QED
    BY <1>3, <2>4, <2>5
<1>6. CASE n # from
  <2>1. n - 1 \in Nat /\ from <= n - 1 /\ n - 1 <= N /\ n - 1 \notin T /\ (n - 1) + 1 = n
    BY <1>2, <1>3, <1>6
  <2>2. PICK m \in Nat : m = n - 1
    BY <2>1
  <2>3. P(m) /\ from <= m /\ m + 1 = n
    BY <2>1, <2>2
  <2>4. CASE n \in M
    <3>1. f[n] = Take(f[m], n)
      BY <1>4, <1>6, <2>2, <2>4
    <3>2. Ahead(Take(f[m], m + 1), M, from, m + 1) /\ Filled(Take(f[m], m + 1))
      BY <2>3, <2>4, AheadAdds, FilledTakes DEF Ahead
    <3>3. QED
      BY <1>3, <2>3, <3>1, <3>2
  <2>5. CASE n \notin M
    <3>1. f[n] = f[m]
      BY <1>4, <1>6, <2>2, <2>5
    <3>2. Ahead(f[m], M, from, m + 1)
      BY <2>3, <2>5, AheadPasses
    <3>3. QED
      BY <1>3, <2>3, <3>1, <3>2
  <2>6. QED
    BY <2>4, <2>5
<1>7. QED
  BY <1>5, <1>6

\* frame returns exactly the mapped lines, in order, in batches of at most Cut.
LEMMA FrameIs ==
    ASSUME NEW from \in Nat, NEW to \in Nat, from <= to, NEW d, NEW M \in SUBSET Nat,
           \A i \in (from + 1)..to : Maps(src[i], d) <=> i \in M
    PROVE  Ahead(Frame(from, to, d), M, from, to) /\ Filled(Frame(from, to, d))
<1> DEFINE Loop(f) == f = [i \in from..to |-> IF i = from THEN <<>>
                           ELSE IF Maps(src[i], d) THEN Take(f[i - 1], i) ELSE f[i - 1]]
<1>0. \A i \in from..to : i # from => i \in (from + 1)..to
  OBVIOUS
<1>1. ASSUME NEW f
      PROVE  Loop(f) <=> Cuts(f, M, from, to)
  <2>1. \A i \in from..to : i # from => (Maps(src[i], d) <=> i \in M)
    BY <1>0
  <2>2. [i \in from..to |-> IF i = from THEN <<>>
            ELSE IF Maps(src[i], d) THEN Take(f[i - 1], i) ELSE f[i - 1]]
        = [i \in from..to |-> IF i = from THEN <<>>
            ELSE IF i \in M THEN Take(f[i - 1], i) ELSE f[i - 1]]
    BY <2>1
  <2>3. QED
    BY <2>2 DEF Cuts
<1>2. \E f : Loop(f)
  BY <1>1, CutsExist
<1>3. Frame(from, to, d) = (CHOOSE f : Loop(f))[to]
  BY DEF Frame
<1> HIDE DEF Loop
<1>4. PICK f : f = CHOOSE g : Loop(g)
  OBVIOUS
<1>5. Cuts(f, M, from, to)
  BY <1>1, <1>2, <1>4
<1>6. QED
  BY <1>3, <1>4, <1>5, CutsAhead

-----------------------------------------------------------------------------
(* The steps of the plane.                                                 *)

\* Sealed and stored, said of the sequences of records.
LEMMA EvidenceIs ==
    /\ \A n : IsSealed(n) <=> \E s \in Segment : Sealed(s) /\ Has(manifest[s].recs, n)
    /\ \A n : IsStored(n) <=> \E s \in Segment : Has(journal[s].recs, n)
BY DEF IsSealed, IsStored, Has

\* Which lines a sequence has after an append and after a cut.
LEMMA HasFacts ==
    ASSUME NEW q \in Seq(Rec), NEW n
    PROVE  /\ \A r \in Rec : Has(Append(q, r), n) <=> Has(q, n) \/ (r.kind = "unit" /\ r.src = n)
           /\ \A k \in 0..Len(q) : Has(SubSeq(q, 1, k), n) => Has(q, n)
           /\ Has(q, n) => q # <<>>
<1>1. ASSUME NEW r \in Rec
      PROVE  Has(Append(q, r), n) <=> Has(q, n) \/ (r.kind = "unit" /\ r.src = n)
  <2> DEFINE a == Append(q, r)
  <2>1. /\ Len(q) \in Nat /\ Len(a) = Len(q) + 1 /\ a[Len(q) + 1] = r
        /\ \A i \in 1..Len(q) : a[i] = q[i]
    OBVIOUS
  <2> HIDE DEF a
  <2>2. \A i : i \in 1..Len(a) <=> i \in 1..Len(q) \/ i = Len(q) + 1
    BY <2>1
  <2>3. Has(a, n) <=> Has(q, n) \/ (r.kind = "unit" /\ r.src = n)
    BY <2>1, <2>2 DEF Has
  <2>4. QED
    BY <2>3 DEF a
<1>2. ASSUME NEW k \in 0..Len(q), Has(SubSeq(q, 1, k), n)
      PROVE  Has(q, n)
  <2>1. Len(q) \in Nat /\ Len(SubSeq(q, 1, k)) = k /\ \A i \in 1..k : SubSeq(q, 1, k)[i] = q[i]
    OBVIOUS
  <2>2. \A i \in 1..k : i \in 1..Len(q)
    BY <2>1
  <2>3. QED
    BY <1>2, <2>1, <2>2 DEF Has
<1>3. ASSUME Has(q, n), q = <<>>
      PROVE  FALSE
  BY <1>3 DEF Has
<1>4. QED
  BY <1>1, <1>2, <1>3

\* What the write path's invariant says of the types.
LEMMA FlushedFacts ==
    ASSUME FlushedInv
    PROVE  /\ journal \in [Segment -> Journal] /\ segment \in Segment /\ segment \in Nat
           /\ base \in Seq(Rec) /\ Written \in Nat /\ acked \in Nat /\ PlainType
           /\ \A s \in Segment : /\ journal[s].recs \in Seq(Rec) /\ Len(journal[s].recs) \in Nat
                                 /\ journal[s].dur \in Nat /\ journal[s].dur <= Len(journal[s].recs)
                                 /\ s \in Nat
           /\ MaxSegs \in Nat
<1>1. MaxSegs \in Nat /\ \A s \in Segment : s \in Nat
  BY PlaneBoundAssumption DEF Segment
<1>2. QED
  BY <1>1 DEF FlushedInv, PlaneTypeOK, PlainType, Journal, Written

\* The records in the open segment are a number.
LEMMA WrittenIs == FlushedInv => Written \in Nat
BY FlushedFacts

\* What is sealed stays so and nothing new is stored.
Quiet ==
    /\ \A n : IsSealed(n) => IsSealed(n)'
    /\ \A n : IsStored(n)' => IsStored(n)

\* What the open segment holds is not lost to a process that goes on.
Carries == \A n : InOpen(n) => InOpen(n)' \/ IsSealed(n)'

\* A step that leaves journals and manifests alone changes no evidence.
LEMMA QuietFiles ==
    ASSUME UNCHANGED <<journal, manifest>>
    PROVE  Quiet /\ (segment' = segment => Carries /\ Written' = Written)
<1>1. Quiet
  BY DEF Quiet, IsSealed, IsStored, Sealed
<1>2. segment' = segment => Carries /\ Written' = Written
  BY DEF Carries, InOpen, Written
<1>3. QED
  BY <1>1, <1>2

\* The invariant is kept where no file changes.
LEMMA FilesFlushed ==
    ASSUME FlushedInv, UNCHANGED <<journal, manifest, named>>, PlainType', OpenLast',
           pc' # "down" => acked' <= Len(journal[segment'].recs)
    PROVE  FlushedInv'
<1>1. PlaneTypeOK'
  BY DEF FlushedInv, PlaneTypeOK, PlainType, Sealed, Written
<1>2. QED
  BY <1>1 DEF FlushedInv, SealedIsWhole, Sealed

\* The process moves on, waits or ends: the files stay.
LEMMA PcFlushed ==
    ASSUME FlushedInv, UNCHANGED <<journal, manifest, named, segment, base, acked, owed, oldest, promise>>,
           cut' \subseteq Segment,
           pc' = "down" \/ pc' = pc \/ (pc = "up" /\ pc' = "flush")
    PROVE  FlushedInv' /\ Quiet /\ Carries /\ Written' = Written
<1>1. PlainType'
  BY FlushedFacts DEF PlainType
<1>2. OpenLast'
  BY DEF FlushedInv, OpenLast, OpenPc, Sealed
<1>3. pc' # "down" => acked' <= Len(journal[segment'].recs)
  BY DEF FlushedInv, PlaneTypeOK, Written
<1>4. QED
  BY <1>1, <1>2, <1>3, FilesFlushed, QuietFiles

\* Opening the store keeps the invariant and the evidence.
LEMMA OpenFlushed ==
    ASSUME FlushedInv, Open, Room
    PROVE  /\ FlushedInv' /\ Quiet /\ pc' \in {"resync", "up"}
<1> DEFINE m == LastSealed
<1>1. /\ m \in 0..MaxSegs /\ \A s \in Segment : Sealed(s) => s <= m
      /\ m # 0 => m \in Segment /\ Sealed(m)
  BY LastSealedIs
<1>2. m + 1 \in Segment
  BY <1>1, FlushedFacts DEF Room, Segment
<1>3. NextStart \in Seq(Rec)
  <2>1. m # 0 => manifest[m] \in [before : Seq(Rec), recs : Seq(Rec)]
    BY <1>1 DEF FlushedInv, PlaneTypeOK
  <2>2. m # 0 => manifest[m].before \o manifest[m].recs \in Seq(Rec)
    BY <2>1
  <2>3. QED
    BY <2>2 DEF NextStart, ChainAfter
<1>4. /\ UNCHANGED <<journal, manifest, named, promise, cut>>
      /\ segment' = m + 1 /\ base' = NextStart /\ acked' = 0 /\ owed' = {}
      /\ oldest' \in {"none", "young"} /\ pc' \in {"resync", "up"}
  BY DEF Open, files, past
<1> HIDE DEF m
<1>5. PlainType'
  BY <1>2, <1>3, <1>4, FlushedFacts DEF PlainType
<1>6. OpenLast'
  <2>1. \A s \in Segment : Sealed(s) => s < m + 1
    BY <1>1 DEF Segment
  <2>2. \A s \in Segment : (Sealed(s) => s < segment)'
    BY <1>4, <2>1 DEF Sealed
  <2>3. QED
    BY <1>4, <2>2 DEF OpenLast
<1>7. acked' <= Len(journal[segment'].recs)
  BY <1>2, <1>4, FlushedFacts
<1>8. QED
  BY <1>4, <1>5, <1>6, <1>7, FilesFlushed, QuietFiles

\* A new segment starts with nothing written.
LEMMA RollFlushed ==
    ASSUME FlushedInv, Roll, Room
    PROVE  FlushedInv' /\ Quiet /\ Carries /\ pc' = "up" /\ Written' = 0
<1>1. /\ UNCHANGED <<journal, manifest, named, promise, cut, owed>>
      /\ segment' = segment + 1 /\ base' = ChainAfter(segment) /\ acked' = 0
      /\ oldest' = "none" /\ pc' = "up" /\ pc = "roll" /\ journal[segment + 1].recs = <<>>
  BY DEF Roll, files, past
<1>2. Sealed(segment) /\ segment \in Segment
  BY <1>1, FlushedFacts DEF FlushedInv, OpenLast
<1>3. ChainAfter(segment) \in Seq(Rec)
  <2>1. manifest[segment] \in [before : Seq(Rec), recs : Seq(Rec)]
    BY <1>2 DEF FlushedInv, PlaneTypeOK
  <2>2. QED
    BY <2>1 DEF ChainAfter
<1>4. segment + 1 \in Segment
  <2>1. segment <= LastSealed /\ LastSealed < MaxSegs /\ LastSealed \in Nat
    BY <1>2, LastSealedIs, FlushedFacts DEF Room
  <2>2. QED
    BY <2>1, FlushedFacts DEF Segment
<1>5. PlainType'
  BY <1>1, <1>3, <1>4, FlushedFacts DEF PlainType
<1>6. OpenLast'
  <2>1. \A s \in Segment : Sealed(s) => s < segment + 1
    BY <1>1, FlushedFacts DEF FlushedInv, OpenLast
  <2>2. \A s \in Segment : (Sealed(s) => s < segment)'
    BY <1>1, <2>1 DEF Sealed
  <2>3. QED
    BY <1>1, <2>2 DEF OpenLast
<1>7. acked' <= Len(journal[segment'].recs) /\ Written' = 0
  BY <1>1, <1>4, FlushedFacts DEF Written
<1>8. Carries
  <2>1. manifest[segment].recs = journal[segment].recs
    BY <1>2 DEF FlushedInv, SealedIsWhole
  <2>2. \A n : InOpen(n) => IsSealed(n)
    BY <1>2, <2>1, EvidenceIs DEF InOpen
  <2>3. QED
    BY <1>1, <2>2, QuietFiles DEF Carries, Quiet
<1>9. QED
  BY <1>1, <1>5, <1>6, <1>7, <1>8, FilesFlushed, QuietFiles

\* A flush changes no record.
LEMMA SyncFlushed ==
    ASSUME FlushedInv, Resync \/ SealSync
    PROVE  /\ FlushedInv' /\ Quiet /\ Carries /\ Written' = Written
           /\ (pc = "resync" /\ pc' = "up") \/ (pc = "flush" /\ pc' = "commit")
<1>1. /\ UNCHANGED <<manifest, named, segment, base, owed, oldest, cut>>
      /\ JournalSync /\ ((pc = "resync" /\ pc' = "up") \/ (pc = "flush" /\ pc' = "commit"))
  BY DEF Resync, SealSync
<1>2. SyncEffect /\ acked' = Len(journal[segment].recs) /\ promise' = ShardLog
  BY <1>1, SyncIs, FlushedFacts DEF JournalSync, Written
<1>3. \A s \in Segment : Sealed(s) => s < segment
  BY <1>1 DEF FlushedInv, OpenLast, OpenPc
<1>4. \A s \in Segment : Sealed(s) => s # segment
  BY <1>3, FlushedFacts
<1>5. \A s \in Segment : journal'[s].recs = journal[s].recs
  BY <1>2 DEF SyncEffect
<1>6. PlaneTypeOK'
  <2>1. promise' \in Seq(Rec)
    BY <1>2, ShardLogType, FlushedFacts
  <2>2. \A s \in Segment : journal'[s].dur <= Len(journal'[s].recs)
    <3> SUFFICES ASSUME NEW s \in Segment
                 PROVE  journal'[s].dur <= Len(journal'[s].recs)
      OBVIOUS
    <3>1. Len(journal[s].recs) \in Nat /\ journal[s].dur <= Len(journal[s].recs)
      BY FlushedFacts
    <3>2. CASE s = segment
      BY <1>2, <3>1, <3>2 DEF SyncEffect
    <3>3. CASE s # segment
      BY <1>2, <3>1, <3>3 DEF SyncEffect
    <3>4. QED
      BY <3>2, <3>3
  <2>3. journal' \in [Segment -> Journal]
    BY <1>2 DEF SyncEffect
  <2>4. acked' \in Nat /\ acked' <= Len(journal'[segment'].recs)
    BY <1>1, <1>2, FlushedFacts DEF SyncEffect
  <2>5. QED
    BY <1>1, <2>1, <2>2, <2>3, <2>4 DEF FlushedInv, PlaneTypeOK, Journal, Sealed, Written
<1>7. OpenLast'
  <2>1. journal'[segment].dur = acked' /\ acked' = Len(journal'[segment].recs)
    BY <1>2, FlushedFacts DEF SyncEffect
  <2>2. QED
    BY <1>1, <1>3, <2>1 DEF OpenLast, OpenPc, Sealed
<1>8. SealedIsWhole'
  BY <1>1, <1>2, <1>4 DEF FlushedInv, SealedIsWhole, Sealed, SyncEffect
<1>9. FlushedInv'
  BY <1>1, <1>6, <1>7, <1>8 DEF FlushedInv, Sealed
<1>10. Quiet /\ Carries /\ Written' = Written
  <2>1. \A n : IsSealed(n) => IsSealed(n)'
    BY <1>1 DEF IsSealed, Sealed
  <2>2. \A n : IsStored(n)' => IsStored(n)
    BY <1>5 DEF IsStored
  <2>3. Carries /\ Written' = Written
    BY <1>1, <1>5, FlushedFacts DEF Carries, InOpen, Written
  <2>4. QED
    BY <2>1, <2>2, <2>3 DEF Quiet
<1>11. QED
  BY <1>1, <1>9, <1>10

\* A record is appended to the open segment.
LEMMA PutFlushed ==
    ASSUME FlushedInv, NEW r \in Rec, Put(r), pc \in {"up", "flush"}, owed' \subseteq Note,
           UNCHANGED <<manifest, named, pc, segment, base, acked, promise, cut>>
    PROVE  /\ FlushedInv' /\ Carries /\ Written' = Written + 1
           /\ \A n : IsSealed(n) => IsSealed(n)'
           /\ \A n : IsStored(n)' => IsStored(n) \/ (r.kind = "unit" /\ r.src = n)
           /\ r.kind = "unit" => InOpen(r.src)'
<1>1. PutEffect(r)
  BY PutIs, FlushedFacts
<1>2. \A s \in Segment : Sealed(s) => s < segment
  BY DEF FlushedInv, OpenLast, OpenPc
<1>3. \A s \in Segment : Sealed(s) => s # segment
  BY <1>2, FlushedFacts
<1> DEFINE old == journal[segment].recs
           new == journal'[segment].recs
<1>4. old \in Seq(Rec) /\ Len(old) \in Nat /\ new = Append(old, r) /\ Len(new) = Len(old) + 1
  <2>1. old \in Seq(Rec) /\ Len(old) \in Nat /\ new = Append(old, r)
    BY <1>1, FlushedFacts DEF PutEffect
  <2>2. QED
    BY <2>1
<1>5. Written' = Written + 1
  BY <1>4 DEF Written
<1>b. \A a, b \in Nat : a <= b => a <= b + 1
  OBVIOUS
<1>6. PlaneTypeOK'
  <2>1. \A s \in Segment : journal'[s].dur <= Len(journal'[s].recs)
    <3> SUFFICES ASSUME NEW s \in Segment
                 PROVE  journal'[s].dur <= Len(journal'[s].recs)
      OBVIOUS
    <3>1. CASE s = segment
      <4>1. journal'[segment].dur = journal[segment].dur
        BY <1>1 DEF PutEffect
      <4>2. QED
        BY <1>4, <1>b, <3>1, <4>1, FlushedFacts
    <3>2. CASE s # segment
      BY <1>1, <3>2, FlushedFacts DEF PutEffect
    <3>3. QED
      BY <3>1, <3>2
  <2>2. journal' \in [Segment -> Journal]
    BY <1>1 DEF PutEffect
  <2>3. acked <= Len(journal[segment].recs)
    BY DEF FlushedInv, PlaneTypeOK, Written
  <2>4. acked' <= Len(journal'[segment'].recs)
    BY <1>4, <2>3, FlushedFacts
  <2>5. oldest' \in {"none", "young", "old"}
    BY DEF Put, FlushedInv, PlaneTypeOK
  <2>6. QED
    BY <2>1, <2>2, <2>4, <2>5 DEF FlushedInv, PlaneTypeOK, Journal, Sealed, Written
<1>7. OpenLast'
  BY <1>2 DEF OpenLast, OpenPc, Sealed
<1>8. SealedIsWhole'
  BY <1>1, <1>3 DEF FlushedInv, SealedIsWhole, Sealed, PutEffect
<1>9. FlushedInv'
  BY <1>6, <1>7, <1>8 DEF FlushedInv, Sealed
<1>10. \A n : Has(new, n) <=> Has(old, n) \/ (r.kind = "unit" /\ r.src = n)
  BY <1>4, HasFacts
<1>11. Carries /\ (r.kind = "unit" => InOpen(r.src)')
  BY <1>10 DEF Carries, InOpen
<1>12. \A n : IsSealed(n) => IsSealed(n)'
  BY DEF IsSealed, Sealed
<1>13. ASSUME NEW n, IsStored(n)'
       PROVE  IsStored(n) \/ (r.kind = "unit" /\ r.src = n)
  <2>1. PICK s \in Segment : Has(journal'[s].recs, n)
    BY <1>13 DEF IsStored, Has
  <2>2. CASE s = segment
    BY <1>10, <2>1, <2>2, FlushedFacts, EvidenceIs
  <2>3. CASE s # segment
    <3>1. journal'[s] = journal[s]
      BY <1>1, <2>3 DEF PutEffect
    <3>2. QED
      BY <2>1, <3>1, EvidenceIs
  <2>4. QED
    BY <2>2, <2>3
<1>14. QED
  BY <1>5, <1>9, <1>11, <1>12, <1>13

\* A note keeps the evidence.
LEMMA NoteFlushed ==
    ASSUME FlushedInv, FlushNote
    PROVE  FlushedInv' /\ Quiet /\ Carries /\ pc' = "flush" /\ pc = "flush"
<1>1. PICK n \in owed : /\ Put([kind |-> "note", why |-> n.why, run |-> n.run])
                        /\ owed' = owed \ {n}
  BY DEF FlushNote
<1>2. owed \subseteq Note
  BY FlushedFacts DEF PlainType
<1>3. PICK r \in Rec : r = [kind |-> "note", why |-> n.why, run |-> n.run]
  BY <1>2 DEF Note, Rec
<1>4. /\ pc = "flush" /\ UNCHANGED <<manifest, named, pc, segment, base, acked, promise, cut>>
      /\ owed' \subseteq Note /\ Put(r) /\ r.kind # "unit"
  BY <1>1, <1>2, <1>3 DEF FlushNote, past
<1>5. QED
  BY <1>4, PutFlushed DEF Quiet

\* An accepted unit is in the open segment, and nothing else changes.
LEMMA AcceptFlushed ==
    ASSUME FlushedInv, NEW p \in Run, NEW owes \in Losses, NEW n \in 0..MaxTaken, AcceptUnit(p, owes, n)
    PROVE  /\ FlushedInv' /\ Carries /\ Written' = Written + 1
           /\ \A l : IsSealed(l) => IsSealed(l)'
           /\ \A l : IsStored(l)' => IsStored(l) \/ l = n
           /\ InOpen(n)'
           /\ pc = "up" /\ pc' = pc
<1>1. PICK r : r = [kind |-> "unit", run |-> p, owes |-> owes, src |-> n]
  OBVIOUS
<1>2. r \in Rec /\ r.kind = "unit" /\ r.src = n
  BY <1>1 DEF Rec, Unit
<1>3. /\ pc = "up" /\ Put(r)
      /\ owed' = owed \cup [why : owes, run : {p}]
      /\ UNCHANGED <<manifest, named, pc, segment, base, acked, promise, cut>>
  BY <1>1 DEF AcceptUnit
<1>4. owed' \subseteq Note
  <2>1. owes \subseteq Why
    BY PolicyAssumption
  <2>2. owed \subseteq Note
    BY FlushedFacts DEF PlainType
  <2>3. QED
    BY <1>3, <2>1, <2>2 DEF Note
<1>5. /\ FlushedInv' /\ Carries /\ Written' = Written + 1
      /\ \A l : IsSealed(l) => IsSealed(l)'
      /\ \A l : IsStored(l)' => IsStored(l) \/ (r.kind = "unit" /\ r.src = l)
      /\ r.kind = "unit" => InOpen(r.src)'
  BY <1>2, <1>3, <1>4, PutFlushed
<1>6. QED
  BY <1>2, <1>3, <1>5

\* A manifest turns what is in the open segment into evidence.
LEMMA CommitFlushed ==
    ASSUME FlushedInv, Commit(TRUE)
    PROVE  FlushedInv' /\ Quiet /\ Carries /\ pc = "commit" /\ pc' = "roll"
<1> DEFINE j == journal[segment]
           M == [before |-> base, recs |-> SubSeq(j.recs, 1, acked)]
<1>1. /\ pc = "commit" /\ pc' = "roll"
      /\ manifest' = [manifest EXCEPT ![segment] = M]
      /\ UNCHANGED <<journal, segment, base, acked, owed, oldest, promise, cut>>
      /\ named' = {s \in Segment : Sealed(s)'}
  BY DEF Commit, NameIt, plane
<1>2. /\ acked = Len(j.recs) /\ j.dur = Len(j.recs) /\ j.recs \in Seq(Rec)
      /\ segment \in Segment
      /\ \A s \in Segment : Sealed(s) => s < segment
  BY <1>1, FlushedFacts DEF FlushedInv, OpenLast, OpenPc
<1>3. M \in [before : Seq(Rec), recs : Seq(Rec)] /\ M.recs = j.recs /\ M # NoManifest
  <2>1. SubSeq(j.recs, 1, acked) = j.recs
    BY <1>2
  <2>2. base \in Seq(Rec)
    BY FlushedFacts
  <2>3. M \in [before : Seq(Rec), recs : Seq(Rec)] /\ M.recs = j.recs
    BY <1>2, <2>1, <2>2
  <2>4. QED
    BY <2>3, PolicyAssumption
<1> HIDE DEF M
<1>4. DOMAIN manifest = Segment
  BY DEF FlushedInv
<1>5. /\ manifest'[segment] = M /\ DOMAIN manifest' = Segment
      /\ \A s \in Segment : s # segment => manifest'[s] = manifest[s]
  BY <1>1, <1>2, <1>4
<1>6. \A s \in Segment : Sealed(s)' <=> Sealed(s) \/ s = segment
  BY <1>3, <1>5 DEF Sealed
<1>a. \A s \in Segment : Sealed(s) => s # segment
  BY <1>2, FlushedFacts
<1>7. PlaneTypeOK'
  <2>1. \A s \in Segment : Sealed(s)' => manifest'[s] \in [before : Seq(Rec), recs : Seq(Rec)]
    BY <1>3, <1>5, <1>6 DEF FlushedInv, PlaneTypeOK
  <2>2. named' \subseteq {s \in Segment : Sealed(s)'}
    BY <1>1
  <2>3. acked <= Len(j.recs)
    BY <1>2, FlushedFacts
  <2>4. /\ journal' \in [Segment -> [recs : Seq(Rec), dur : Nat, start : Seq(Rec)]]
        /\ \A s \in Segment : journal'[s].dur <= Len(journal'[s].recs)
        /\ segment' \in Segment /\ base' \in Seq(Rec) /\ acked' \in Nat
        /\ owed' \subseteq Note /\ oldest' \in {"none", "young", "old"}
        /\ promise' \in Seq(Rec) /\ cut' \subseteq Segment
    BY <1>1 DEF FlushedInv, PlaneTypeOK
  <2>5. QED
    BY <1>1, <2>1, <2>2, <2>3, <2>4 DEF PlaneTypeOK, Written, Sealed
<1>8. OpenLast'
  <2>0. \A s \in Segment : Sealed(s) \/ s = segment => s <= segment
    BY <1>2, FlushedFacts
  <2>1. Sealed(segment)' /\ \A s \in Segment : Sealed(s)' => s <= segment
    BY <1>1, <1>3, <1>5, <1>6, <2>0 DEF Sealed
  <2>2. QED
    BY <1>1, <2>1 DEF OpenLast, OpenPc, Sealed
<1>9. SealedIsWhole'
  <2> SUFFICES ASSUME NEW s \in Segment, Sealed(s)'
               PROVE  manifest'[s].recs = journal'[s].recs /\ journal'[s].dur = Len(journal'[s].recs)
    BY DEF SealedIsWhole
  <2>1. CASE s = segment
    BY <1>1, <1>2, <1>3, <1>5, <2>1
  <2>2. CASE s # segment
    BY <1>1, <1>5, <1>6, <2>2 DEF FlushedInv, SealedIsWhole
  <2>3. QED
    BY <2>1, <2>2
<1>10. FlushedInv'
  BY <1>1, <1>5, <1>7, <1>8, <1>9 DEF FlushedInv, Sealed
<1>11. Quiet /\ Carries
  <2>1. ASSUME NEW n, IsSealed(n)
        PROVE  IsSealed(n)'
    <3>1. PICK s \in Segment : Sealed(s) /\ Has(manifest[s].recs, n)
      BY <2>1, EvidenceIs
    <3>2. Sealed(s)' /\ manifest'[s] = manifest[s]
      BY <1>5, <1>6, <1>a, <3>1
    <3>3. QED
      BY <3>1, <3>2 DEF IsSealed, Has
  <2>2. \A n : IsStored(n)' => IsStored(n)
    BY <1>1 DEF IsStored
  <2>3. Carries
    BY <1>1 DEF Carries, InOpen
  <2>4. QED
    BY <2>1, <2>2, <2>3 DEF Quiet
<1>12. QED
  BY <1>1, <1>10, <1>11

\* A power cut takes no manifest: every one of them is named.
LEMMA CutFlushed ==
    ASSUME FlushedInv, PowerCut
    PROVE  FlushedInv' /\ Quiet /\ pc' = "down"
<1>1. CutEffect
  BY CutIs, FlushedFacts
<1>2. CutManifests
  BY CutManifestsIs
<1>3. /\ pc' = "down" /\ UNCHANGED <<segment, base, owed, oldest, acked, promise>>
      /\ cut' \subseteq Segment
  BY FlushedFacts DEF PowerCut, Interrupt, PlainType
<1>4. ASSUME NEW s \in Segment
      PROVE  /\ journal'[s].dur <= Len(journal'[s].recs)
             /\ \A n : Has(journal'[s].recs, n) => Has(journal[s].recs, n)
  <2>1. PICK k \in journal[s].dur..Len(journal[s].recs) :
           journal'[s].recs = SubSeq(journal[s].recs, 1, k) /\ journal'[s].dur = k
    BY <1>1 DEF CutEffect
  <2>2. /\ journal[s].recs \in Seq(Rec) /\ k \in 0..Len(journal[s].recs) /\ k <= k
    BY <2>1, FlushedFacts
  <2>3. Len(SubSeq(journal[s].recs, 1, k)) = k
    BY <2>2
  <2>4. QED
    BY <2>1, <2>2, <2>3, HasFacts
<1>5. PlaneTypeOK'
  <2>1. journal' \in [Segment -> Journal]
    BY <1>1 DEF CutEffect
  <2>2. \A s \in Segment : Sealed(s)' => manifest'[s] \in [before : Seq(Rec), recs : Seq(Rec)]
    BY <1>2 DEF CutManifests, FlushedInv, PlaneTypeOK
  <2>3. named' \subseteq {s \in Segment : Sealed(s)'}
    BY <1>2 DEF CutManifests
  <2>4. /\ segment' \in Segment /\ base' \in Seq(Rec) /\ acked' \in Nat
        /\ owed' \subseteq Note /\ oldest' \in {"none", "young", "old"}
        /\ promise' \in Seq(Rec)
    BY <1>3, FlushedFacts DEF PlainType
  <2>5. QED
    BY <1>3, <1>4, <2>1, <2>2, <2>3, <2>4 DEF PlaneTypeOK, Journal, Sealed
<1>6. OpenLast'
  BY <1>3 DEF OpenLast, OpenPc
<1>7. \A s \in Segment : Sealed(s) => Sealed(s)' /\ manifest'[s] = manifest[s]
  BY <1>2 DEF CutManifests, FlushedInv, Sealed
<1>8. SealedIsWhole'
  <2> SUFFICES ASSUME NEW s \in Segment, Sealed(s)'
               PROVE  manifest'[s].recs = journal'[s].recs /\ journal'[s].dur = Len(journal'[s].recs)
    BY DEF SealedIsWhole
  <2>1. Sealed(s) /\ manifest'[s] = manifest[s]
    BY <1>2 DEF CutManifests
  <2>2. manifest[s].recs = journal[s].recs /\ journal[s].dur = Len(journal[s].recs)
    BY <2>1 DEF FlushedInv, SealedIsWhole
  <2>3. journal'[s] = journal[s]
    BY <1>1, <2>2 DEF CutEffect
  <2>4. QED
    BY <2>1, <2>2, <2>3
<1>9. FlushedInv'
  BY <1>2, <1>5, <1>6, <1>8 DEF FlushedInv, CutManifests
<1>10. Quiet
  <2>1. \A n : IsSealed(n) => IsSealed(n)'
    BY <1>7 DEF IsSealed
  <2>2. ASSUME NEW n, IsStored(n)'
        PROVE  IsStored(n)
    <3>1. PICK s \in Segment : Has(journal'[s].recs, n)
      BY <2>2 DEF IsStored, Has
    <3>2. QED
      BY <1>4, <3>1, EvidenceIs
  <2>3. QED
    BY <2>1, <2>2 DEF Quiet
<1>11. QED
  BY <1>3, <1>9, <1>10

-----------------------------------------------------------------------------
(* Where a run resumes.                                                    *)

\* The file f begins with all that the cursor c commits to.
Meets(c, f) ==
    c # NoCursor /\ Len(c) <= Len(f) /\ \A i \in 1..Len(c) : f[i] = c[i]

At(c, f) == IF Meets(c, f) THEN Len(c) ELSE 0

\* Whether a cursor's fingerprint meets a file, as decide compares them.
LEMMA MeetsIs ==
    ASSUME NEW f \in Seq(Line), NEW c, c # NoCursor => c \in Seq(Line)
    PROVE  /\ (IF /\ c # NoCursor
                  /\ Len(c) <= Len(f)
                  /\ SubSeq(f, 1, Len(c)) = c THEN Len(c) ELSE 0) = At(c, f)
           /\ At(c, f) \in 0..Len(f)
           /\ At(c, f) \in Nat
<1>1. CASE c = NoCursor
  BY <1>1 DEF At, Meets
<1>2. CASE c # NoCursor
  <2>1. c \in Seq(Line) /\ Len(c) \in Nat /\ Len(f) \in Nat
    BY <1>2
  <2>2. ASSUME Len(c) <= Len(f)
        PROVE  SubSeq(f, 1, Len(c)) = c <=> \A i \in 1..Len(c) : f[i] = c[i]
    <3>1. /\ SubSeq(f, 1, Len(c)) \in Seq(Line) /\ Len(SubSeq(f, 1, Len(c))) = Len(c)
          /\ \A i \in 1..Len(c) : SubSeq(f, 1, Len(c))[i] = f[i]
      BY <2>1, <2>2
    <3>2. (\A i \in 1..Len(c) : f[i] = c[i]) => SubSeq(f, 1, Len(c)) = c
      BY <2>1, <3>1, SeqEqual
    <3>3. QED
      BY <3>1, <3>2
  <2>3. QED
    BY <1>2, <2>1, <2>2 DEF At, Meets
<1>3. QED
  BY <1>1, <1>2

\* The numbers of the file: lines are numbered in the order they were made.
LEMMA SourceFacts ==
    ASSUME SourceInv
    PROVE  /\ src \in Seq(Line) /\ Len(src) \in Nat /\ made \in Nat /\ Older \in Nat
           /\ CompletePrefix \in Nat /\ CompletePrefix <= Len(src)
           /\ Older + Len(src) = made
           /\ half => CompletePrefix < Len(src)
           /\ \A i \in 1..Len(src) : src[i] \in Line /\ src[i] \in Nat /\ src[i] = Older + i /\ Older < src[i]
<1>1. MaxLines \in Nat
  BY ShipAssumption
<1>2. src \in Seq(Line) /\ Len(src) \in Nat /\ made \in Nat /\ Len(src) <= made /\ half \in BOOLEAN
  BY <1>1 DEF SourceInv
<1>3. Older \in Nat /\ Older + Len(src) = made
  BY <1>2 DEF Older
<1>4. src # <<>> => Len(src) >= 1
  BY <1>2
<1>5. /\ CompletePrefix \in Nat /\ CompletePrefix <= Len(src)
      /\ half => CompletePrefix < Len(src)
  BY <1>2, <1>4 DEF SourceInv, CompletePrefix
<1>6. ASSUME NEW i \in 1..Len(src)
      PROVE  src[i] \in Line /\ src[i] \in Nat /\ src[i] = Older + i /\ Older < src[i]
  <2>1. src[i] \in Line /\ src[i] = Older + i /\ i \in Nat /\ i >= 1
    BY <1>2 DEF SourceInv
  <2>2. QED
    BY <1>3, <2>1
<1>7. QED
  BY <1>2, <1>3, <1>5, <1>6

\* A file that was replaced does not match the one that is there.
LEMMA ReplacedIs ==
    ASSUME SourceInv, NEW f \in Seq(Line), Replaced(f)
    PROVE  ~ StartOf(f) /\ ~ Meets(f, src) /\ 1 \in 1..Len(f) /\ Len(f) \in Nat
<1>1. Len(f) \in Nat /\ 1 \in 1..Len(f) /\ f[1] <= Older /\ f[1] \in Line
  BY DEF Replaced
<1>2. f[1] \in Nat
  BY <1>1, ShipAssumption DEF Line
<1>3. ASSUME Len(f) <= Len(src), f[1] = src[1]
      PROVE  FALSE
  <2>1. 1 \in 1..Len(src)
    BY <1>1, <1>3, SourceFacts
  <2>2. Older < src[1]
    BY <2>1, SourceFacts
  <2>3. QED
    BY <1>1, <1>2, <1>3, <2>2, SourceFacts
<1>4. StartOf(f) => Len(f) <= Len(src) /\ f[1] = src[1]
  BY <1>1, SourceFacts DEF StartOf
<1>5. Meets(f, src) => Len(f) <= Len(src) /\ f[1] = src[1]
  BY <1>1 DEF Meets
<1>6. QED
  BY <1>1, <1>3, <1>4, <1>5

\* A start of the file, line by line.
LEMMA StartsWith ==
    ASSUME SourceInv, NEW f \in Seq(Line), StartOf(f), NEW i \in 1..Len(f)
    PROVE  f[i] = src[i] /\ i \in 1..Len(src) /\ i <= CompletePrefix /\ i <= Len(src) /\ i \in Nat
<1>1. Len(f) \in Nat /\ Len(f) <= CompletePrefix /\ f[i] = src[i]
  BY DEF StartOf
<1>2. \A l, c, n \in Nat : l <= c /\ c <= n => \A k \in 1..l : k <= c /\ k \in 1..n /\ k <= n /\ k \in Nat
  OBVIOUS
<1>3. QED
  BY <1>1, <1>2, SourceFacts

\* A cursor is used where it is a start of the file, and is nothing elsewhere.
LEMMA CursorAt ==
    CursorInv /\ SourceInv =>
        /\ ResumeAt(src) = IF cursor # NoCursor /\ StartOf(cursor) THEN Len(cursor) ELSE 0
        /\ ResumeAt(src) = At(cursor, src)
        /\ ResumeAt(src) \in Nat /\ ResumeAt(src) <= CompletePrefix /\ ResumeAt(src) <= Len(src)
<1> SUFFICES ASSUME CursorInv, SourceInv
             PROVE  /\ ResumeAt(src) = IF cursor # NoCursor /\ StartOf(cursor) THEN Len(cursor) ELSE 0
                    /\ ResumeAt(src) = At(cursor, src)
                    /\ ResumeAt(src) \in Nat /\ ResumeAt(src) <= CompletePrefix /\ ResumeAt(src) <= Len(src)
  OBVIOUS
<1>1. cursor # NoCursor => cursor \in Seq(Line)
  BY DEF CursorInv
<1>2. ResumeAt(src) = At(cursor, src) /\ At(cursor, src) \in Nat
  BY <1>1, SourceFacts, MeetsIs DEF ResumeAt
<1>3. CASE cursor = NoCursor
  BY <1>2, <1>3, SourceFacts DEF At, Meets
<1>4. CASE cursor # NoCursor /\ StartOf(cursor)
  <2>1. Len(cursor) \in Nat /\ Len(cursor) <= CompletePrefix /\ Len(cursor) <= Len(src)
    BY <1>1, <1>4, SourceFacts DEF StartOf
  <2>2. Meets(cursor, src)
    BY <1>4, <2>1 DEF StartOf, Meets
  <2>3. QED
    BY <1>2, <1>4, <2>1, <2>2 DEF At
<1>5. CASE cursor # NoCursor /\ Replaced(cursor)
  BY <1>1, <1>2, <1>5, ReplacedIs, SourceFacts DEF At
<1>6. QED
  BY <1>3, <1>4, <1>5 DEF CursorInv

-----------------------------------------------------------------------------
(* Counting lines.                                                         *)

\* Counting a set of positions.
LEMMA Counted ==
    ASSUME NEW a \in Nat, NEW b \in Nat, NEW S \in SUBSET (a..b)
    PROVE  /\ IsFiniteSet(S) /\ Cardinality(S) \in Nat
           /\ \A T \in SUBSET S : Cardinality(T) \in Nat /\ Cardinality(T) <= Cardinality(S)
           /\ \A x : Cardinality(S \cup {x}) \in Nat /\ Cardinality(S \cup {x}) <= Cardinality(S) + 1
<1>1. IsFiniteSet(a..b)
  BY FS_Interval
<1>2. IsFiniteSet(S)
  BY <1>1, FS_Subset
<1>3. Cardinality(S) \in Nat
  BY <1>2, FS_CardinalityType
<1>4. ASSUME NEW T \in SUBSET S
      PROVE  Cardinality(T) \in Nat /\ Cardinality(T) <= Cardinality(S)
  BY <1>2, FS_Subset, FS_CardinalityType
<1>5. ASSUME NEW x
      PROVE  Cardinality(S \cup {x}) \in Nat /\ Cardinality(S \cup {x}) <= Cardinality(S) + 1
  <2>1. Cardinality(S \cup {x}) = IF x \in S THEN Cardinality(S) ELSE Cardinality(S) + 1
    BY <1>2, FS_AddElement
  <2>2. QED
    BY <1>3, <2>1
<1>6. QED
  BY <1>2, <1>3, <1>4, <1>5

\* The lines of a kind between two positions.
LEMMA KindIs ==
    ASSUME NEW k, NEW f \in Seq(Line), NEW lo \in Nat, NEW hi \in Nat
    PROVE  /\ OfKind(k, f, lo, hi) \in SUBSET ((lo + 1)..hi) /\ OfKind(k, f, lo, hi) \subseteq Nat
           /\ Cardinality(OfKind(k, f, lo, hi)) \in Nat
           /\ \A j \in Nat : j \in OfKind(k, f, lo, hi) <=> lo < j /\ j <= hi /\ kind[f[j]] = k
<1>1. OfKind(k, f, lo, hi) \in SUBSET ((lo + 1)..hi)
  BY DEF OfKind
<1>2. lo + 1 \in Nat
  OBVIOUS
<1>3. Cardinality(OfKind(k, f, lo, hi)) \in Nat
  BY <1>1, <1>2, Counted
<1>4. \A j \in Nat : j \in (lo + 1)..hi <=> lo < j /\ j <= hi
  OBVIOUS
<1>5. \A j : j \in OfKind(k, f, lo, hi) <=> j \in (lo + 1)..hi /\ kind[f[j]] = k
  BY DEF OfKind
<1>6. \A j \in Nat : j \in OfKind(k, f, lo, hi) <=> lo < j /\ j <= hi /\ kind[f[j]] = k
  BY <1>4, <1>5
<1>7. (lo + 1)..hi \subseteq Nat
  OBVIOUS
<1>8. QED
  BY <1>1, <1>3, <1>6, <1>7

\* Fewer positions hold fewer lines.
LEMMA KindFewer ==
    ASSUME NEW k, NEW f \in Seq(Line), NEW lo \in Nat, NEW hi \in Nat, NEW g \in Seq(Line), NEW a \in Nat, NEW b \in Nat,
           \A j \in Nat : lo < j /\ j <= hi /\ kind[f[j]] = k =>
                              a < j /\ j <= b /\ kind[g[j]] = k
    PROVE  Cardinality(OfKind(k, f, lo, hi)) <= Cardinality(OfKind(k, g, a, b))
<1>1. PICK S : S = OfKind(k, f, lo, hi)
  OBVIOUS
<1>2. PICK T : T = OfKind(k, g, a, b)
  OBVIOUS
<1>3. S \in SUBSET T
  <2>1. \A j : j \in S => j \in Nat /\ lo < j /\ j <= hi /\ kind[f[j]] = k
    BY <1>1 DEF OfKind
  <2>2. \A j \in Nat : a < j /\ j <= b /\ kind[g[j]] = k => j \in T
    BY <1>2 DEF OfKind
  <2>3. QED
    BY <2>1, <2>2
<1>4. T \in SUBSET ((a + 1)..b) /\ a + 1 \in Nat
  BY <1>2 DEF OfKind
<1>5. QED
  BY <1>1, <1>2, <1>3, <1>4, Counted

\* There are none in an empty stretch.
LEMMA KindNone ==
    ASSUME NEW k, NEW f \in Seq(Line), NEW lo \in Nat
    PROVE  Cardinality(OfKind(k, f, lo, lo)) = 0
<1>1. OfKind(k, f, lo, lo) = {}
  BY DEF OfKind
<1>2. QED
  BY <1>1, FS_EmptySet

-----------------------------------------------------------------------------
(* Steps of the run that leave the file and the cursor alone.              *)

\* What the invariant says of a run's numbers.
LEMMA RunFacts ==
    ASSUME ShipInv
    PROVE  /\ snap \in Seq(Line) /\ Len(snap) \in Nat /\ stored \in Nat /\ through \in Nat
           /\ ResumeAt(snap) = At(cursor, snap) /\ ResumeAt(snap) \in Nat /\ ResumeAt(snap) <= Len(snap)
           /\ Written \in Nat /\ Line \subseteq Nat
           /\ \A i \in 1..Len(snap) : snap[i] \in Line
<1>1. snap \in Seq(Line) /\ Len(snap) \in Nat
  BY DEF ShipInv, RunType
<1>2. stored \in Nat /\ through \in Nat
  BY <1>1 DEF ShipInv, RunType
<1>3. ResumeAt(snap) = At(cursor, snap) /\ At(cursor, snap) \in 0..Len(snap)
  BY <1>1, MeetsIs DEF ShipInv, CursorInv, ResumeAt
<1>4. Written \in Nat /\ Line \subseteq Nat
  BY FlushedFacts, ShipAssumption DEF ShipInv, Line
<1>5. QED
  BY <1>1, <1>2, <1>3, <1>4

\* What does not depend on the run.
LEMMA FileKept ==
    ASSUME ShipInv, UNCHANGED <<source, position>>, Quiet
    PROVE  SourceInv' /\ CursorInv' /\ CursorBehindEvidence' /\ WindowInv'
<1>1. /\ kind' = kind /\ src' = src /\ half' = half /\ made' = made /\ cursor' = cursor /\ waived' = waived
  BY DEF source, position
<1>2. SourceInv'
  BY <1>1 DEF ShipInv, SourceInv, Older
<1>3. CursorInv'
  BY <1>1 DEF ShipInv, CursorInv, StartOf, Replaced, Older, CompletePrefix
<1>4. CursorBehindEvidence'
  BY <1>1 DEF ShipInv, CursorBehindEvidence, SomeDomainMaps, Quiet
<1>5. WindowInv'
  BY <1>1 DEF ShipInv, WindowInv, Quiet, ResumeAt, OfKind
<1>6. QED
  BY <1>2, <1>3, <1>4, <1>5

\* What does not depend on how far the run has come.
LEMMA RestKept ==
    ASSUME ShipInv, UNCHANGED <<source, position>>, Quiet,
           step' # "idle" => step # "idle" /\ snap' = snap
    PROVE  SourceInv' /\ CursorInv' /\ CursorBehindEvidence' /\ StoredInv' /\ WindowInv'
<1>1. StoredInv'
  BY DEF ShipInv, StoredInv, SomeDomainMaps, Quiet, Older, CompletePrefix, source
<1>2. QED
  BY <1>1, FileKept

\* A run's invariant follows from its progress where the file and the cursor stay.
LEMMA RunKept ==
    ASSUME RunInv, UNCHANGED <<source, position, snap>>, step # "idle",
           NEW lo \in 0..Len(snap), Progress(lo)'
    PROVE  RunInv'
<1>1. /\ src' = src /\ half' = half /\ made' = made /\ cursor' = cursor /\ waived' = waived /\ snap' = snap
  BY DEF source, position
<1>2. StartOf(snap)' = StartOf(snap) /\ Replaced(snap)' = Replaced(snap)
  BY <1>1 DEF StartOf, Replaced, Older, CompletePrefix
<1>3. ResumeAt(src)' = ResumeAt(src) /\ ResumeAt(snap)' = ResumeAt(snap)
  BY <1>1 DEF ResumeAt
<1>4. QED
  BY <1>1, <1>2, <1>3 DEF RunInv, Counts

\* A run's progress stays where the store loses nothing.
LEMMA ProgressKept ==
    ASSUME NEW lo, Progress(lo), UNCHANGED <<kind, position, step, run>>,
           \A n : IsSealed(n) => IsSealed(n)', step # "open" => Carries,
           step = "batch" => Written' = Written
    PROVE  Progress(lo)'
<1>1. /\ kind' = kind /\ cursor' = cursor /\ waived' = waived /\ step' = step /\ snap' = snap /\ domain' = domain
      /\ todo' = todo /\ stored' = stored /\ through' = through
  BY DEF run, position
<1>2. /\ ResumeAt(snap)' = ResumeAt(snap) /\ ToMap' = ToMap /\ Waiting' = Waiting
      /\ OfKind(domain, snap, ResumeAt(snap), lo)' = OfKind(domain, snap, ResumeAt(snap), lo)
  BY <1>1 DEF ResumeAt, ToMap, Waiting, OfKind
<1>3. Ahead(todo, ToMap, lo, Len(snap))'
  <2>1. Ahead(todo', ToMap', lo, Len(snap'))
    BY <1>1, <1>2 DEF Progress
  <2>2. QED
    BY <2>1 DEF Ahead, Fits, Precedes, Holds
<1>4. \A j \in 1..lo : kind[snap[j]] = domain =>
          Settled(snap[j])' \/ (step # "open" /\ InOpen(snap[j])')
  BY <1>1 DEF Progress, Carries, Settled
<1>5. \A j \in 1..lo : (kind[snap[j]] = domain =>
          Settled(snap[j]) \/ (step # "open" /\ InOpen(snap[j])))'
  BY <1>1, <1>4 DEF Settled, IsSealed, InOpen, Sealed
<1>6. QED
  BY <1>1, <1>2, <1>3, <1>5 DEF Progress

\* The store's own steps between two calls of ship.
LEMMA PlaneStepKept ==
    ASSUME ShipInv, PlaneStep
    PROVE  ShipInv'
<1>1. /\ Resync \/ FlushNote \/ SealSync \/ Commit(TRUE) \/ (Room /\ Roll)
      /\ UNCHANGED <<source, position, step, run>>
  BY DEF PlaneStep
<1>2. FlushedInv /\ StepInv
  BY DEF ShipInv
<1>3. /\ FlushedInv' /\ Quiet /\ Carries
      /\ pc # "down"
      /\ pc = "resync" => pc' = "up" /\ Written' = Written
      /\ pc \in {"flush", "commit"} => pc' \in {"flush", "commit", "roll"}
      /\ pc = "roll" => pc' = "up" /\ Written' = 0
      /\ pc # "up"
  <2>1. CASE Resync \/ SealSync
    BY <1>2, <2>1, SyncFlushed
  <2>2. CASE FlushNote
    BY <1>2, <2>2, NoteFlushed
  <2>3. CASE Commit(TRUE)
    BY <1>2, <2>3, CommitFlushed
  <2>4. CASE Room /\ Roll
    BY <1>2, <2>4, RollFlushed DEF Roll
  <2>5. QED
    BY <1>1, <2>1, <2>2, <2>3, <2>4
<1>4. StepInv'
  BY <1>1, <1>2, <1>3 DEF StepInv
<1>5. RunType'
  BY <1>1 DEF ShipInv, RunType, run, position
<1>6. step # "idle" /\ step # "open"
  BY <1>2, <1>3 DEF StepInv
<1>7. step = "batch" => Written' = Written
  BY <1>2, <1>3 DEF StepInv
<1>8. RunInv'
  <2>1. PICK lo \in 0..Len(snap) : Progress(lo)
    BY <1>6 DEF ShipInv, RunInv
  <2>2. kind' = kind /\ snap' = snap
    BY <1>1 DEF source, run
  <2>3. Progress(lo)'
    BY <1>1, <1>3, <1>7, <2>1, <2>2, ProgressKept DEF Quiet
  <2>4. QED
    BY <1>1, <1>6, <2>2, <2>3, RunKept DEF ShipInv
<1>9. /\ step' # "idle" => step # "idle" /\ snap' = snap
  BY <1>1 DEF run
<1>10. QED
  BY <1>1, <1>3, <1>4, <1>5, <1>8, <1>9, RestKept DEF ShipInv

\* A run that dies leaves the cursor and what is durable.
LEMMA DieKept ==
    ASSUME ShipInv, Die
    PROVE  ShipInv'
<1>1. /\ Exit \/ PowerCut
      /\ step' = "idle" /\ UNCHANGED <<source, position, run>>
  BY DEF Die
<1>2. FlushedInv
  BY DEF ShipInv
<1>3. FlushedInv' /\ Quiet /\ pc' = "down"
  <2>1. CASE Exit
    <3>1. /\ UNCHANGED <<journal, manifest, named, segment, base, acked, owed, oldest, promise>>
          /\ cut' \subseteq Segment /\ pc' = "down"
      BY <1>2, <2>1, FlushedFacts DEF Exit, Interrupt, files, PlainType
    <3>2. QED
      BY <1>2, <3>1, PcFlushed
  <2>2. CASE PowerCut
    BY <1>2, <2>2, CutFlushed
  <2>3. QED
    BY <1>1, <2>1, <2>2
<1>4. StepInv' /\ RunInv'
  BY <1>1, <1>3 DEF StepInv, RunInv
<1>5. RunType'
  BY <1>1 DEF ShipInv, RunType, run, position
<1>6. QED
  BY <1>1, <1>3, <1>4, <1>5, RestKept DEF ShipInv

\* The run has its plane: what it hands over goes to the open segment.
LEMMA OpenKept ==
    ASSUME ShipInv, OpenPlane
    PROVE  ShipInv'
<1>1. /\ step = "open" /\ step' = "batch" /\ Room /\ Open /\ UNCHANGED <<source, position, run>>
      /\ kind' = kind /\ cursor' = cursor /\ waived' = waived /\ snap' = snap /\ domain' = domain
      /\ todo' = todo /\ stored' = stored /\ through' = through
  BY DEF OpenPlane, source, run, position
<1>2. FlushedInv' /\ Quiet /\ pc' \in {"resync", "up"}
  BY <1>1, OpenFlushed DEF ShipInv
<1>3. StepInv' /\ RunType'
  BY <1>1, <1>2 DEF StepInv, ShipInv, RunType
<1>4. PICK lo \in 0..Len(snap) : Progress(lo)
  BY <1>1 DEF ShipInv, RunInv
<1>5. lo \in Nat /\ lo = ResumeAt(snap)
  BY <1>1, <1>4, RunFacts DEF Progress
<1>6. Written' \in Nat
  <2>1. FlushedInv'
    BY <1>2
  <2>2. (Written \in Nat)'
    BY <2>1, WrittenIs, PTL
  <2>3. QED
    BY <2>2
<1>7. Progress(lo)'
  <2>1. /\ ResumeAt(snap)' = ResumeAt(snap) /\ ToMap' = ToMap /\ Waiting' = Waiting
        /\ OfKind(domain, snap, ResumeAt(snap), lo)' = OfKind(domain, snap, ResumeAt(snap), lo)
    BY <1>1 DEF ResumeAt, ToMap, Waiting, OfKind
  <2>2. Ahead(todo, ToMap, lo, Len(snap))'
    <3>1. Ahead(todo', ToMap', lo, Len(snap'))
      BY <1>1, <1>4, <2>1 DEF Progress
    <3>2. QED
      BY <3>1 DEF Ahead, Fits, Precedes, Holds
  <2>3. \A j \in 1..lo : kind[snap[j]] = domain => Settled(snap[j])'
    BY <1>1, <1>2, <1>4 DEF Progress, Settled, Quiet
  <2>4. \A j \in 1..lo : (kind[snap[j]] = domain =>
            Settled(snap[j]) \/ (step # "open" /\ InOpen(snap[j])))'
    BY <1>1, <2>3 DEF Settled, IsSealed, InOpen, Sealed
  <2>5. Cardinality(OfKind(domain, snap, ResumeAt(snap), lo)) = 0
    BY <1>5, RunFacts, KindNone
  <2>6. Waiting \in Nat /\ Waiting <= Cut
    BY <1>4, WaitingIs DEF Progress, Waiting
  <2>7. 0 + Waiting <= Most /\ 0 <= Written' /\ 0 <= Most
    BY <1>6, <2>6, CutIsPositive DEF Most
  <2>8. QED
    BY <1>1, <1>4, <2>1, <2>2, <2>4, <2>5, <2>7 DEF Progress
<1>8. RunInv'
  BY <1>1, <1>4, <1>7, RunKept DEF ShipInv
<1>9. QED
  BY <1>1, <1>2, <1>3, <1>8, RestKept DEF ShipInv

\* The seal at the end of a run.
LEMMA LastKept ==
    ASSUME ShipInv, LastSeal
    PROVE  ShipInv'
<1>1. /\ step = "batch" /\ step' = "last" /\ pc = "up" /\ todo = <<>>
      /\ pc' = (IF Written > 0 THEN "flush" ELSE "up")
      /\ UNCHANGED <<source, position, run>>
      /\ UNCHANGED <<journal, manifest, named, segment, base, acked, owed, oldest, promise, cut>>
      /\ kind' = kind /\ cursor' = cursor /\ waived' = waived /\ snap' = snap /\ domain' = domain
      /\ todo' = todo /\ stored' = stored /\ through' = through
  BY DEF LastSeal, source, run, position, files, plane, past
<1>2. FlushedInv' /\ Quiet /\ Carries /\ Written' = Written
  <2>1. cut' \subseteq Segment
    BY <1>1, FlushedFacts DEF ShipInv, PlainType
  <2>2. QED
    BY <1>1, <2>1, PcFlushed DEF ShipInv
<1>3. StepInv' /\ RunType'
  BY <1>1, <1>2, RunFacts DEF StepInv, ShipInv, RunType
<1>4. PICK lo \in 0..Len(snap) : Progress(lo)
  BY <1>1 DEF ShipInv, RunInv
<1>5. Progress(lo)'
  <2>1. /\ ResumeAt(snap)' = ResumeAt(snap) /\ ToMap' = ToMap
        /\ OfKind(domain, snap, ResumeAt(snap), lo)' = OfKind(domain, snap, ResumeAt(snap), lo)
    BY <1>1 DEF ResumeAt, ToMap, OfKind
  <2>2. Ahead(todo, ToMap, lo, Len(snap))'
    <3>1. Ahead(todo', ToMap', lo, Len(snap'))
      BY <1>1, <1>4, <2>1 DEF Progress
    <3>2. QED
      BY <3>1 DEF Ahead, Fits, Precedes, Holds
  <2>3. \A j \in 1..lo : kind[snap[j]] = domain => Settled(snap[j])' \/ InOpen(snap[j])'
    BY <1>1, <1>2, <1>4 DEF Progress, Settled, Quiet, Carries
  <2>4. \A j \in 1..lo : (kind[snap[j]] = domain =>
            Settled(snap[j]) \/ (step # "open" /\ InOpen(snap[j])))'
    BY <1>1, <2>3 DEF Settled, IsSealed, InOpen, Sealed
  <2>5. QED
    BY <1>1, <1>4, <2>1, <2>2, <2>4 DEF Progress
<1>6. RunInv'
  BY <1>1, <1>4, <1>5, RunKept DEF ShipInv
<1>7. QED
  BY <1>1, <1>2, <1>3, <1>6, RestKept DEF ShipInv

\* A batch is through: its lines are on the journal, and none are left out.
LEMMA BatchKept ==
    ASSUME ShipInv, BatchDone
    PROVE  ShipInv'
<1>1. /\ step = "batch" /\ pc = "up" /\ todo # <<>> /\ todo[1].units = <<>>
      /\ through' = todo[1].through /\ todo' = Tail(todo)
      /\ IF SealDue THEN pc' = "flush" /\ step' = "seal" ELSE pc' = pc /\ step' = step
      /\ UNCHANGED <<source, position>>
      /\ UNCHANGED <<journal, manifest, named, segment, base, acked, owed, oldest, promise, cut>>
      /\ kind' = kind /\ cursor' = cursor /\ waived' = waived /\ snap' = snap /\ domain' = domain /\ stored' = stored
  BY DEF BatchDone, source, position, files, plane, past
<1>2. FlushedInv' /\ Quiet /\ Carries /\ Written' = Written
  <2>1. cut' \subseteq Segment
    BY <1>1, FlushedFacts DEF ShipInv, PlainType
  <2>2. QED
    BY <1>1, <2>1, PcFlushed DEF ShipInv
<1>3. PICK lo \in 0..Len(snap) : Progress(lo)
  BY <1>1 DEF ShipInv, RunInv
<1>4. /\ lo \in Nat /\ lo <= Len(snap) /\ stored # 0 /\ Ahead(todo, ToMap, lo, Len(snap))
      /\ through <= lo /\ stored <= lo /\ ResumeAt(snap) <= through
  <2>1. todo \in Batches /\ 1 \in 1..Len(todo)
    BY <1>1, <1>3 DEF Progress, Ahead, Batches
  <2>2. ~ Filled(todo)
    BY <1>1, <2>1 DEF Filled
  <2>3. QED
    BY <1>3, <2>2, RunFacts DEF Progress
<1>5. PICK t : t = todo[1].through
  OBVIOUS
<1>6. /\ t \in lo..Len(snap) /\ Ahead(Tail(todo), ToMap, t, Len(snap))
      /\ \A j \in ToMap : lo < j /\ j <= Len(snap) => t < j
  BY <1>1, <1>4, <1>5, RunFacts, AheadDrops
<1>7. t \in Nat /\ t \in 0..Len(snap) /\ lo <= t /\ t <= Len(snap) /\ through \in Nat /\ stored \in Nat
  BY <1>4, <1>6, RunFacts
<1>8. \A j \in Nat : lo < j /\ j <= t => kind[snap[j]] # domain
  <2> SUFFICES ASSUME NEW j \in Nat, lo < j, j <= t, kind[snap[j]] = domain
               PROVE  FALSE
    OBVIOUS
  <2>1. j <= Len(snap) /\ 0 < j
    BY <1>4, <1>7, RunFacts
  <2>2. j \in ToMap
    BY <1>4, <2>1, KindIs, RunFacts DEF ToMap
  <2>3. t < j
    BY <1>6, <2>1, <2>2
  <2>4. QED
    BY <1>7, <2>3
<1>9. StepInv' /\ RunType'
  BY <1>1, <1>2, <1>5, <1>7 DEF StepInv, ShipInv, RunType
<1>10. Progress(t)'
  <2>1. /\ ResumeAt(snap)' = ResumeAt(snap) /\ ToMap' = ToMap
        /\ OfKind(domain, snap, ResumeAt(snap), t)' = OfKind(domain, snap, ResumeAt(snap), t)
    BY <1>1 DEF ResumeAt, ToMap, OfKind
  <2>2. Ahead(todo, ToMap, t, Len(snap))'
    <3>1. Ahead(todo', ToMap', t, Len(snap'))
      BY <1>1, <1>6, <2>1
    <3>2. QED
      BY <3>1 DEF Ahead, Fits, Precedes, Holds
  <2>3. \A j \in 1..t : kind[snap[j]] = domain => Settled(snap[j])' \/ InOpen(snap[j])'
    <3> SUFFICES ASSUME NEW j \in 1..t, kind[snap[j]] = domain
                 PROVE  Settled(snap[j])' \/ InOpen(snap[j])'
      OBVIOUS
    <3>1. j \in 1..lo
      BY <1>4, <1>7, <1>8
    <3>2. QED
      BY <1>1, <1>2, <1>3, <3>1 DEF Progress, Settled, Quiet, Carries
  <2>4. \A j \in 1..t : (kind[snap[j]] = domain =>
            Settled(snap[j]) \/ (step # "open" /\ InOpen(snap[j])))'
    BY <1>1, <2>3 DEF Settled, IsSealed, InOpen, Sealed
  <2>5. Cardinality(OfKind(domain, snap, ResumeAt(snap), t)) <= Cardinality(OfKind(domain, snap, ResumeAt(snap), lo))
    <3>1. \A j \in Nat : ResumeAt(snap) < j /\ j <= t /\ kind[snap[j]] = domain =>
                             ResumeAt(snap) < j /\ j <= lo /\ kind[snap[j]] = domain
      BY <1>4, <1>7, <1>8
    <3>2. QED
      BY <1>4, <1>7, <3>1, RunFacts, KindFewer
  <2>6. /\ Cardinality(OfKind(domain, snap, ResumeAt(snap), t)) \in Nat
        /\ Cardinality(OfKind(domain, snap, ResumeAt(snap), lo)) \in Nat
    BY <1>4, <1>7, RunFacts, KindIs
  <2>7. /\ Cardinality(OfKind(domain, snap, ResumeAt(snap), lo)) <= Most
        /\ Cardinality(OfKind(domain, snap, ResumeAt(snap), lo)) <= Written
    BY <1>1, <1>3 DEF Progress
  <2>8. Waiting' \in Nat /\ Waiting' <= Cut
    BY <1>1, <1>6, WaitingIs DEF Waiting
  <2>9. step' = "batch" => Cardinality(OfKind(domain, snap, ResumeAt(snap), t)) + Waiting' <= Most
    <3>1. step' = "batch" => Written <= SealAfter - 1
      BY <1>1, RunFacts, CutIsPositive DEF SealDue
    <3>2. \A a, b, c, w, m, k \in Nat : /\ a <= b /\ b <= c /\ c <= m - 1 /\ w <= k
                                        => a + w <= m - 1 + k
      OBVIOUS
    <3>3. QED
      BY <2>5, <2>6, <2>7, <2>8, <3>1, <3>2, RunFacts, CutIsPositive DEF Most
  <2>10. /\ Cardinality(OfKind(domain, snap, ResumeAt(snap), t)) <= Most
         /\ Cardinality(OfKind(domain, snap, ResumeAt(snap), t)) <= Written'
    BY <1>2, <2>5, <2>6, <2>7, RunFacts, CutIsPositive
  <2>11. /\ ResumeAt(snap) <= t /\ t <= Len(snap) /\ stored <= t
    BY <1>4, <1>7, RunFacts
  <2>12. /\ step' \in {"batch", "seal"} /\ t <= t
    BY <1>1, <1>7
  <2>13. QED
    BY <1>1, <1>4, <1>5, <2>1, <2>2, <2>4, <2>9, <2>10, <2>11, <2>12 DEF Progress
<1>11. RunInv'
  BY <1>1, <1>7, <1>10, RunKept DEF ShipInv
<1>12. QED
  BY <1>1, <1>2, <1>9, <1>11, RestKept DEF ShipInv

-----------------------------------------------------------------------------
(* A line is stored.                                                       *)

\* The lines read of a file are numbered in order.
LEMMA SnapOrder ==
    ASSUME ShipInv, step # "idle", NEW i \in 1..Len(snap)
    PROVE  /\ snap[i] \in Line /\ snap[i] \in Nat /\ snap[i] <= snap[Len(snap)]
           /\ snap[Len(snap)] \in Nat
<1>1. Counts(snap) /\ snap # <<>>
  BY DEF ShipInv, RunInv
<1>2. Len(snap) \in 1..Len(snap) /\ 1 \in 1..Len(snap) /\ Len(snap) \in Nat
  BY <1>1, RunFacts
<1>3. snap[i] \in Nat /\ snap[1] \in Nat /\ snap[Len(snap)] \in Nat /\ snap[i] \in Line
  BY <1>2, RunFacts
<1>4. snap[i] = snap[1] + i - 1 /\ snap[Len(snap)] = snap[1] + Len(snap) - 1
  BY <1>1, <1>2 DEF Counts
<1>5. QED
  BY <1>2, <1>3, <1>4

\* A unit of the batch is handed to the store.
LEMMA TakeKept ==
    ASSUME ShipInv, TakeUnit
    PROVE  ShipInv'
<1>1. /\ step = "batch" /\ todo # <<>> /\ todo[1].units # <<>>
      /\ \E r \in Run, owes \in Losses : AcceptUnit(r, owes, snap[todo[1].units[1]])
      /\ todo' = [todo EXCEPT ![1].units = Tail(todo[1].units)]
      /\ stored' = stored + 1 /\ UNCHANGED <<source, position, snap>>
      /\ kind' = kind /\ src' = src /\ half' = half /\ made' = made
      /\ cursor' = cursor /\ waived' = waived /\ snap' = snap /\ domain' = domain
      /\ step' = step /\ through' = through
  BY DEF TakeUnit, source, position
<1>2. PICK lo \in 0..Len(snap) : Progress(lo)
  BY <1>1 DEF ShipInv, RunInv
<1>3. /\ lo \in Nat /\ lo <= Len(snap) /\ Ahead(todo, ToMap, lo, Len(snap))
      /\ through <= lo /\ stored <= lo /\ ResumeAt(snap) <= through
  BY <1>1, <1>2, RunFacts DEF Progress
<1>4. PICK i : i = todo[1].units[1]
  OBVIOUS
<1>5. /\ i \in Nat /\ i \in ToMap /\ lo < i /\ i <= Len(snap)
      /\ \A j \in ToMap : lo < j /\ j <= Len(snap) => i <= j
      /\ Ahead(todo', ToMap, i, Len(snap))
      /\ todo' # <<>> /\ Len(todo'[1].units) = Len(todo[1].units) - 1
  <2>1. TakesFirst(todo', todo, i) /\ Len(snap) \in Nat
    BY <1>1, <1>4, RunFacts DEF TakesFirst
  <2>2. QED
    BY <1>3, <2>1, AheadTakes
<1>6. /\ i \in 1..Len(snap) /\ i \in 0..Len(snap) /\ lo + 1 <= i /\ kind[snap[i]] = domain
  <2>1. kind[snap[i]] = domain
    BY <1>3, <1>5, KindIs, RunFacts DEF ToMap
  <2>2. QED
    BY <1>3, <1>5, <2>1, RunFacts
<1>7. snap[i] \in Line /\ snap[i] \in Nat /\ snap[i] <= snap[Len(snap)]
  BY <1>1, <1>6, SnapOrder
<1>8. /\ FlushedInv' /\ Carries /\ Written' = Written + 1
      /\ \A n : IsSealed(n) => IsSealed(n)'
      /\ \A n : IsStored(n)' => IsStored(n) \/ n = snap[i]
      /\ InOpen(snap[i])'
      /\ pc = "up" /\ pc' = pc
  <2>1. snap[i] \in 0..MaxTaken
    BY <1>7, ShipAssumption, PlaneBoundAssumption DEF Line
  <2>2. PICK r \in Run, owes \in Losses : AcceptUnit(r, owes, snap[i])
    BY <1>1, <1>4
  <2>3. ASSUME NEW n \in 0..MaxTaken, n = snap[i]
        PROVE  /\ FlushedInv' /\ Carries /\ Written' = Written + 1
               /\ \A l : IsSealed(l) => IsSealed(l)'
               /\ \A l : IsStored(l)' => IsStored(l) \/ l = n
               /\ InOpen(n)'
               /\ pc = "up" /\ pc' = pc
    BY <2>2, <2>3, AcceptFlushed DEF ShipInv
  <2>4. PICK n \in 0..MaxTaken : n = snap[i]
    BY <2>1
  <2>5. InOpen(n)' /\ FlushedInv' /\ Carries /\ Written' = Written + 1 /\ pc = "up" /\ pc' = pc
    BY <2>3, <2>4
  <2>6. /\ \A l : IsSealed(l) => IsSealed(l)'
        /\ \A l : IsStored(l)' => IsStored(l) \/ l = n
    BY <2>3, <2>4
  <2>7. InOpen(snap[i])'
    BY <1>1, <2>4, <2>5 DEF InOpen
  <2>8. QED
    BY <2>4, <2>5, <2>6, <2>7
<1>9. StepInv'
  BY <1>1, <1>8 DEF ShipInv, StepInv
<1>10. RunType'
  <2>1. stored + 1 \in 0..Len(snap)
    BY <1>3, <1>5, RunFacts
  <2>2. QED
    BY <1>1, <2>1 DEF ShipInv, RunType
<1>11. \A j \in Nat : lo < j /\ j <= i /\ kind[snap[j]] = domain => j = i
  <2> SUFFICES ASSUME NEW j \in Nat, lo < j, j <= i, kind[snap[j]] = domain
               PROVE  j = i
    OBVIOUS
  <2>1. j <= Len(snap) /\ 0 < j
    BY <1>3, <1>5, RunFacts
  <2>2. j \in ToMap
    BY <1>3, <2>1, KindIs, RunFacts DEF ToMap
  <2>3. i <= j
    BY <1>5, <2>1, <2>2
  <2>4. QED
    BY <1>5, <2>3
<1>12. /\ Cardinality(OfKind(domain, snap, ResumeAt(snap), lo)) \in Nat
       /\ Cardinality(OfKind(domain, snap, ResumeAt(snap), i)) \in Nat
       /\ Cardinality(OfKind(domain, snap, ResumeAt(snap), i)) <= Cardinality(OfKind(domain, snap, ResumeAt(snap), lo)) + 1
  <2> DEFINE R == ResumeAt(snap)
             A == OfKind(domain, snap, R, lo)
             B == OfKind(domain, snap, R, i)
  <2>1. R \in Nat /\ snap \in Seq(Line)
    BY RunFacts
  <2> HIDE DEF R
  <2>2. /\ A \in SUBSET ((R + 1)..lo) /\ A \subseteq Nat /\ Cardinality(A) \in Nat
        /\ \A j \in Nat : j \in A <=> R < j /\ j <= lo /\ kind[snap[j]] = domain
    BY <1>3, <2>1, KindIs
  <2>3. /\ B \subseteq Nat /\ Cardinality(B) \in Nat
        /\ \A j \in Nat : j \in B <=> R < j /\ j <= i /\ kind[snap[j]] = domain
    BY <1>5, <2>1, KindIs
  <2> HIDE DEF A, B
  <2>4. B \subseteq A \cup {i}
    <3> SUFFICES ASSUME NEW j \in B, j # i PROVE j \in A
      OBVIOUS
    <3>1. j \in Nat /\ R < j /\ j <= i /\ kind[snap[j]] = domain
      BY <2>3
    <3>2. ~ (lo < j)
      BY <1>11, <3>1
    <3>3. QED
      BY <1>3, <2>2, <3>1, <3>2
  <2>5. /\ IsFiniteSet(A) /\ Cardinality(A \cup {i}) \in Nat
        /\ Cardinality(A \cup {i}) <= Cardinality(A) + 1
    <3>1. R + 1 \in Nat
      BY <2>1
    <3>2. QED
      BY <1>3, <2>2, <3>1, Counted
  <2>6. IsFiniteSet(A \cup {i})
    BY <2>5, FS_AddElement
  <2>7. Cardinality(B) <= Cardinality(A \cup {i})
    BY <2>4, <2>6, FS_Subset
  <2>8. QED
    BY <2>2, <2>3, <2>5, <2>7 DEF R, A, B
<1>13. /\ Cardinality(OfKind(domain, snap, ResumeAt(snap), i)) <= Most
       /\ Cardinality(OfKind(domain, snap, ResumeAt(snap), i)) <= Written'
       /\ Cardinality(OfKind(domain, snap, ResumeAt(snap), i)) + Waiting' <= Most
  <2>1. /\ Cardinality(OfKind(domain, snap, ResumeAt(snap), lo)) <= Written
        /\ Cardinality(OfKind(domain, snap, ResumeAt(snap), lo)) + Waiting <= Most
    BY <1>1, <1>2 DEF Progress
  <2>2. Waiting \in Nat /\ Waiting' \in Nat /\ Waiting' = Waiting - 1
    <3>1. Waiting \in Nat
      BY <1>3, WaitingIs DEF Waiting
    <3>2. Waiting' \in Nat
      BY <1>5, WaitingIs DEF Waiting
    <3>3. QED
      BY <1>1, <1>5, <3>1, <3>2 DEF Waiting
  <2>3. QED
    BY <1>8, <1>12, <2>1, <2>2, RunFacts, CutIsPositive
<1>14. Progress(i)'
  <2>1. /\ ResumeAt(snap)' = ResumeAt(snap) /\ ToMap' = ToMap
        /\ OfKind(domain, snap, ResumeAt(snap), i)' = OfKind(domain, snap, ResumeAt(snap), i)
    BY <1>1 DEF ResumeAt, ToMap, OfKind
  <2>2. Ahead(todo, ToMap, i, Len(snap))'
    <3>1. Ahead(todo', ToMap', i, Len(snap'))
      BY <1>1, <1>5, <2>1
    <3>2. QED
      BY <3>1 DEF Ahead, Fits, Precedes, Holds
  <2>3. \A j \in 1..i : kind[snap[j]] = domain => Settled(snap[j])' \/ InOpen(snap[j])'
    <3> SUFFICES ASSUME NEW j \in 1..i, kind[snap[j]] = domain
                 PROVE  Settled(snap[j])' \/ InOpen(snap[j])'
      OBVIOUS
    <3>1. j \in 1..lo \/ j = i
      BY <1>3, <1>5, <1>11
    <3>2. CASE j = i
      BY <1>8, <3>2
    <3>3. CASE j \in 1..lo
      BY <1>1, <1>2, <1>8, <3>3 DEF Progress, Settled, Carries
    <3>4. QED
      BY <3>1, <3>2, <3>3
  <2>4. \A j \in 1..i : (kind[snap[j]] = domain =>
            Settled(snap[j]) \/ (step # "open" /\ InOpen(snap[j])))'
    BY <1>1, <2>3 DEF Settled, IsSealed, InOpen, Sealed
  <2>5. /\ ResumeAt(snap) <= through /\ through <= i /\ i <= Len(snap)
        /\ stored + 1 <= i /\ stored + 1 # 0
    BY <1>3, <1>5, RunFacts
  <2>6. QED
    BY <1>1, <1>3, <1>13, <2>1, <2>2, <2>4, <2>5 DEF Progress
<1>15. RunInv'
  BY <1>1, <1>6, <1>14, RunKept DEF ShipInv
<1>16. SourceInv' /\ CursorInv' /\ CursorBehindEvidence'
  <2>1. SourceInv'
    BY <1>1 DEF ShipInv, SourceInv, Older
  <2>2. CursorInv'
    BY <1>1 DEF ShipInv, CursorInv, StartOf, Replaced, Older, CompletePrefix
  <2>3. CursorBehindEvidence'
    BY <1>1, <1>8 DEF ShipInv, CursorBehindEvidence, SomeDomainMaps
  <2>4. QED
    BY <2>1, <2>2, <2>3
<1>17. SourceInv /\ CursorInv /\ (StartOf(snap) \/ Replaced(snap))
  BY <1>1 DEF ShipInv, RunInv
<1>18. StoredInv'
  <2>1. snap[i] <= Older + CompletePrefix
    <3>1. CASE StartOf(snap)
      <4>1. snap[i] = src[i] /\ i <= CompletePrefix /\ i \in 1..Len(src)
        BY <1>6, <1>17, <3>1, StartsWith, RunFacts
      <4>2. QED
        BY <1>5, <1>17, <4>1, SourceFacts
    <3>2. CASE Replaced(snap)
      <4>1. snap[i] <= Older
        BY <1>6, <3>2 DEF Replaced
      <4>2. QED
        BY <1>7, <1>17, <4>1, SourceFacts
    <3>3. QED
      BY <1>17, <3>1, <3>2
  <2>2. Older' = Older /\ CompletePrefix' = CompletePrefix
    BY <1>1 DEF Older, CompletePrefix
  <2>3. SomeDomainMaps(snap[i])
    BY <1>6, <1>7, <1>17 DEF SourceInv, LineKind, ShipInv, RunType, Domains, SomeDomainMaps
  <2>4. \A n : SomeDomainMaps(n)' <=> SomeDomainMaps(n)
    BY <1>1 DEF SomeDomainMaps
  <2>5. QED
    BY <1>1, <1>7, <1>8, <2>1, <2>2, <2>3, <2>4 DEF ShipInv, StoredInv
<1>19. WindowInv'
  <2> DEFINE R == ResumeAt(src)
  <2>1. R' = R /\ R \in Nat
    BY <1>1, <1>17, CursorAt DEF ResumeAt
  <2>2. \A k : OfKind(kind[src[k]], src, R, k)' = OfKind(kind[src[k]], src, R, k)
    BY <1>1, <2>1 DEF OfKind
  <2> SUFFICES ASSUME NEW k \in (R + 1)..Len(src), IsStored(src[k])'
               PROVE  Cardinality(OfKind(kind[src[k]], src, R, k)) <= Most
    BY <1>1, <2>1, <2>2 DEF WindowInv, IsStored
  <2>3. CASE IsStored(src[k])
    BY <2>3 DEF ShipInv, WindowInv
  <2>4. CASE src[k] = snap[i]
    <3>1. k \in 1..Len(src) /\ k \in Nat
      BY <1>17, <2>1, SourceFacts
    <3>2. src[k] = Older + k /\ Older < src[k] /\ Older \in Nat /\ src[k] \in Nat
      BY <1>17, <3>1, SourceFacts
    <3>3. StartOf(snap)
      <4>1. Replaced(snap) => snap[i] <= Older
        BY <1>6 DEF Replaced
      <4>2. QED
        BY <1>17, <2>4, <3>2, <4>1
    <3>4. /\ i \in 1..Len(src) /\ snap[i] = src[i] /\ i <= Len(src)
          /\ \A j \in 1..Len(snap) : snap[j] = src[j]
      BY <1>6, <1>17, <3>3, StartsWith, RunFacts
    <3>5. k = i
      <4>1. src[i] = Older + i
        BY <1>17, <3>4, SourceFacts
      <4>2. Older + k = Older + i /\ Older \in Nat /\ k \in Nat /\ i \in Nat
        BY <1>5, <2>4, <3>1, <3>2, <3>4, <4>1
      <4>3. QED
        BY ONLY <4>2
    <3>6. R = ResumeAt(snap)
      BY <1>1, <3>3 DEF ShipInv, RunInv
    <3>7. \A j \in Nat : R < j /\ j <= i /\ kind[src[j]] = domain =>
                             ResumeAt(snap) < j /\ j <= i /\ kind[snap[j]] = domain
      <4>1. \A j \in Nat : R < j /\ j <= i => j \in 1..Len(snap)
        BY <1>5, <2>1, RunFacts
      <4>2. QED
        BY <3>4, <3>6, <4>1
    <3>8. Cardinality(OfKind(domain, src, R, i)) <= Cardinality(OfKind(domain, snap, ResumeAt(snap), i))
      BY <1>5, <1>17, <2>1, <3>7, SourceFacts, RunFacts, KindFewer
    <3>9. Cardinality(OfKind(domain, src, R, i)) \in Nat
      BY <1>5, <1>17, <2>1, SourceFacts, KindIs
    <3>10. kind[src[k]] = domain
      BY <1>6, <2>4
    <3>11. QED
      BY <1>12, <1>13, <3>5, <3>8, <3>9, <3>10, CutIsPositive
  <2>5. IsStored(src[k]) \/ src[k] = snap[i]
    BY <1>1, <1>8 DEF IsStored
  <2>6. QED
    BY <2>3, <2>4, <2>5
<1>20. QED
  BY <1>8, <1>9, <1>10, <1>15, <1>16, <1>18, <1>19 DEF ShipInv

-----------------------------------------------------------------------------
(* The cursor moves.                                                       *)

\* With nothing written the open segment has no line.
LEMMA NothingOpen ==
    ASSUME FlushedInv, Written = 0
    PROVE  \A n : ~ InOpen(n)
BY DEF InOpen, Has, Written

\* What a run refuses are lines it has read.
LEMMA RefusedIs ==
    ASSUME ShipInv, NEW t \in 0..Len(snap)
    PROVE  RefusedUpTo(t) \subseteq Line
<1>1. \A j \in (ResumeAt(snap) + 1)..t : j \in 1..Len(snap)
  BY RunFacts
<1>2. QED
  BY <1>1, RunFacts DEF RefusedUpTo

\* A line that is passed although another domain than the run's maps it was passed
\* before, or is among those the run refused.
LEMMA PassedIsSettled ==
    ASSUME ShipInv, step # "idle", NEW t \in 0..Len(snap),
           \A j \in 1..t : kind[snap[j]] = domain => Settled(snap[j]),
           NEW w, waived \subseteq w, RefusedUpTo(t) \subseteq w
    PROVE  \A j \in 1..t : SomeDomainMaps(snap[j]) => IsSealed(snap[j]) \/ snap[j] \in w
<1> SUFFICES ASSUME NEW j \in 1..t, SomeDomainMaps(snap[j])
             PROVE  IsSealed(snap[j]) \/ snap[j] \in w
  OBVIOUS
<1>1. /\ j \in Nat /\ t \in Nat /\ j <= t /\ Len(snap) \in Nat
      /\ ResumeAt(snap) = At(cursor, snap) /\ ResumeAt(snap) \in Nat
  BY RunFacts
<1>2. CASE kind[snap[j]] = domain
  BY <1>2 DEF Settled
<1>3. CASE kind[snap[j]] # domain /\ ResumeAt(snap) < j
  <2>1. Foreign(snap[j], domain)
    BY <1>3 DEF SomeDomainMaps, Foreign
  <2>2. j \in (ResumeAt(snap) + 1)..t
    BY <1>1, <1>3
  <2>3. snap[j] \in RefusedUpTo(t)
    BY <2>1, <2>2 DEF RefusedUpTo
  <2>4. QED
    BY <2>3
<1>4. CASE j <= ResumeAt(snap)
  <2>1. Meets(cursor, snap) /\ ResumeAt(snap) = Len(cursor)
    BY <1>1, <1>4 DEF At
  <2>2. cursor # NoCursor /\ j \in 1..Len(cursor) /\ cursor[j] = snap[j]
    BY <1>1, <1>4, <2>1 DEF Meets
  <2>3. QED
    BY <2>2 DEF ShipInv, CursorBehindEvidence
<1>5. QED
  BY <1>1, <1>2, <1>3, <1>4

\* It moves along what the run has read, to where all of it is settled.
LEMMA CursorMoves ==
    ASSUME ShipInv, step # "idle", UNCHANGED <<journal, manifest, source>>,
           NEW t \in 0..Len(snap), ResumeAt(snap) <= t, cursor' = SubSeq(snap, 1, t),
           \A j \in 1..t : SomeDomainMaps(snap[j]) => IsSealed(snap[j]) \/ snap[j] \in waived',
           step' # "idle" => snap' = snap
    PROVE  /\ SourceInv' /\ CursorInv' /\ CursorBehindEvidence' /\ StoredInv' /\ WindowInv'
           /\ At(cursor', snap) = t
           /\ StartOf(snap) => ResumeAt(src)' = t
<1>1. /\ kind' = kind /\ src' = src /\ half' = half /\ made' = made
      /\ Older' = Older /\ CompletePrefix' = CompletePrefix
  BY DEF source, Older, CompletePrefix
<1>2. t \in Nat /\ t <= Len(snap) /\ Len(snap) \in Nat /\ snap \in Seq(Line)
  BY RunFacts
<1>3. /\ cursor' \in Seq(Line) /\ Len(cursor') = t /\ cursor' # NoCursor
      /\ \A i \in 1..t : cursor'[i] = snap[i]
  <2>1. /\ cursor' \in Seq(Line) /\ Len(cursor') = t
        /\ \A i \in 1..t : cursor'[i] = snap[i]
    BY <1>2
  <2>2. QED
    BY <2>1, ShipAssumption DEF Line
<1>4. /\ SourceInv /\ CursorInv /\ (StartOf(snap) \/ Replaced(snap)) /\ snap # <<>>
      /\ StartOf(snap) => ResumeAt(src) = ResumeAt(snap)
  BY DEF ShipInv, RunInv
<1>5. SourceInv'
  BY <1>1, <1>4 DEF SourceInv, Older
<1>6. \A i \in 1..t : i \in 1..Len(snap)
  BY <1>2
<1>7. StartOf(snap) => StartOf(cursor)'
  <2> SUFFICES ASSUME StartOf(snap)
               PROVE  Len(cursor') <= CompletePrefix /\ \A i \in 1..Len(cursor') : cursor'[i] = src[i]
    BY <1>1 DEF StartOf
  <2>1. Len(snap) <= CompletePrefix /\ \A i \in 1..Len(snap) : snap[i] = src[i]
    BY DEF StartOf
  <2>2. QED
    BY <1>2, <1>3, <1>4, <1>6, <2>1, SourceFacts
<1>8. Replaced(snap) => StartOf(cursor)' \/ Replaced(cursor)'
  <2>1. CASE t = 0
    BY <1>1, <1>3, <1>4, <2>1, SourceFacts DEF StartOf
  <2>2. CASE t # 0
    <3>1. cursor' # <<>>
      BY <1>3, <2>2
    <3>2. QED
      BY <1>1, <1>3, <1>6, <3>1 DEF Replaced
  <2>3. QED
    BY <2>1, <2>2
<1>9. CursorInv'
  BY <1>3, <1>4, <1>7, <1>8 DEF CursorInv
<1>10. At(cursor', snap) = t
  BY <1>2, <1>3 DEF At, Meets
<1>11. /\ ResumeAt(src)' = (IF cursor' # NoCursor /\ StartOf(cursor)' THEN Len(cursor') ELSE 0)
       /\ ResumeAt(src)' \in Nat
  <2>1. (/\ ResumeAt(src) = (IF cursor # NoCursor /\ StartOf(cursor) THEN Len(cursor) ELSE 0)
         /\ ResumeAt(src) = At(cursor, src)
         /\ ResumeAt(src) \in Nat /\ ResumeAt(src) <= CompletePrefix /\ ResumeAt(src) <= Len(src))'
    BY <1>5, <1>9, CursorAt, PTL
  <2>2. QED
    BY <2>1
<1>12. StartOf(snap) => ResumeAt(src)' = t
  BY <1>3, <1>7, <1>11
<1>13. CursorBehindEvidence'
  <2>1. \A n : IsSealed(n)' <=> IsSealed(n)
    BY DEF IsSealed, Sealed
  <2>2. \A n : SomeDomainMaps(n)' <=> SomeDomainMaps(n)
    BY <1>1 DEF SomeDomainMaps
  <2>3. \A j \in 1..t : SomeDomainMaps(cursor'[j]) => IsSealed(cursor'[j]) \/ cursor'[j] \in waived'
    BY <1>3
  <2>4. \A j \in 1..Len(cursor') : SomeDomainMaps(cursor'[j]) => IsSealed(cursor'[j]) \/ cursor'[j] \in waived'
    BY <1>3, <2>3
  <2>5. \A j \in 1..Len(cursor') : (SomeDomainMaps(cursor[j]) => IsSealed(cursor[j]) \/ cursor[j] \in waived)'
    BY <1>1, <2>4 DEF SomeDomainMaps, IsSealed, Sealed
  <2>6. QED
    BY <2>5 DEF CursorBehindEvidence
<1>14. \A n : IsStored(n)' <=> IsStored(n)
  BY DEF IsStored
<1>15. StoredInv'
  BY <1>1, <1>14 DEF ShipInv, StoredInv, SomeDomainMaps
<1>16. WindowInv'
  <2> DEFINE R == ResumeAt(src)
  <2>1. R \in Nat /\ R' \in Nat
    BY <1>4, <1>11, CursorAt
  <2>2. \A k : OfKind(kind[src[k]], src, R, k)' = OfKind(kind[src[k]], src, R', k)
    BY <1>1 DEF OfKind
  <2> SUFFICES ASSUME NEW k \in (R' + 1)..Len(src), IsStored(src[k])
               PROVE  Cardinality(OfKind(kind[src[k]], src, R', k)) <= Most
    BY <1>1, <2>2 DEF WindowInv, IsStored
  <2>3. k \in 1..Len(src) /\ k \in Nat /\ R' < k
    BY <1>4, <2>1, SourceFacts
  <2>4. src[k] \in Line /\ src[k] \in Nat /\ Older < src[k] /\ Older \in Nat
    BY <1>4, <2>3, SourceFacts
  <2>5. CASE StartOf(snap)
    <3>1. R' = t /\ R <= t
      BY <1>4, <1>12, <2>5
    <3>2. k \in (R + 1)..Len(src)
      BY <1>2, <1>4, <2>1, <2>3, <3>1, SourceFacts
    <3>3. Cardinality(OfKind(kind[src[k]], src, R, k)) <= Most
      BY <3>2 DEF ShipInv, WindowInv
    <3>4. \A j \in Nat : R' < j /\ j <= k /\ kind[src[j]] = kind[src[k]] =>
                             R < j /\ j <= k /\ kind[src[j]] = kind[src[k]]
      BY <1>2, <2>1, <3>1
    <3>5. Cardinality(OfKind(kind[src[k]], src, R', k)) <= Cardinality(OfKind(kind[src[k]], src, R, k))
      BY <1>4, <2>1, <2>3, <3>4, SourceFacts, KindFewer
    <3>6. Cardinality(OfKind(kind[src[k]], src, R', k)) \in Nat /\ Cardinality(OfKind(kind[src[k]], src, R, k)) \in Nat
      BY <1>4, <2>1, <2>3, SourceFacts, KindIs
    <3>7. QED
      BY <3>3, <3>5, <3>6, CutIsPositive
  <2>6. CASE Replaced(snap)
    <3>1. Len(snap) \in 1..Len(snap)
      BY <1>2, <1>4
    <3>2. snap[Len(snap)] <= Older /\ snap[Len(snap)] \in Nat
      BY <2>6, <3>1, SnapOrder DEF Replaced
    <3>3. src[k] \in 0..MaxTaken
      BY <2>4, ShipAssumption, PlaneBoundAssumption DEF Line
    <3>4. src[k] <= snap[Len(snap)]
      BY <3>3 DEF ShipInv, StoredInv
    <3>5. QED
      BY <2>4, <3>2, <3>4
  <2>7. QED
    BY <1>4, <2>5, <2>6
<1>17. QED
  BY <1>5, <1>9, <1>10, <1>12, <1>13, <1>15, <1>16

\* The segment is sealed and nothing is left in the open one.
LEMMA CommitKept ==
    ASSUME ShipInv, CommitCursor
    PROVE  ShipInv'
<1>1. /\ step = "seal" /\ pc = "up" /\ step' = "batch" /\ cursor' = SubSeq(snap, 1, through)
      /\ waived' = waived \cup RefusedUpTo(through)
      /\ UNCHANGED <<journal, manifest, source>>
      /\ UNCHANGED <<journal, manifest, named, segment, base, acked, owed, oldest, promise, pc>> /\ cut' = cut
      /\ kind' = kind /\ src' = src /\ half' = half /\ made' = made /\ snap' = snap /\ domain' = domain
      /\ todo' = todo /\ stored' = stored /\ through' = through
  BY DEF CommitCursor, source, run, vars, files, plane, past
<1>2. FlushedInv' /\ Quiet /\ Carries /\ Written' = Written
  <2>1. cut' \subseteq Segment
    BY <1>1, FlushedFacts DEF ShipInv, PlainType
  <2>2. QED
    BY <1>1, <2>1, PcFlushed DEF ShipInv
<1>3. StepInv' /\ RunType'
  <2>1. waived' \subseteq Line
    BY <1>1, RefusedIs DEF ShipInv, RunType
  <2>2. QED
    BY <1>1, <1>2, <2>1 DEF StepInv, ShipInv, RunType
<1>4. PICK lo \in 0..Len(snap) : Progress(lo)
  BY <1>1 DEF ShipInv, RunInv
<1>5. lo = through /\ lo \in Nat /\ ResumeAt(snap) <= lo /\ stored # 0
  BY <1>1, <1>4, RunFacts DEF Progress
<1>6. \A j \in 1..lo : kind[snap[j]] = domain => Settled(snap[j])
  <2>1. Written = 0
    BY <1>1 DEF ShipInv, StepInv
  <2>2. \A n : ~ InOpen(n)
    BY <2>1, NothingOpen DEF ShipInv
  <2>3. QED
    BY <1>4, <2>2 DEF Progress
<1>7. /\ SourceInv' /\ CursorInv' /\ CursorBehindEvidence' /\ StoredInv' /\ WindowInv'
      /\ At(cursor', snap) = lo
      /\ StartOf(snap) => ResumeAt(src)' = lo
  <2>1. step # "idle" /\ cursor' = SubSeq(snap, 1, lo)
    BY <1>1, <1>5
  <2>2. PICK w : w = waived'
    OBVIOUS
  <2>3. \A j \in 1..lo : SomeDomainMaps(snap[j]) => IsSealed(snap[j]) \/ snap[j] \in w
    BY <1>1, <1>4, <1>5, <1>6, <2>1, <2>2, PassedIsSettled
  <2>4. QED
    BY <1>1, <1>4, <1>5, <2>1, <2>2, <2>3, CursorMoves
<1>8. ResumeAt(snap)' = lo
  <2>1. cursor' # NoCursor => cursor' \in Seq(Line)
    BY <1>7 DEF CursorInv
  <2>2. ResumeAt(snap)' = At(cursor', snap)
    BY <1>1, <2>1, RunFacts, MeetsIs DEF ResumeAt
  <2>3. QED
    BY <1>7, <2>2
<1>9. Progress(lo)'
  <2>1. ToMap' = ToMap /\ Waiting' = Waiting
    BY <1>1 DEF ToMap, Waiting, OfKind
  <2>2. Ahead(todo, ToMap, lo, Len(snap))'
    <3>1. Ahead(todo', ToMap', lo, Len(snap'))
      BY <1>1, <1>4, <2>1 DEF Progress
    <3>2. QED
      BY <3>1 DEF Ahead, Fits, Precedes, Holds
  <2>3. \A j \in 1..lo : kind[snap[j]] = domain => Settled(snap[j])'
    BY <1>1, <1>2, <1>6 DEF Settled, Quiet
  <2>4. \A j \in 1..lo : (kind[snap[j]] = domain =>
            Settled(snap[j]) \/ (step # "open" /\ InOpen(snap[j])))'
    BY <1>1, <2>3 DEF Settled, IsSealed, InOpen, Sealed
  <2>5. Cardinality(OfKind(domain, snap, ResumeAt(snap), lo))' = 0
    <3>1. OfKind(domain, snap, ResumeAt(snap), lo)' = OfKind(domain, snap, lo, lo)
      BY <1>1, <1>8 DEF OfKind
    <3>2. QED
      BY <1>5, <3>1, RunFacts, KindNone
  <2>6. Waiting \in Nat /\ Waiting <= Cut
    BY <1>4, WaitingIs DEF Progress, Waiting
  <2>7. 0 + Waiting <= Most /\ 0 <= Written' /\ 0 <= Most
    BY <1>2, <2>6, RunFacts, CutIsPositive DEF Most
  <2>8. lo <= lo /\ lo <= Len(snap)
    BY <1>5, RunFacts
  <2>9. QED
    BY <1>1, <1>4, <1>5, <1>8, <2>1, <2>2, <2>4, <2>5, <2>7, <2>8 DEF Progress
<1>10. RunInv'
  <2>1. StartOf(snap)' = StartOf(snap) /\ Replaced(snap)' = Replaced(snap)
    BY <1>1 DEF StartOf, Replaced, Older, CompletePrefix
  <2>2. /\ snap # <<>> /\ Counts(snap) /\ (StartOf(snap) \/ Replaced(snap))
    BY <1>1 DEF ShipInv, RunInv
  <2>3. Counts(snap)' /\ (StartOf(snap)' => ResumeAt(src)' = ResumeAt(snap)')
    BY <1>1, <1>7, <1>8, <2>1, <2>2 DEF Counts
  <2>4. QED
    BY <1>1, <1>4, <1>9, <2>1, <2>2, <2>3 DEF RunInv
<1>11. QED
  BY <1>2, <1>3, <1>7, <1>10 DEF ShipInv

\* The run has handed everything over: the cursor moves past the end, unless a
\* run that stored nothing holds it for the lines it refused.
LEMMA FinishKept ==
    ASSUME ShipInv, Finish
    PROVE  ShipInv'
<1>1. /\ step = "last" /\ pc = "up" /\ step' = "idle" /\ pc' = "down"
      /\ cursor' = (IF HeldForTrustDomain(through) THEN cursor ELSE snap)
      /\ waived' = (IF stored = 0 THEN waived ELSE waived \cup RefusedUpTo(Len(snap)))
      /\ UNCHANGED <<journal, manifest, source>> /\ UNCHANGED <<source, run>>
      /\ UNCHANGED <<journal, manifest, named, segment, base, acked, owed, oldest, promise>> /\ cut' = cut
  BY DEF Finish, files, plane, past
<1>2. FlushedInv' /\ Quiet
  <2>1. cut' \subseteq Segment
    BY <1>1, FlushedFacts DEF ShipInv, PlainType
  <2>2. QED
    BY <1>1, <2>1, PcFlushed DEF ShipInv
<1>3. StepInv' /\ RunType' /\ RunInv'
  <2>1. waived' \subseteq Line
    <3>1. Len(snap) \in 0..Len(snap)
      BY RunFacts
    <3>2. QED
      BY <1>1, <3>1, RefusedIs DEF ShipInv, RunType
  <2>2. QED
    BY <1>1, <2>1 DEF StepInv, ShipInv, RunType, RunInv, run
<1>4. SourceInv' /\ CursorInv' /\ CursorBehindEvidence' /\ StoredInv' /\ WindowInv'
  <2>1. CASE HeldForTrustDomain(through)
    <3>1. UNCHANGED <<source, position>>
      BY <1>1, <2>1 DEF HeldForTrustDomain, position
    <3>2. QED
      BY <1>1, <1>2, <3>1, RestKept
  <2>2. CASE ~ HeldForTrustDomain(through)
    <3>1. PICK lo \in 0..Len(snap) : Progress(lo)
      BY <1>1 DEF ShipInv, RunInv
    <3>2. /\ lo \in Nat /\ through \in Nat /\ Len(snap) \in Nat /\ todo = <<>>
          /\ stored = 0 => through = ResumeAt(snap)
          /\ Ahead(todo, ToMap, lo, Len(snap)) /\ ResumeAt(snap) <= Len(snap)
      BY <1>1, <3>1, RunFacts DEF Progress
    <3>3. ASSUME NEW j \in 1..Len(snap), kind[snap[j]] = domain
          PROVE  Settled(snap[j])
      <4>1. CASE j <= lo
        <5>1. Written = 0
          BY <1>1 DEF ShipInv, StepInv
        <5>2. j \in 1..lo /\ \A n : ~ InOpen(n)
          BY <3>2, <4>1, <5>1, NothingOpen DEF ShipInv
        <5>3. QED
          BY <3>1, <3>3, <5>2 DEF Progress
      <4>2. CASE lo < j
        <5>1. j \in Nat /\ 0 < j /\ j <= Len(snap)
          BY <3>2
        <5>2. j \in ToMap
          BY <3>2, <3>3, <4>2, <5>1, RunFacts, KindIs DEF ToMap
        <5>3. \E k \in 1..Len(todo) : Holds(todo[k], j)
          BY <3>2, <4>2, <5>1, <5>2 DEF Ahead
        <5>4. QED
          BY <3>2, <5>3
      <4>3. QED
        BY <3>2, <4>1, <4>2
    <3>4. SubSeq(snap, 1, Len(snap)) = snap /\ Len(snap) \in 0..Len(snap)
      BY RunFacts
    <3>5. PICK t \in 0..Len(snap) : t = Len(snap)
      BY <3>4
    <3>6. PICK w : w = waived'
      OBVIOUS
    <3>7. waived \subseteq w /\ RefusedUpTo(t) \subseteq w
      <4>1. CASE stored = 0
        <5>1. \A i \in (ResumeAt(snap) + 1)..Len(snap) : ~ Foreign(snap[i], domain)
          BY <2>2, <3>2, <4>1 DEF HeldForTrustDomain
        <5>2. RefusedUpTo(t) = {}
          BY <3>5, <5>1 DEF RefusedUpTo
        <5>3. QED
          BY <1>1, <3>6, <4>1, <5>2
      <4>2. CASE stored # 0
        BY <1>1, <3>5, <3>6, <4>2
      <4>3. QED
        BY <4>1, <4>2
    <3>8. \A j \in 1..t : SomeDomainMaps(snap[j]) => IsSealed(snap[j]) \/ snap[j] \in w
      BY <1>1, <3>3, <3>5, <3>7, PassedIsSettled
    <3>9. /\ step # "idle" /\ cursor' = SubSeq(snap, 1, t) /\ ResumeAt(snap) <= t
          /\ \A j \in 1..t : SomeDomainMaps(snap[j]) => IsSealed(snap[j]) \/ snap[j] \in waived'
          /\ step' # "idle" => snap' = snap
      BY <1>1, <2>2, <3>2, <3>4, <3>5, <3>6, <3>8
    <3>10. QED
      BY <1>1, <3>9, CursorMoves
  <2>3. QED
    BY <2>1, <2>2
<1>5. QED
  BY <1>2, <1>3, <1>4 DEF ShipInv

-----------------------------------------------------------------------------
(* A run begins.                                                           *)

\* With nothing new, only the position is written.
LEMMA BeginNothing ==
    ASSUME ShipInv, UNCHANGED <<vars, source, waived, step, run>>,
           cursor' = SubSeq(src, 1, ResumeAt(src)),
           step = "idle"
    PROVE  ShipInv'
<1>1. /\ kind' = kind /\ src' = src /\ half' = half /\ made' = made /\ step' = step
      /\ Older' = Older /\ CompletePrefix' = CompletePrefix
      /\ UNCHANGED <<journal, manifest, named, segment, base, acked, owed, oldest, promise, pc>> /\ cut' = cut
  BY DEF source, Older, CompletePrefix, vars, files, plane, past
<1>2. FlushedInv' /\ Quiet
  <2>1. cut' \subseteq Segment
    BY <1>1, FlushedFacts DEF ShipInv, PlainType
  <2>2. QED
    BY <1>1, <2>1, PcFlushed DEF ShipInv
<1>3. StepInv' /\ RunType' /\ RunInv'
  BY <1>1 DEF StepInv, ShipInv, RunType, RunInv, run
<1>4. SourceInv /\ CursorInv /\ SourceInv'
  BY <1>1 DEF ShipInv, SourceInv, Older
<1>5. PICK from : from = ResumeAt(src)
  OBVIOUS
<1>6. /\ from = (IF cursor # NoCursor /\ StartOf(cursor) THEN Len(cursor) ELSE 0)
      /\ from \in Nat /\ from <= CompletePrefix /\ from <= Len(src)
  BY <1>4, <1>5, CursorAt
<1>7. /\ cursor' \in Seq(Line) /\ Len(cursor') = from
      /\ \A i \in 1..from : cursor'[i] = src[i]
  <2>1. cursor' = SubSeq(src, 1, from) /\ src \in Seq(Line) /\ Len(src) \in Nat
    BY <1>4, <1>5, SourceFacts
  <2>2. from \in Nat /\ from <= Len(src)
    BY <1>6
  <2>3. QED
    BY ONLY <2>1, <2>2
<1>8. cursor' # NoCursor
  BY <1>7, ShipAssumption DEF Line
<1>9. StartOf(cursor)'
  BY <1>1, <1>6, <1>7 DEF StartOf
<1>10. CursorInv'
  BY <1>7, <1>9 DEF CursorInv
<1>11. ResumeAt(src)' = from
  <2>1. (/\ ResumeAt(src) = (IF cursor # NoCursor /\ StartOf(cursor) THEN Len(cursor) ELSE 0)
         /\ ResumeAt(src) = At(cursor, src)
         /\ ResumeAt(src) \in Nat /\ ResumeAt(src) <= CompletePrefix /\ ResumeAt(src) <= Len(src))'
    BY <1>4, <1>10, CursorAt, PTL
  <2>2. QED
    BY <1>7, <1>8, <1>9, <2>1
<1>12. CursorBehindEvidence'
  <2>1. ASSUME NEW j \in 1..from, SomeDomainMaps(src[j])
        PROVE  IsSealed(src[j]) \/ src[j] \in waived
    <3>1. cursor # NoCursor /\ StartOf(cursor) /\ from = Len(cursor)
      BY <1>6
    <3>2. cursor[j] = src[j]
      BY <3>1 DEF StartOf
    <3>3. QED
      BY <2>1, <3>1, <3>2 DEF ShipInv, CursorBehindEvidence
  <2>2. \A j \in 1..Len(cursor') : SomeDomainMaps(cursor'[j]) => IsSealed(cursor'[j]) \/ cursor'[j] \in waived'
    BY <1>7, <2>1
  <2>3. \A j \in 1..Len(cursor') : (SomeDomainMaps(cursor[j]) => IsSealed(cursor[j]) \/ cursor[j] \in waived)'
    BY <1>1, <2>2 DEF SomeDomainMaps, IsSealed, Sealed
  <2>4. QED
    BY <2>3 DEF CursorBehindEvidence
<1>13. StoredInv' /\ WindowInv'
  <2>1. \A n : IsStored(n)' <=> IsStored(n)
    BY <1>1 DEF IsStored
  <2>2. StoredInv'
    BY <1>1, <2>1, step = "idle" DEF ShipInv, StoredInv, SomeDomainMaps
  <2>3. \A k : OfKind(kind[src[k]], src, ResumeAt(src), k)' = OfKind(kind[src[k]], src, ResumeAt(src), k)
    BY <1>1, <1>5, <1>11 DEF OfKind
  <2>4. WindowInv'
    BY <1>1, <1>5, <1>11, <2>1, <2>3 DEF ShipInv, WindowInv, IsStored
  <2>5. QED
    BY <2>2, <2>4
<1>14. QED
  BY <1>2, <1>3, <1>4, <1>10, <1>12, <1>13 DEF ShipInv

\* The run reads the file up to its last terminator and cuts it into batches.
LEMMA BeginSome ==
    ASSUME ShipInv, UNCHANGED <<vars, source, position>>, step = "idle", pc = "down", step' = "open",
           ~ (ResumeAt(src) >= CompletePrefix),
           snap' = SubSeq(src, 1, CompletePrefix), NEW d \in Domains, domain' = d,
           todo' = Frame(ResumeAt(src), CompletePrefix, d),
           stored' = 0, through' = ResumeAt(src)
    PROVE  ShipInv'
<1>1. /\ kind' = kind /\ src' = src /\ half' = half /\ made' = made /\ cursor' = cursor /\ waived' = waived
      /\ Older' = Older /\ CompletePrefix' = CompletePrefix
      /\ UNCHANGED <<journal, manifest, named, segment, base, acked, owed, oldest, promise, pc>> /\ cut' = cut
      /\ UNCHANGED <<source, position>>
  BY DEF source, position, Older, CompletePrefix, vars, files, plane, past
<1>2. FlushedInv' /\ Quiet
  <2>1. cut' \subseteq Segment
    BY <1>1, FlushedFacts DEF ShipInv, PlainType
  <2>2. QED
    BY <1>1, <2>1, PcFlushed DEF ShipInv
<1>3. SourceInv /\ CursorInv
  BY DEF ShipInv
<1>4. SourceInv' /\ CursorInv' /\ CursorBehindEvidence' /\ WindowInv'
  BY <1>1, <1>2, FileKept
<1>5. PICK from : from = ResumeAt(src)
  OBVIOUS
<1>6. PICK to : to = CompletePrefix
  OBVIOUS
<1>7. /\ from = (IF cursor # NoCursor /\ StartOf(cursor) THEN Len(cursor) ELSE 0)
      /\ from = At(cursor, src) /\ from \in Nat /\ from <= Len(src)
  BY <1>3, <1>5, CursorAt
<1>8. to \in Nat /\ from < to /\ to <= Len(src) /\ Len(src) \in Nat /\ src \in Seq(Line) /\ to >= 1
  <2>1. to \in Nat /\ to <= Len(src) /\ Len(src) \in Nat /\ src \in Seq(Line)
    BY <1>3, <1>6, SourceFacts
  <2>2. QED
    BY <1>5, <1>6, <1>7, <2>1
<1>9. /\ snap' \in Seq(Line) /\ Len(snap') = to /\ snap' # <<>>
      /\ \A i \in 1..to : snap'[i] = src[i] /\ i \in 1..Len(src)
  <2>1. snap' \in Seq(Line) /\ Len(snap') = to /\ \A i \in 1..to : snap'[i] = src[i]
    BY <1>6, <1>8
  <2>2. QED
    BY <1>8, <2>1
<1>10. \A i \in 1..to : snap'[i] = Older + i /\ snap'[i] \in Nat
  BY <1>3, <1>9, SourceFacts
<1>11. Counts(snap)'
  <2>1. 1 \in 1..to /\ Older \in Nat
    BY <1>3, <1>8, SourceFacts
  <2>2. snap'[1] = Older + 1 /\ \A i \in 1..to : snap'[i] = Older + i
    BY <1>10, <2>1
  <2>3. \A i \in 1..to : snap'[i] = snap'[1] + i - 1
    <3>1. \A a \in Nat : \A i \in 1..to : a + i = (a + 1) + i - 1
      OBVIOUS
    <3>2. QED
      BY <2>1, <2>2, <3>1
  <2>4. QED
    BY <1>9, <2>3 DEF Counts
<1>12. StartOf(snap)'
  BY <1>1, <1>6, <1>8, <1>9 DEF StartOf
<1>13. At(cursor, snap') = from
  <2>1. CASE cursor # NoCursor /\ StartOf(cursor)
    <3>1. from = Len(cursor) /\ \A i \in 1..Len(cursor) : cursor[i] = src[i]
      BY <1>7, <2>1 DEF StartOf
    <3>2. \A i \in 1..Len(cursor) : i \in 1..to
      BY <1>7, <1>8, <3>1
    <3>3. Meets(cursor, snap')
      BY <1>7, <1>8, <1>9, <2>1, <3>1, <3>2 DEF Meets
    <3>4. QED
      BY <3>1, <3>3 DEF At
  <2>2. CASE ~ (cursor # NoCursor /\ StartOf(cursor))
    <3>1. from = 0
      BY <1>7, <2>2
    <3>2. ASSUME Meets(cursor, snap')
          PROVE  FALSE
      <4>1. cursor # NoCursor /\ cursor \in Seq(Line) /\ Len(cursor) \in Nat
        BY <1>3, <3>2 DEF Meets, CursorInv
      <4>2. Len(cursor) <= to /\ \A i \in 1..Len(cursor) : snap'[i] = cursor[i]
        BY <1>9, <3>2 DEF Meets
      <4>3. \A i \in 1..Len(cursor) : i \in 1..to
        BY <1>8, <4>1, <4>2
      <4>4. StartOf(cursor)
        BY <1>6, <1>9, <4>2, <4>3 DEF StartOf
      <4>5. QED
        BY <2>2, <4>1, <4>4
    <3>3. QED
      BY <3>1, <3>2 DEF At
  <2>3. QED
    BY <2>1, <2>2
<1>14. ResumeAt(snap)' = from /\ ResumeAt(src)' = from
  <2>1. cursor # NoCursor => cursor \in Seq(Line)
    BY <1>3 DEF CursorInv
  <2>2. ResumeAt(snap)' = At(cursor, snap')
    BY <1>1, <1>9, <2>1, MeetsIs DEF ResumeAt
  <2>3. QED
    BY <1>1, <1>5, <1>13, <2>2 DEF ResumeAt
<1>15. StepInv' /\ RunType'
  <2>1. from \in 0..to /\ 0 \in 0..to
    BY <1>7, <1>8
  <2>2. QED
    BY <1>1, <1>5, <1>9, <2>1 DEF StepInv, ShipInv, RunType
<1>16. StoredInv'
  <2>1. snap'[Len(snap')] = Older + CompletePrefix
    <3>1. to \in 1..to
      BY <1>8
    <3>2. QED
      BY <1>6, <1>9, <1>10, <3>1
  <2>2. \A n : IsStored(n)' => IsStored(n)
    BY <1>2 DEF Quiet
  <2>3. QED
    BY <1>1, <2>1, <2>2 DEF ShipInv, StoredInv, SomeDomainMaps
<1>17. \A i \in 1..to : Maps(src[i], d) <=> kind[src[i]] = d
  <2> SUFFICES ASSUME NEW i \in 1..to
               PROVE  ~ (half /\ src[i] = src[Len(src)])
    BY DEF Maps
  <2> SUFFICES ASSUME half, src[i] = src[Len(src)]
               PROVE  FALSE
    OBVIOUS
  <2>1. i < Len(src) /\ i \in 1..Len(src) /\ Len(src) \in 1..Len(src) /\ i \in Nat
    <3>1. to < Len(src)
      BY <1>3, <1>6, SourceFacts
    <3>2. QED
      BY <1>8, <3>1
  <2>2. src[i] = Older + i /\ src[Len(src)] = Older + Len(src) /\ Older \in Nat
    BY <1>3, <2>1, SourceFacts
  <2>3. Older + i = Older + Len(src) /\ i < Len(src)
    BY <2>1, <2>2
  <2>4. QED
    BY ONLY <1>8, <2>1, <2>2, <2>3
<1>18. /\ ToMap' \in SUBSET Nat
       /\ \A i \in (from + 1)..to : Maps(src[i], d) <=> i \in ToMap'
  <2>1. ToMap' = {j \in (0 + 1)..to : kind[snap'[j]] = d}
    BY <1>1, <1>9 DEF ToMap, OfKind
  <2>2. \A i \in (from + 1)..to : i \in 1..to
    BY <1>7, <1>8
  <2>3. ToMap' \in SUBSET Nat
    BY <1>8, <2>1
  <2>4. \A i \in 1..to : i \in ToMap' <=> kind[src[i]] = d
    BY <1>9, <2>1
  <2>5. QED
    BY <1>17, <2>1, <2>2, <2>3, <2>4
<1>19. Ahead(todo', ToMap', from, to) /\ Filled(todo')
  <2>1. PICK M \in SUBSET Nat : M = ToMap'
    BY <1>18
  <2>2. todo' = Frame(from, to, d) /\ from <= to
    BY <1>5, <1>6, <1>7, <1>8
  <2>3. \A i \in (from + 1)..to : Maps(src[i], d) <=> i \in M
    BY <1>18, <2>1
  <2>4. Ahead(Frame(from, to, d), M, from, to) /\ Filled(Frame(from, to, d))
    BY <1>7, <1>8, <2>2, <2>3, FrameIs
  <2>5. QED
    BY <2>1, <2>2, <2>4
<1>20. Progress(from)'
  <2>1. Ahead(todo, ToMap, from, Len(snap))'
    <3>1. Ahead(todo', ToMap', from, Len(snap'))
      BY <1>9, <1>19
    <3>2. QED
      BY <3>1 DEF Ahead, Fits, Precedes, Holds
  <2>2. ASSUME NEW j \in 1..from, kind[snap'[j]] = d
        PROVE  Settled(snap'[j])
    <3>1. cursor # NoCursor /\ StartOf(cursor) /\ from = Len(cursor)
      BY <1>7
    <3>2. j \in 1..to /\ cursor[j] = src[j]
      BY <1>7, <1>8, <3>1 DEF StartOf
    <3>3. snap'[j] = cursor[j]
      BY <1>9, <3>2
    <3>4. kind[snap'[j]] \in LineKind
      BY <1>3, <1>9, <3>2 DEF SourceInv
    <3>5. SomeDomainMaps(cursor[j])
      BY <2>2, <3>3, <3>4 DEF SomeDomainMaps, LineKind, Domains
    <3>6. QED
      BY <3>1, <3>3, <3>5 DEF ShipInv, CursorBehindEvidence, Settled
  <2>3. \A n : IsSealed(n)' <=> IsSealed(n)
    BY <1>1 DEF IsSealed, Sealed
  <2>4. \A j \in 1..from : (kind[snap[j]] = domain => Settled(snap[j]))'
    BY <1>1, <2>2, <2>3 DEF Settled, IsSealed, Sealed
  <2>5. Cardinality(OfKind(domain, snap, ResumeAt(snap), from))' = 0
    <3>1. PICK f \in Seq(Line) : f = snap'
      BY <1>9
    <3>2. OfKind(domain, snap, ResumeAt(snap), from)' = OfKind(d, f, from, from)
      BY <1>1, <1>14, <3>1 DEF OfKind
    <3>3. QED
      BY <1>7, <3>2, KindNone
  <2>6. from <= from /\ from <= to /\ 0 <= from /\ 0 <= Most
    BY <1>7, <1>8, CutIsPositive
  <2>7. Filled(todo)'
    BY <1>19 DEF Filled
  <2>8. QED
    BY <1>5, <1>9, <1>14, <1>18, <2>7, <2>1, <2>4, <2>5, <2>6 DEF Progress
<1>21. RunInv'
  <2>1. from \in 0..to
    BY <1>7, <1>8
  <2>2. QED
    BY <1>9, <1>11, <1>12, <1>14, <1>20, <2>1 DEF RunInv
<1>22. QED
  BY <1>2, <1>4, <1>15, <1>16, <1>21 DEF ShipInv

\* A run reads the file and its cursor and cuts the rest into batches.
LEMMA BeginKept ==
    ASSUME ShipInv, NEW d \in Domains, Begin(d)
    PROVE  ShipInv'
<1>1. step = "idle" /\ pc = "down" /\ UNCHANGED <<vars, source, waived>>
  BY DEF Begin
<1>2. CASE ResumeAt(src) >= CompletePrefix
  <2>1. cursor' = SubSeq(src, 1, ResumeAt(src)) /\ UNCHANGED <<vars, source, waived, step, run>>
    BY <1>1, <1>2 DEF Begin
  <2>2. QED
    BY <1>1, <2>1, BeginNothing
<1>3. CASE ~ (ResumeAt(src) >= CompletePrefix)
  <2>1. /\ step' = "open" /\ UNCHANGED <<vars, source, position>>
        /\ snap' = SubSeq(src, 1, CompletePrefix) /\ domain' = d
        /\ todo' = Frame(ResumeAt(src), CompletePrefix, d)
        /\ stored' = 0 /\ through' = ResumeAt(src)
    BY <1>1, <1>3 DEF Begin, position
  <2>2. QED
    BY <1>1, <1>3, <2>1, BeginSome
<1>4. QED
  BY <1>2, <1>3

-----------------------------------------------------------------------------
(* The producer writes to the file.                                        *)

Apart == \A g \in Seq(Line) : ~ (StartOf(g) /\ Replaced(g))

\* What was read is a start of the file or of one that was replaced, never both.
LEMMA OneOrTheOther == SourceInv => Apart
BY ReplacedIs DEF Apart

\* The file has as much as before, and perhaps more.
Grows ==
    /\ Older' = Older /\ CompletePrefix' \in Nat /\ CompletePrefix <= CompletePrefix'
    /\ Len(src') \in Nat /\ Len(src) <= Len(src')
    /\ \A i \in 1..Len(src) : src'[i] = src[i]

\* A file that is replaced: nothing read of it is the start of the new one.
Replaces == Older' = made /\ CompletePrefix' = 0 /\ src' = <<>>

\* The producer adds to the file, or a rotation replaces it.
LEMMA ProducerIs ==
    ASSUME SourceInv, StartLine \/ EndLine \/ Rotate
    PROVE  SourceInv' /\ (Grows \/ Replaces)
<1>1. kind' = kind /\ kind \in [Line -> LineKind]
  BY DEF StartLine, EndLine, Rotate, SourceInv
<1>2. MaxLines \in Nat
  BY ShipAssumption
<1>3. CASE StartLine
  <2>1. /\ ~ half /\ half' = TRUE /\ made' = made + 1 /\ made < MaxLines /\ src' = Append(src, made + 1)
    BY <1>3 DEF StartLine
  <2>2. made + 1 \in Line /\ made' \in 0..MaxLines
    BY <1>2, <2>1 DEF SourceInv, Line
  <2>3. /\ src' \in Seq(Line) /\ Len(src') = Len(src) + 1 /\ src'[Len(src) + 1] = made + 1
        /\ \A i \in 1..Len(src) : src'[i] = src[i]
    <3>1. src \in Seq(Line)
      BY SourceFacts
    <3>2. QED
      BY <2>1, <2>2, <3>1
  <2>4. Older' = Older /\ Len(src') \in Nat /\ Len(src) <= Len(src') /\ Len(src') <= made'
    BY <2>1, <2>3, SourceFacts DEF Older, SourceInv
  <2>5. CompletePrefix' = Len(src) /\ CompletePrefix = Len(src)
    BY <2>1, <2>3, SourceFacts DEF CompletePrefix
  <2>6. \A i \in 1..Len(src') : src'[i] = Older + i
    <3>1. \A i \in 1..Len(src') : i \in 1..Len(src) \/ i = Len(src) + 1
      BY <2>3, SourceFacts
    <3>2. made + 1 = Older + (Len(src) + 1)
      BY SourceFacts
    <3>3. QED
      BY <2>3, <3>1, <3>2, SourceFacts
  <2>7. src' # <<>>
    BY <2>3, SourceFacts
  <2>8. SourceInv'
    BY <1>1, <2>1, <2>2, <2>3, <2>4, <2>6, <2>7 DEF SourceInv
  <2>9. Grows
    BY <2>3, <2>4, <2>5, SourceFacts DEF Grows
  <2>10. QED
    BY <2>8, <2>9
<1>4. CASE EndLine
  <2>1. half /\ half' = FALSE /\ src' = src /\ made' = made
    BY <1>4 DEF EndLine
  <2>2. Older' = Older
    BY <2>1 DEF Older
  <2>3. SourceInv'
    BY <1>1, <2>1, <2>2 DEF SourceInv
  <2>4. CompletePrefix' = Len(src) /\ Len(src) <= Len(src)
    BY <2>1, SourceFacts DEF CompletePrefix
  <2>5. Grows
    BY <2>1, <2>2, <2>4, SourceFacts DEF Grows
  <2>6. QED
    BY <2>3, <2>5
<1>5. CASE Rotate
  <2>1. src' = <<>> /\ half' = FALSE /\ made' = made
    BY <1>5 DEF Rotate
  <2>2. Len(src') = 0 /\ src' \in Seq(Line)
    BY <2>1
  <2>3. Older' = made /\ CompletePrefix' = 0
    BY <2>1, <2>2, SourceFacts DEF Older, CompletePrefix
  <2>4. SourceInv'
    <3>1. made \in 0..MaxLines /\ 0 <= made /\ \A i \in 1..0 : FALSE
      BY SourceFacts DEF SourceInv
    <3>2. QED
      BY <1>1, <2>1, <2>2, <3>1 DEF SourceInv
  <2>5. QED
    BY <2>1, <2>3, <2>4 DEF Replaces
<1>6. QED
  BY <1>3, <1>4, <1>5

\* What was read of the file.
LEMMA ReadStays ==
    ASSUME SourceInv, SourceInv', Grows \/ Replaces, NEW f \in Seq(Line), StartOf(f) \/ Replaced(f)
    PROVE  /\ StartOf(f)' \/ Replaced(f)'
           /\ Grows => (StartOf(f)' <=> StartOf(f))
           /\ StartOf(f)' /\ Replaces => f = <<>>
<1>1. Len(f) \in Nat
  OBVIOUS
<1>2. CASE Grows
  <2>1. StartOf(f) => StartOf(f)'
    <3> SUFFICES ASSUME StartOf(f)
                 PROVE  Len(f) <= CompletePrefix' /\ \A i \in 1..Len(f) : f[i] = src'[i]
      BY DEF StartOf
    <3>1. Len(f) <= CompletePrefix'
      BY <1>1, <1>2, SourceFacts DEF StartOf, Grows
    <3>2. \A i \in 1..Len(f) : f[i] = src[i] /\ i \in 1..Len(src)
      BY StartsWith
    <3>3. QED
      BY <1>2, <3>1, <3>2 DEF Grows
  <2>2. Replaced(f) <=> Replaced(f)'
    BY <1>2 DEF Replaced, Grows
  <2>3. Apart'
    BY OneOrTheOther, PTL
  <2>4. ~ (StartOf(f)' /\ Replaced(f)')
    BY <2>3 DEF Apart, StartOf, Replaced
  <2>5. Replaces => f = <<>> \/ ~ StartOf(f)'
    BY <1>1 DEF Replaces, StartOf
  <2>6. QED
    BY <2>1, <2>2, <2>4, <2>5
<1>3. CASE Replaces
  <2>1. StartOf(f)' => f = <<>>
    BY <1>1, <1>3 DEF Replaces, StartOf
  <2>2. f = <<>> => StartOf(f)'
    BY <1>3 DEF Replaces, StartOf
  <2>3. ASSUME f # <<>>
        PROVE  Replaced(f)'
    <3>1. \A i \in 1..Len(f) : f[i] <= made
      <4>1. CASE StartOf(f)
        <5> SUFFICES ASSUME NEW i \in 1..Len(f) PROVE f[i] <= made
          OBVIOUS
        <5>1. f[i] = src[i] /\ i \in 1..Len(src)
          BY <4>1, StartsWith
        <5>2. f[i] = Older + i /\ i <= Len(src) /\ i \in Nat
          BY <5>1, SourceFacts
        <5>3. QED
          BY <5>2, SourceFacts
      <4>2. CASE Replaced(f)
        <5>1. Older <= made
          BY SourceFacts
        <5>2. \A i \in 1..Len(f) : f[i] \in Nat /\ f[i] <= Older
          BY <4>2, ShipAssumption DEF Replaced, Line
        <5>3. QED
          BY <5>1, <5>2, SourceFacts
      <4>3. QED
        BY <4>1, <4>2
    <3>2. QED
      BY <1>3, <2>3, <3>1 DEF Replaced, Replaces
  <2>4. Grows => (StartOf(f)' <=> StartOf(f))
    <3> SUFFICES ASSUME Grows
                 PROVE  StartOf(f)' <=> StartOf(f)
      OBVIOUS
    <3>1. Len(src) = 0 /\ CompletePrefix = 0
      BY <1>3, SourceFacts DEF Grows, Replaces
    <3>2. StartOf(f)' => f = <<>>
      BY <2>1
    <3>3. StartOf(f) => f = <<>>
      BY <1>1, <3>1 DEF StartOf
    <3>4. f = <<>> => StartOf(f)
      BY <3>1 DEF StartOf
    <3>5. QED
      BY <2>2, <3>2, <3>3, <3>4
  <2>5. QED
    BY <2>1, <2>2, <2>3, <2>4
<1>4. QED
  BY <1>2, <1>3

\* Neither puts the cursor or a run in the wrong.
LEMMA ProducerKept ==
    ASSUME ShipInv, StartLine \/ EndLine \/ Rotate
    PROVE  ShipInv'
<1>1. /\ UNCHANGED <<kind, position, step, run>> /\ kind' = kind /\ step' = step
      /\ cursor' = cursor /\ waived' = waived
      /\ snap' = snap
      /\ UNCHANGED <<journal, manifest, named, segment, base, acked, owed, oldest, promise, pc>> /\ cut' = cut
  BY DEF StartLine, EndLine, Rotate, run, position, vars, files, plane, past
<1>2. FlushedInv' /\ Quiet /\ Carries /\ Written' = Written
  <2>1. cut' \subseteq Segment
    BY <1>1, FlushedFacts DEF ShipInv, PlainType
  <2>2. QED
    BY <1>1, <2>1, PcFlushed DEF ShipInv
<1>3. StepInv' /\ RunType'
  BY <1>1, <1>2 DEF StepInv, ShipInv, RunType, run, position
<1>4. SourceInv /\ CursorInv /\ SourceInv' /\ (Grows \/ Replaces)
  BY ProducerIs DEF ShipInv
<1>5. CursorInv'
  <2> SUFFICES ASSUME cursor' # NoCursor
               PROVE  cursor' \in Seq(Line) /\ (StartOf(cursor)' \/ Replaced(cursor)')
    BY DEF CursorInv
  <2>1. cursor \in Seq(Line) /\ (StartOf(cursor) \/ Replaced(cursor))
    BY <1>1, <1>4 DEF CursorInv
  <2>2. PICK f \in Seq(Line) : f = cursor
    BY <2>1
  <2>3. StartOf(f)' \/ Replaced(f)'
    BY <1>4, <2>1, <2>2, ReadStays
  <2>4. QED
    BY <1>1, <2>1, <2>2, <2>3 DEF StartOf, Replaced
<1>6. CursorBehindEvidence'
  BY <1>1, <1>2 DEF ShipInv, CursorBehindEvidence, SomeDomainMaps, Quiet
<1>7. \A n : IsStored(n)' <=> IsStored(n)
  BY <1>1 DEF IsStored
<1>8. StoredInv'
  <2>1. Older + CompletePrefix <= Older' + CompletePrefix'
    <3>1. CASE Grows
      BY <1>4, <3>1, SourceFacts DEF Grows
    <3>2. CASE Replaces
      BY <1>4, <3>2, SourceFacts DEF Replaces
    <3>3. QED
      BY <1>4, <3>1, <3>2
  <2>2. Older' + CompletePrefix' \in Nat /\ Older + CompletePrefix \in Nat
    <3>1. CASE Grows
      BY <1>4, <3>1, SourceFacts DEF Grows
    <3>2. CASE Replaces
      BY <1>4, <3>2, SourceFacts DEF Replaces
    <3>3. QED
      BY <1>4, <3>1, <3>2, SourceFacts
  <2>3. \A n \in 0..MaxTaken : n <= Older + CompletePrefix => n <= Older' + CompletePrefix'
    BY <2>1, <2>2, PlaneBoundAssumption
  <2>4. QED
    BY <1>1, <1>7, <2>3 DEF ShipInv, StoredInv, SomeDomainMaps
<1>9. /\ ResumeAt(src)' = (IF cursor' # NoCursor /\ StartOf(cursor)' THEN Len(cursor') ELSE 0)
      /\ ResumeAt(src)' \in Nat
  <2>1. (/\ ResumeAt(src) = (IF cursor # NoCursor /\ StartOf(cursor) THEN Len(cursor) ELSE 0)
         /\ ResumeAt(src) = At(cursor, src)
         /\ ResumeAt(src) \in Nat /\ ResumeAt(src) <= CompletePrefix /\ ResumeAt(src) <= Len(src))'
    BY <1>4, <1>5, CursorAt, PTL
  <2>2. QED
    BY <2>1
<1>10. Grows => ResumeAt(src)' = ResumeAt(src)
  <2> SUFFICES ASSUME Grows PROVE ResumeAt(src)' = ResumeAt(src)
    OBVIOUS
  <2>1. ResumeAt(src) = IF cursor # NoCursor /\ StartOf(cursor) THEN Len(cursor) ELSE 0
    BY <1>4, CursorAt
  <2>2. cursor # NoCursor => (StartOf(cursor)' <=> StartOf(cursor))
    <3> SUFFICES ASSUME cursor # NoCursor PROVE StartOf(cursor)' <=> StartOf(cursor)
      OBVIOUS
    <3>1. cursor \in Seq(Line) /\ (StartOf(cursor) \/ Replaced(cursor))
      BY <1>4 DEF CursorInv
    <3>2. PICK f \in Seq(Line) : f = cursor
      BY <3>1
    <3>3. StartOf(f)' <=> StartOf(f)
      BY <1>4, <3>1, <3>2, ReadStays
    <3>4. QED
      BY <1>1, <3>2, <3>3 DEF StartOf
  <2>3. QED
    BY <1>1, <1>9, <2>1, <2>2
<1>11. WindowInv'
  <2>1. CASE Replaces
    <3>1. \A k \in (ResumeAt(src)' + 1)..Len(src') : FALSE
      BY <1>9, <2>1 DEF Replaces
    <3>2. QED
      BY <3>1 DEF WindowInv
  <2>2. CASE Grows
    <3> DEFINE R == ResumeAt(src)
    <3>1. R' = R /\ R \in Nat
      BY <1>4, <1>10, <2>2, CursorAt
    <3> SUFFICES ASSUME NEW k \in (R + 1)..Len(src'), IsStored(src'[k])
                 PROVE  Cardinality(OfKind(kind[src[k]], src, R, k)') <= Most
      BY <1>7, <3>1 DEF WindowInv, IsStored
    <3>2. Len(src') \in Nat /\ Older' = Older
      BY <2>2 DEF Grows
    <3>3. k \in 1..Len(src') /\ k \in Nat
      BY <3>1, <3>2
    <3>4. src'[k] \in Line /\ src'[k] = Older + k
      <4>1. src' \in Seq(Line) /\ \A i \in 1..Len(src') : src'[i] = Older' + i
        BY <1>4 DEF SourceInv
      <4>2. QED
        BY <3>2, <3>3, <4>1
    <3>5. src'[k] \in 0..MaxTaken
      BY <3>4, ShipAssumption, PlaneBoundAssumption DEF Line
    <3>6. Older + k <= Older + CompletePrefix
      BY <3>4, <3>5 DEF ShipInv, StoredInv
    <3>7. k <= Len(src)
      BY <1>4, <3>3, <3>6, SourceFacts
    <3>8. k \in (R + 1)..Len(src) /\ k \in 1..Len(src)
      BY <1>4, <3>1, <3>3, <3>7, SourceFacts
    <3>9. src'[k] = src[k]
      BY <2>2, <3>8 DEF Grows
    <3>10. Cardinality(OfKind(kind[src[k]], src, R, k)) <= Most
      BY <3>8, <3>9 DEF ShipInv, WindowInv
    <3>11. OfKind(kind[src[k]], src, R, k)' = OfKind(kind[src[k]], src, R, k)
      <4>1. \A j \in (R + 1)..k : j \in 1..Len(src)
        BY <1>4, <3>1, <3>3, <3>7, SourceFacts
      <4>2. \A j \in (R + 1)..k : src'[j] = src[j]
        BY <2>2, <4>1 DEF Grows
      <4>3. QED
        BY <1>1, <3>1, <3>9, <4>2 DEF OfKind
    <3>12. QED
      BY <3>10, <3>11
  <2>3. QED
    BY <1>4, <2>1, <2>2
<1>12. RunInv'
  <2> SUFFICES ASSUME step' # "idle" PROVE RunInv'
    BY DEF RunInv
  <2>1. /\ snap # <<>> /\ Counts(snap) /\ (StartOf(snap) \/ Replaced(snap))
        /\ StartOf(snap) => ResumeAt(src) = ResumeAt(snap)
        /\ \E lo \in 0..Len(snap) : Progress(lo)
    BY <1>1 DEF ShipInv, RunInv
  <2>2. PICK lo \in 0..Len(snap) : Progress(lo)
    BY <2>1
  <2>3. Progress(lo)'
    BY <1>1, <1>2, <2>2, ProgressKept DEF Quiet
  <2>4. /\ StartOf(snap)' \/ Replaced(snap)'
        /\ Grows => (StartOf(snap)' <=> StartOf(snap))
        /\ ~ (StartOf(snap)' /\ Replaces)
    <3>1. PICK f \in Seq(Line) : f = snap
      BY RunFacts
    <3>2. /\ StartOf(f)' \/ Replaced(f)'
          /\ Grows => (StartOf(f)' <=> StartOf(f))
          /\ StartOf(f)' /\ Replaces => f = <<>>
      BY <1>4, <2>1, <3>1, ReadStays
    <3>3. QED
      BY <1>1, <2>1, <3>1, <3>2 DEF StartOf, Replaced
  <2>5. StartOf(snap)' => ResumeAt(src)' = ResumeAt(snap)'
    <3>1. ResumeAt(snap)' = ResumeAt(snap)
      BY <1>1 DEF ResumeAt
    <3>2. QED
      BY <1>4, <1>10, <2>1, <2>4, <3>1
  <2>6. Counts(snap)' /\ snap' # <<>>
    BY <1>1, <2>1 DEF Counts
  <2>7. QED
    BY <1>1, <2>2, <2>3, <2>4, <2>5, <2>6 DEF RunInv
<1>13. QED
  BY <1>2, <1>3, <1>4, <1>5, <1>6, <1>8, <1>11, <1>12 DEF ShipInv

-----------------------------------------------------------------------------
(* The importer.                                                           *)

\* Nothing is read and nothing stored at first.
LEMMA InitShip == ShipInit => ShipInv
<1> SUFFICES ASSUME ShipInit PROVE ShipInv
  OBVIOUS
<1>1. /\ Init /\ kind \in [Line -> Kinds] /\ src = <<>> /\ half = FALSE /\ cursor = NoCursor
      /\ step = "idle" /\ snap = <<>> /\ domain = "own" /\ stored = 0 /\ through = 0 /\ made = 0
      /\ waived = {}
  BY DEF ShipInit
<1>2. Len(src) = 0 /\ Len(snap) = 0 /\ src \in Seq(Line) /\ snap \in Seq(Line)
  BY <1>1
<1>3. FlushedInv
  <2>1. SealInv /\ pc = "down" /\ manifest = [s \in Segment |-> NoManifest] /\ named = {}
    BY <1>1, InitSeal DEF Init
  <2>2. \A s \in Segment : ~ Sealed(s)
    BY <2>1 DEF Sealed
  <2>3. QED
    BY <2>1, <2>2 DEF FlushedInv, SealInv, SealedIsWhole, OpenLast, OpenPc
<1>4. SourceInv
  <2>1. MaxLines \in Nat /\ Kinds \subseteq LineKind
    BY ShipAssumption
  <2>2. kind \in [Line -> LineKind] /\ made \in 0..MaxLines /\ Len(src) <= made /\ half = FALSE
    BY <1>1, <1>2, <2>1
  <2>3. \A i \in 1..Len(src) : src[i] = Older + i
    <3>1. \A i \in 1..Len(src) : FALSE
      BY <1>2
    <3>2. QED
      BY ONLY <3>1
  <2>4. QED
    BY <1>2, <2>2, <2>3 DEF SourceInv
<1>5. StepInv /\ CursorInv /\ RunType /\ CursorBehindEvidence /\ RunInv
  BY <1>1, <1>2 DEF StepInv, CursorInv, RunType, Domains, CursorBehindEvidence, RunInv, Init
<1>6. StoredInv
  <2>1. \A s \in Segment : Len(journal[s].recs) = 0
    BY <1>1 DEF Init, Empty
  <2>2. \A n : ~ IsStored(n)
    BY <2>1 DEF IsStored
  <2>3. QED
    BY <2>2 DEF StoredInv
<1>7. WindowInv
  <2>1. ResumeAt(src) = 0
    BY <1>1 DEF ResumeAt
  <2>2. QED
    BY <1>2, <2>1 DEF WindowInv
<1>8. QED
  BY <1>3, <1>4, <1>5, <1>6, <1>7 DEF ShipInv

\* Nothing happens.
LEMMA StillKept ==
    ASSUME ShipInv, UNCHANGED shipVars
    PROVE  ShipInv'
<1>1. /\ UNCHANGED <<source, position, step, run>> /\ UNCHANGED <<source, position, snap>>
      /\ kind' = kind /\ step' = step /\ snap' = snap
      /\ UNCHANGED <<journal, manifest, named, segment, base, acked, owed, oldest, promise, pc>> /\ cut' = cut
  BY DEF shipVars, source, run, position, vars, files, plane, past
<1>2. FlushedInv' /\ Quiet /\ Carries /\ Written' = Written
  <2>1. cut' \subseteq Segment
    BY <1>1, FlushedFacts DEF ShipInv, PlainType
  <2>2. QED
    BY <1>1, <2>1, PcFlushed DEF ShipInv
<1>3. StepInv' /\ RunType'
  BY <1>1, <1>2 DEF StepInv, ShipInv, RunType, run, position
<1>4. RunInv'
  <2>1. CASE step = "idle"
    BY <1>1, <2>1 DEF RunInv
  <2>2. CASE step # "idle"
    <3>1. PICK lo \in 0..Len(snap) : Progress(lo)
      BY <2>2 DEF ShipInv, RunInv
    <3>2. Progress(lo)'
      BY <1>1, <1>2, <3>1, ProgressKept DEF Quiet
    <3>3. QED
      BY <1>1, <2>2, <3>1, <3>2, RunKept DEF ShipInv
  <2>3. QED
    BY <2>1, <2>2
<1>5. QED
  BY <1>1, <1>2, <1>3, <1>4, RestKept DEF ShipInv

\* Every step keeps the invariant.
LEMMA NextShip ==
    ASSUME ShipInv, [ShipNext]_shipVars
    PROVE  ShipInv'
<1>1. CASE \E d \in Domains : Begin(d)
  BY <1>1, BeginKept
<1>2. CASE OpenPlane
  BY <1>2, OpenKept
<1>3. CASE TakeUnit
  BY <1>3, TakeKept
<1>4. CASE BatchDone
  BY <1>4, BatchKept
<1>5. CASE CommitCursor
  BY <1>5, CommitKept
<1>6. CASE LastSeal
  BY <1>6, LastKept
<1>7. CASE Finish
  BY <1>7, FinishKept
<1>8. CASE PlaneStep
  BY <1>8, PlaneStepKept
<1>9. CASE Die
  BY <1>9, DieKept
<1>10. CASE StartLine \/ EndLine \/ Rotate
  BY <1>10, ProducerKept
<1>11. CASE UNCHANGED shipVars
  BY <1>11, StillKept
<1>12. QED
  BY <1>1, <1>2, <1>3, <1>4, <1>5, <1>6, <1>7, <1>8, <1>9, <1>10, <1>11 DEF ShipNext, RunStep

\* The lines a next run would store again are among those up to the last of them.
LEMMA WindowIsBound ==
    ASSUME ShipInv
    PROVE  ReimportWindow
<1> DEFINE R == ResumeAt(src)
<1> SUFFICES ASSUME NEW d \in Domains
             PROVE  Cardinality({i \in (R + 1)..Len(src) : kind[src[i]] = d /\ IsStored(src[i])}) <= Most
  BY DEF ReimportWindow, Most
<1> DEFINE again == {i \in (R + 1)..Len(src) : kind[src[i]] = d /\ IsStored(src[i])}
<1>1. SourceInv /\ CursorInv /\ src \in Seq(Line) /\ Len(src) \in Nat /\ R \in Nat
  BY SourceFacts, CursorAt DEF ShipInv
<1> SUFFICES Cardinality(again) <= Most
  OBVIOUS
<1> HIDE DEF R
<1>2. CASE again = {}
  <2> HIDE DEF again
  <2>1. Cardinality(again) = 0
    BY <1>2, FS_EmptySet
  <2>2. QED
    BY <2>1, CutIsPositive
<1>3. CASE again # {}
  <2>1. again \subseteq 1..Len(src)
    BY <1>1
  <2>2. \A i \in again : /\ i \in Nat /\ R < i /\ i \in (R + 1)..Len(src)
                         /\ kind[src[i]] = d /\ IsStored(src[i])
    BY <1>1
  <2> HIDE DEF again
  <2>3. PICK m \in again : \A i \in again : i <= m
    BY <1>1, <1>3, <2>1, GreatestNumber
  <2>4. m \in Nat /\ Cardinality(OfKind(d, src, R, m)) <= Most
    <3>1. kind[src[m]] = d /\ m \in (R + 1)..Len(src) /\ IsStored(src[m]) /\ m \in Nat
      BY <2>2
    <3>2. Cardinality(OfKind(kind[src[m]], src, R, m)) <= Most
      BY <3>1 DEF R, ShipInv, WindowInv
    <3>3. QED
      BY <3>1, <3>2
  <2>5. again \subseteq OfKind(d, src, R, m)
    <3> SUFFICES ASSUME NEW i \in again PROVE i \in OfKind(d, src, R, m)
      OBVIOUS
    <3>1. i \in Nat /\ R < i /\ i <= m /\ kind[src[i]] = d
      BY <2>2, <2>3
    <3>2. QED
      BY <1>1, <2>4, <3>1, KindIs
  <2>6. /\ OfKind(d, src, R, m) \in SUBSET ((R + 1)..m) /\ R + 1 \in Nat
        /\ Cardinality(OfKind(d, src, R, m)) \in Nat
    <3>1. PICK S : S = OfKind(d, src, R, m)
      OBVIOUS
    <3>2. S \in SUBSET ((R + 1)..m)
      BY <3>1 DEF OfKind
    <3>3. R + 1 \in Nat /\ m \in Nat
      BY <1>1, <2>4
    <3>4. Cardinality(S) \in Nat
      BY ONLY <3>2, <3>3, Counted
    <3>5. QED
      BY <3>1, <3>2, <3>3, <3>4
  <2>7. Cardinality(again) \in Nat /\ Cardinality(again) <= Cardinality(OfKind(d, src, R, m))
    <3>1. PICK S : S = OfKind(d, src, R, m)
      OBVIOUS
    <3>2. S \in SUBSET ((R + 1)..m) /\ R + 1 \in Nat /\ again \in SUBSET S /\ m \in Nat
      BY <2>4, <2>5, <2>6, <3>1
    <3>3. Cardinality(again) \in Nat /\ Cardinality(again) <= Cardinality(S)
      BY ONLY <3>2, Counted
    <3>4. QED
      BY <3>1, <3>3
  <2>8. QED
    BY <2>4, <2>6, <2>7, CutIsPositive
<1>4. QED
  BY <1>2, <1>3

\* ship and its cursor, for every policy, batch and producer, wherever a run dies
\* and whatever domain it is handed, that of other lines of the file included: a
\* line that some domain maps is passed only when it is sealed, or was refused for
\* its domain by a run that stored others; and what a next run would store again is
\* no more than one segment and the batch that closed it.
THEOREM CursorKept == ShipSpec => []CursorIsInBounds
<1>1. ShipInv /\ [ShipNext]_shipVars => ShipInv'
  BY NextShip
<1>2. ShipInv => CursorIsInBounds
  <2> SUFFICES ASSUME ShipInv PROVE CursorIsInBounds
    OBVIOUS
  <2>1. ShipTypeOK
    BY DEF ShipInv, SourceInv, CursorInv, StepInv, RunType, ShipTypeOK
  <2>2. QED
    BY <2>1, WindowIsBound DEF ShipInv, CursorIsInBounds
<1>3. QED
  BY <1>1, <1>2, InitShip, PTL DEF ShipSpec
=============================================================================
