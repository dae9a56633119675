--------------------------- MODULE ContractProofs ---------------------------
(***************************************************************************)
(* The DedupWindow of the journal, what no step of the journal may do, and *)
(* that on an honest disk it implements JournalContract, for every set of  *)
(* ids and every capacity.                                                 *)
(***************************************************************************)
EXTENDS JournalProofs, WellFoundedInduction

\* A set of numbers has a least one.
LEMMA LeastNumber ==
    ASSUME NEW T, T \subseteq Nat, T # {}
    PROVE  \E x \in T : \A y \in T : x <= y
<1> DEFINE R == OpToRel(<, Nat)
<1>1. IsWellFoundedOn(R, Nat)
  BY NatLessThanWellFounded
<1>2. \E x \in T : \A y \in T : ~ (<<y, x>> \in R)
  <2> HIDE DEF R
  <2> QED
    BY <1>1, WFMin
<1>3. PICK x \in T : \A y \in T : ~ (<<y, x>> \in R)
  BY <1>2
<1>4. ASSUME NEW y \in T
      PROVE  x <= y
  <2>1. <<y, x>> \notin {p \in Nat \X Nat : p[1] < p[2]}
    BY <1>3 DEF OpToRel
  <2>2. QED
    BY <2>1
<1>5. QED
  BY <1>4

-----------------------------------------------------------------------------
(* The loop of recover over the walked records.                            *)

\* g is the window before each turn of the loop, from w on.
Turns(g, w, ids, m) ==
    g = [n \in 0..m |-> IF n = 0 THEN w ELSE Remember(g[n - 1], ids[n], n)]

\* The windows the ids leave one after the other can be lined up for any number of them.
LEMMA TurnsExist ==
    ASSUME NEW w, NEW ids, NEW N \in Nat
    PROVE  \E g : Turns(g, w, ids, N)
<1> DEFINE Bad == {m \in 0..N : ~ \E g : Turns(g, w, ids, m)}
<1> SUFFICES ASSUME ~ \E g : Turns(g, w, ids, N)
             PROVE  FALSE
  OBVIOUS
<1>1. N \in Bad /\ Bad \subseteq Nat
  OBVIOUS
<1>2. PICK x \in Bad : \A y \in Bad : x <= y
  <2> HIDE DEF Bad
  <2> QED
    BY <1>1, LeastNumber
<1>3. x \in Nat /\ x <= N /\ ~ \E g : Turns(g, w, ids, x)
  OBVIOUS
<1>4. CASE x = 0
  <2> DEFINE g == [n \in 0..0 |-> w]
  <2>1. g = [n \in 0..0 |-> IF n = 0 THEN w ELSE Remember(g[n - 1], ids[n], n)]
    OBVIOUS
  <2>2. Turns(g, w, ids, 0)
    BY <2>1 DEF Turns
  <2>3. QED
    BY <1>3, <1>4, <2>2
<1>5. CASE x # 0
  <2>1. x - 1 \in 0..N /\ x - 1 \notin Bad
    BY <1>2, <1>3, <1>5
  <2>2. PICK g : Turns(g, w, ids, x - 1)
    BY <2>1
  <2> DEFINE h == [n \in 0..x |-> IF n = x THEN Remember(g[x - 1], ids[x], x) ELSE g[n]]
  <2>3. ASSUME NEW n \in 0..x
        PROVE  h[n] = IF n = 0 THEN w ELSE Remember(h[n - 1], ids[n], n)
    <3>1. CASE n = x
      <4>1. h[n] = Remember(g[x - 1], ids[x], x) /\ h[n - 1] = g[x - 1]
        BY <1>3, <1>5, <3>1
      <4>2. QED
        BY <1>5, <3>1, <4>1
    <3>2. CASE n # x /\ n # 0
      <4>1. h[n] = g[n] /\ h[n - 1] = g[n - 1]
        BY <1>3, <3>2
      <4>2. g[n] = Remember(g[n - 1], ids[n], n)
        BY <1>3, <2>2, <3>2 DEF Turns
      <4>3. QED
        BY <3>2, <4>1, <4>2
    <3>3. CASE n = 0
      <4>1. h[n] = g[n]
        BY <1>3, <1>5, <3>3
      <4>2. g[0] = w
        BY <1>3, <1>5, <2>2 DEF Turns
      <4>3. QED
        BY <3>3, <4>1, <4>2
    <3>4. QED
      BY <3>1, <3>2, <3>3
  <2>4. Turns(h, w, ids, x)
    <3>1. h = [n \in 0..x |-> h[n]]
      OBVIOUS
    <3> HIDE DEF h
    <3>2. QED
      BY <2>3, <3>1 DEF Turns
  <2>5. QED
    BY <1>3, <2>4
<1>6. QED
  BY <1>4, <1>5

\* RememberAll is the last of those windows.
LEMMA RememberAllTurns ==
    ASSUME NEW w, NEW ids, Len(ids) \in Nat
    PROVE  \E g : Turns(g, w, ids, Len(ids)) /\ RememberAll(w, ids) = g[Len(ids)]
<1> DEFINE f == CHOOSE g : Turns(g, w, ids, Len(ids))
<1>1. Turns(f, w, ids, Len(ids))
  BY TurnsExist
<1>2. RememberAll(w, ids) = f[Len(ids)]
  BY DEF RememberAll, Turns
<1>3. QED
  BY <1>1, <1>2

-----------------------------------------------------------------------------
(* The map and the queue hold the same ids.                                *)

Distinct(q, n) == \A i, k \in 1..n : q[i] = q[k] => i = k

Has(q, n, x) == \E i \in 1..n : q[i] = x

Agrees(w) ==
    /\ w.seen \in [Id -> Nat]
    /\ w.order \in Seq(Id)
    /\ Len(w.order) <= DedupCap
    /\ Distinct(w.order, Len(w.order))
    /\ \A id \in Id : w.seen[id] # 0 <=> Has(w.order, Len(w.order), id)

\* An id joins the queue q at its end, and the first of o leaves it.
LEMMA Joins ==
    ASSUME NEW q, NEW o, NEW L \in Nat, NEW id, Distinct(q, L), ~ Has(q, L, id),
           o[L + 1] = id, \A i \in 1..L : o[i] = q[i]
    PROVE  /\ Distinct(o, L + 1)
           /\ \A x : Has(o, L + 1, x) <=> x = id \/ Has(q, L, x)
<1>1. \A i \in 1..(L + 1) : i = L + 1 \/ i \in 1..L
  OBVIOUS
<1>2. ASSUME NEW i \in 1..(L + 1), NEW k \in 1..(L + 1), o[i] = o[k]
      PROVE  i = k
  BY <1>1, <1>2 DEF Distinct, Has
<1>3. ASSUME NEW x, Has(o, L + 1, x)
      PROVE  x = id \/ Has(q, L, x)
  BY <1>1, <1>3 DEF Has
<1>4. ASSUME NEW x, Has(q, L, x)
      PROVE  Has(o, L + 1, x)
  BY <1>4 DEF Has
<1>5. Has(o, L + 1, id)
  BY DEF Has
<1>6. QED
  BY <1>2, <1>3, <1>4, <1>5 DEF Distinct

\* A queue without its head has the same ids, the head left out, and still no two alike.
LEMMA Leaves ==
    ASSUME NEW o, NEW t, NEW L \in Nat, Distinct(o, L + 1), \A i \in 1..L : t[i] = o[i + 1]
    PROVE  /\ Distinct(t, L)
           /\ \A x : Has(t, L, x) <=> x # o[1] /\ Has(o, L + 1, x)
<1>1. ASSUME NEW i \in 1..L, NEW k \in 1..L, t[i] = t[k]
      PROVE  i = k
  <2>1. i + 1 \in 1..(L + 1) /\ k + 1 \in 1..(L + 1) /\ o[i + 1] = o[k + 1]
    BY <1>1
  <2>2. i + 1 = k + 1
    BY <2>1 DEF Distinct
  <2>3. QED
    BY <2>2
<1>2. ASSUME NEW x, Has(t, L, x)
      PROVE  x # o[1] /\ Has(o, L + 1, x)
  <2>1. PICK i \in 1..L : o[i + 1] = x
    BY <1>2 DEF Has
  <2>2. i + 1 \in 1..(L + 1) /\ 1 \in 1..(L + 1) /\ i + 1 # 1
    OBVIOUS
  <2>3. QED
    BY <2>1, <2>2 DEF Distinct, Has
<1>3. ASSUME NEW x, x # o[1], Has(o, L + 1, x)
      PROVE  Has(t, L, x)
  <2>1. PICK i \in 1..(L + 1) : o[i] = x
    BY <1>3 DEF Has
  <2>2. i - 1 \in 1..L /\ (i - 1) + 1 = i
    BY <1>3, <2>1
  <2>3. t[i - 1] = x
    BY <2>1, <2>2
  <2>4. QED
    BY <2>2, <2>3 DEF Has
<1>4. QED
  BY <1>1, <1>2, <1>3 DEF Distinct

\* remember: the three things it can do to a window w whose queue has L ids.  The
\* id is there and gets its new place; it joins; or it joins and the first leaves.
Renewed(w, r, id, seq) ==
    /\ w.seen[id] # 0
    /\ r.seen = [w.seen EXCEPT ![id] = seq]
    /\ r.order = w.order

Joined(w, r, id, seq, L) ==
    /\ w.seen[id] = 0 /\ L < DedupCap
    /\ r.seen = [w.seen EXCEPT ![id] = seq]
    /\ r.order \in Seq(Id) /\ Len(r.order) = L + 1
    /\ r.order[L + 1] = id /\ \A i \in 1..L : r.order[i] = w.order[i]

Replaced(w, r, id, seq, L, o) ==
    /\ w.seen[id] = 0 /\ L = DedupCap
    /\ o[L + 1] = id /\ o[1] \in Id
    /\ \A i \in 1..L : o[i] = w.order[i]
    /\ r.seen \in [Id -> Nat]
    /\ \A x \in Id : r.seen[x] = IF x = o[1] THEN 0 ELSE IF x = id THEN seq ELSE w.seen[x]
    /\ r.order \in Seq(Id) /\ Len(r.order) = L
    /\ \A i \in 1..L : r.order[i] = o[i + 1]

\* remember renews an id it knows, adds one that is new, or adds one and drops the oldest.
LEMMA RememberCases ==
    ASSUME NEW w, w.seen \in [Id -> Nat], w.order \in Seq(Id), Len(w.order) <= DedupCap,
           NEW id \in Id, NEW seq \in Nat \ {0}, NEW L \in Nat, L = Len(w.order)
    PROVE  \/ Renewed(w, Remember(w, id, seq), id, seq)
           \/ Joined(w, Remember(w, id, seq), id, seq, L)
           \/ \E o : Replaced(w, Remember(w, id, seq), id, seq, L, o)
<1> DEFINE r == Remember(w, id, seq)
           o == Append(w.order, id)
           s == [w.seen EXCEPT ![id] = seq]
<1>1. /\ o \in Seq(Id) /\ Len(o) = L + 1 /\ o[L + 1] = id
      /\ \A i \in 1..L : o[i] = w.order[i]
  BY AppendProperties
<1>2. o # <<>> /\ o[1] \in Id
  <2> HIDE DEF o
  <2>1. Len(o) \in Nat \ {0} /\ 1 \in 1..Len(o)
    BY <1>1
  <2>2. QED
    BY <1>1, <2>1
<1>3. /\ Tail(o) \in Seq(Id) /\ Len(Tail(o)) = L
      /\ \A i \in 1..L : Tail(o)[i] = o[i + 1]
  BY <1>1, <1>2, HeadTailProperties
<1>4. CASE w.seen[id] # 0
  <2>1. ~ (Len(w.order) > DedupCap)
    BY BoundAssumption
  <2>2. r = [seen |-> s, order |-> w.order]
    BY <1>4, <2>1 DEF Remember
  <2>3. QED
    BY <1>4, <2>2 DEF Renewed
<1>5. CASE w.seen[id] = 0 /\ L < DedupCap
  <2>1. ~ (Len(o) > DedupCap)
    BY <1>1, <1>5, BoundAssumption
  <2>2. r = [seen |-> s, order |-> o]
    BY <1>5, <2>1 DEF Remember
  <2>3. QED
    BY <1>1, <1>5, <2>2 DEF Joined
<1>6. CASE w.seen[id] = 0 /\ L = DedupCap
  <2>1. Len(o) > DedupCap
    BY <1>1, <1>6, BoundAssumption
  <2>2. r = [seen |-> [s EXCEPT ![o[1]] = 0], order |-> Tail(o)]
    BY <1>6, <2>1 DEF Remember
  <2>3. s \in [Id -> Nat] /\ \A x \in Id : s[x] = IF x = id THEN seq ELSE w.seen[x]
    OBVIOUS
  <2> HIDE DEF r, o, s
  <2>4. r.seen = [s EXCEPT ![o[1]] = 0] /\ r.order = Tail(o)
    BY <2>2
  <2>5. /\ r.seen \in [Id -> Nat]
        /\ \A x \in Id : r.seen[x] = IF x = o[1] THEN 0 ELSE IF x = id THEN seq ELSE w.seen[x]
    BY <1>2, <2>3, <2>4
  <2>6. /\ Len(o) = L + 1 /\ o[L + 1] = id /\ o[1] \in Id
        /\ \A i \in 1..L : o[i] = w.order[i]
        /\ r.order \in Seq(Id) /\ Len(r.order) = L
        /\ \A i \in 1..L : r.order[i] = o[i + 1]
    BY <1>1, <1>2, <1>3, <2>4
  <2>7. QED
    BY <1>6, <2>5, <2>6 DEF r, Replaced
<1>7. L < DedupCap \/ L = DedupCap
  BY BoundAssumption
<1>8. QED
  BY <1>4, <1>5, <1>6, <1>7

\* None of the three sets the map and the queue apart.
LEMMA RememberAgrees ==
    ASSUME NEW w, Agrees(w), NEW id \in Id, NEW seq \in Nat \ {0}
    PROVE  Agrees(Remember(w, id, seq))
<1>1. PICK L \in Nat : L = Len(w.order)
  BY DEF Agrees
<1>2. PICK r : r = Remember(w, id, seq)
  OBVIOUS
<1>3. /\ w.seen \in [Id -> Nat] /\ w.order \in Seq(Id) /\ L <= DedupCap
      /\ Distinct(w.order, L)
      /\ \A x \in Id : w.seen[x] # 0 <=> Has(w.order, L, x)
  BY <1>1 DEF Agrees
<1> SUFFICES Agrees(r)
  BY <1>2
<1>4. CASE Renewed(w, r, id, seq)
  <2>1. r.seen \in [Id -> Nat] /\ \A x \in Id : r.seen[x] # 0 <=> w.seen[x] # 0
    BY <1>3, <1>4 DEF Renewed
  <2>2. QED
    BY <1>1, <1>3, <1>4, <2>1 DEF Agrees, Renewed
<1>5. CASE Joined(w, r, id, seq, L)
  <2>1. /\ Distinct(r.order, L + 1)
        /\ \A x : Has(r.order, L + 1, x) <=> x = id \/ Has(w.order, L, x)
    <3>1. ~ Has(w.order, L, id)
      BY <1>3, <1>5 DEF Joined
    <3>2. QED
      BY <1>3, <1>5, <3>1, Joins DEF Joined
  <2>2. r.seen \in [Id -> Nat] /\ \A x \in Id : r.seen[x] # 0 <=> x = id \/ w.seen[x] # 0
    BY <1>3, <1>5 DEF Joined
  <2>3. Len(r.order) <= DedupCap
    BY <1>5, BoundAssumption DEF Joined
  <2>4. QED
    BY <1>3, <1>5, <2>1, <2>2, <2>3 DEF Agrees, Joined
<1>6. ASSUME NEW o, Replaced(w, r, id, seq, L, o)
      PROVE  Agrees(r)
  <2>1. /\ Distinct(o, L + 1)
        /\ \A x : Has(o, L + 1, x) <=> x = id \/ Has(w.order, L, x)
    <3>1. ~ Has(w.order, L, id)
      BY <1>3, <1>6 DEF Replaced
    <3>2. QED
      BY <1>3, <1>6, <3>1, Joins DEF Replaced
  <2>2. /\ Distinct(r.order, L)
        /\ \A x : Has(r.order, L, x) <=> x # o[1] /\ Has(o, L + 1, x)
    BY <1>6, <2>1, Leaves DEF Replaced
  <2>3. r.seen \in [Id -> Nat]
        /\ \A x \in Id : r.seen[x] # 0 <=> x # o[1] /\ (x = id \/ w.seen[x] # 0)
    BY <1>3, <1>6 DEF Replaced
  <2>4. QED
    BY <1>3, <1>6, <2>1, <2>2, <2>3 DEF Agrees, Replaced
<1>7. QED
  BY <1>1, <1>2, <1>3, <1>4, <1>5, <1>6, RememberCases

\* The loop of recover keeps it, whatever window it starts from.
LEMMA RememberAllAgrees ==
    ASSUME NEW w, Agrees(w), NEW ids \in Seq(Id)
    PROVE  Agrees(RememberAll(w, ids))
<1>1. PICK N \in Nat : N = Len(ids)
  OBVIOUS
<1>2. PICK g : Turns(g, w, ids, N) /\ RememberAll(w, ids) = g[N]
  BY <1>1, RememberAllTurns
<1> DEFINE Bad == {m \in 0..N : ~ Agrees(g[m])}
<1>3. SUFFICES ASSUME N \in Bad
               PROVE  FALSE
  BY <1>2
<1>4. PICK x \in Bad : \A y \in Bad : x <= y
  <2>1. Bad \subseteq Nat
    OBVIOUS
  <2> HIDE DEF Bad
  <2> QED
    BY <1>3, <2>1, LeastNumber
<1>5. x \in 0..N /\ ~ Agrees(g[x])
  OBVIOUS
<1>6. g[x] = IF x = 0 THEN w ELSE Remember(g[x - 1], ids[x], x)
  BY <1>2, <1>5 DEF Turns
<1>7. x # 0 /\ x - 1 \in 0..N /\ x - 1 \notin Bad
  BY <1>4, <1>5, <1>6
<1>8. Agrees(g[x - 1]) /\ ids[x] \in Id /\ x \in Nat \ {0}
  BY <1>1, <1>5, <1>7
<1>9. QED
  BY <1>5, <1>6, <1>7, <1>8, RememberAgrees

\* Where the window changes: it is emptied with the process, filled by recover, and
\* told of each record that is written.
LEMMA WindowSteps ==
    ASSUME [Next]_vars
    PROVE  \/ UNCHANGED <<seen, order>>
           \/ FreshMemory /\ pc' = "down"
           \/ PushRest
           \/ pc = "adopt" /\ \E n \in 0..Len(file) : WalkStopsAfter(file, n) /\ AdoptPrefix(n)
<1> USE DEF vars, memory, window
<1>1. CASE Open \/ Recover \/ EnsureHeader \/ WriteHeader \/ OpenFails
  BY <1>1 DEF Open, Recover, EnsureHeader, WriteHeader, OpenFails, Refuse
<1>2. CASE Adopt
  BY <1>2 DEF Adopt, Refuse
<1>3. CASE \E id \in Id : AppendRecord(id)
  BY <1>3 DEF AppendRecord
<1>4. CASE PushSome \/ PushStops
  BY <1>4 DEF PushSome, PushStops
<1>5. CASE \E lie \in BOOLEAN : SyncOk(lie) \/ AckFsync(lie)
  BY <1>5 DEF SyncOk, AckFsync
<1>6. CASE SyncFails \/ AckTruncate \/ AckAppend \/ AckFails
  BY <1>6 DEF SyncFails, AckTruncate, AckAppend, AckFails
<1>7. CASE Exit \/ PowerCut \/ PowerCutThenRecover \/ Rot
  BY <1>7 DEF Exit, PowerCut, PowerCutThenRecover, Rot
<1>8. CASE UNCHANGED vars
  BY <1>8
<1>9. QED
  BY <1>1, <1>2, <1>3, <1>4, <1>5, <1>6, <1>7, <1>8 DEF Next

TheWindow == [seen |-> seen, order |-> order]

\* The state's window is the record the lemmas above are about, before and after a step.
LEMMA WindowIs ==
    /\ WindowAgrees <=> Agrees(TheWindow)
    /\ WindowAgrees' <=> Agrees(TheWindow')
BY DEF WindowAgrees, Agrees, TheWindow, Distinct, Has

\* An empty window agrees.
LEMMA FreshAgrees == Agrees([seen |-> EmptySeen, order |-> <<>>])
<1>1. PICK w : w = [seen |-> EmptySeen, order |-> <<>>]
  OBVIOUS
<1>2. w.seen \in [Id -> Nat] /\ (\A x \in Id : w.seen[x] = 0) /\ w.order = <<>>
  BY <1>1 DEF EmptySeen
<1>3. <<>> \in Seq(Id) /\ Len(<<>>) = 0 /\ 1..0 = {}
  OBVIOUS
<1>4. Agrees(w)
  BY <1>2, <1>3, BoundAssumption DEF Agrees, Distinct, Has
<1>5. QED
  BY <1>1, <1>4

\* The ids of a prefix that verified.
LEMMA WalkedIds ==
    ASSUME NEW cells, NEW n \in Nat, WalkStopsAfter(cells, n)
    PROVE  /\ Ids(cells, n) \in Seq(Id)
           /\ Len(Ids(cells, n)) = n
           /\ \A i \in 1..n : /\ Ids(cells, n)[i] = cells[2 * i + 1].what.id
                              /\ cells[2 * i + 1].what.id \in Id
<1>1. \A i \in 1..n : cells[2 * i + 1].what \in Frame
  BY DEF WalkStopsAfter, Follows, ParsesAt
<1>2. \A i \in 1..n : cells[2 * i + 1].what.id \in Id
  BY <1>1 DEF Frame
<1>3. QED
  BY <1>2, IdsType

\* Every step of the journal leaves map and queue with the same ids.
LEMMA NextAgrees ==
    ASSUME IndRun, WindowAgrees, [Next]_vars
    PROVE  WindowAgrees'
<1>1. Agrees(TheWindow)
  BY WindowIs
<1> SUFFICES Agrees(TheWindow')
  BY WindowIs
<1>2. CASE UNCHANGED <<seen, order>>
  BY <1>1, <1>2 DEF TheWindow
<1>3. CASE FreshMemory
  <2>1. TheWindow' = [seen |-> EmptySeen, order |-> <<>>]
    BY <1>3 DEF FreshMemory, TheWindow
  <2>2. QED
    BY <2>1, FreshAgrees
<1>4. CASE PushRest
  <2>1. /\ pending[1].frame.id \in Id
        /\ pending[1].frame.seq \in Nat \ {0}
    BY <1>4, PendingFacts DEF PushRest, Frame
  <2>2. PICK w : w = Remember(TheWindow, pending[1].frame.id, pending[1].frame.seq)
    OBVIOUS
  <2>3. Agrees(w)
    BY <1>1, <2>1, <2>2, RememberAgrees
  <2>4. seen' = w.seen /\ order' = w.order
    BY <1>4, <2>2 DEF PushRest, TheWindow
  <2>5. TheWindow'.seen = w.seen /\ TheWindow'.order = w.order
    BY <2>4 DEF TheWindow
  <2>6. QED
    BY <2>3, <2>5 DEF Agrees
<1>5. ASSUME NEW n \in 0..Len(file), WalkStopsAfter(file, n), AdoptPrefix(n)
      PROVE  Agrees(TheWindow')
  <2>1. n \in Nat
    BY DEF IndRun, TypeOK, DiskType
  <2>2. Ids(file, n) \in Seq(Id)
    BY <1>5, <2>1, WalkedIds
  <2>3. PICK w : w = RememberAll(TheWindow, Ids(file, n))
    OBVIOUS
  <2>4. Agrees(w)
    BY <1>1, <2>2, <2>3, RememberAllAgrees
  <2>5. seen' = w.seen /\ order' = w.order
    BY <1>5, <2>3 DEF AdoptPrefix, TheWindow
  <2>6. TheWindow'.seen = w.seen /\ TheWindow'.order = w.order
    BY <2>5 DEF TheWindow
  <2>7. QED
    BY <2>4, <2>6 DEF Agrees
<1>6. QED
  BY <1>2, <1>3, <1>4, <1>5, WindowSteps

\* They agree before the first open.
LEMMA InitAgrees == Init => WindowAgrees
<1> SUFFICES ASSUME Init PROVE WindowAgrees
  OBVIOUS
<1>1. TheWindow = [seen |-> EmptySeen, order |-> <<>>]
  BY DEF Init, TheWindow
<1>2. QED
  BY <1>1, FreshAgrees, WindowIs

\* Journal::recover and append, on a disk that may lie and rot and with recover called
\* on a handle in use or not: the map and the queue of the DedupWindow hold the same
\* ids within its capacity always, and until the disk lies or rots every promise is
\* kept and nothing is reported that is not so.
THEOREM Recovery == Spec => []RecoveredIsSound
<1>1. Init => IndRun /\ WindowAgrees
  BY InitRun, InitAgrees
<1>2. IndRun /\ WindowAgrees /\ [Next]_vars => (IndRun /\ WindowAgrees)'
  BY NextRun, NextAgrees
<1>3. Spec => []WindowAgrees
  BY <1>1, <1>2, PTL DEF Spec
<1>4. QED
  BY <1>3, Durability, Calm, PTL DEF RecoveredIsSound

-----------------------------------------------------------------------------
(* What the window holds, when recover is only called on a fresh handle:   *)
(* the last DedupCap records, each at its place.                           *)

Lo(n) == IF n > DedupCap THEN n - DedupCap ELSE 0

Mirrors(w, ids, n) ==
    /\ w.seen \in [Id -> Nat]
    /\ w.order \in Seq(Id) /\ Len(w.order) = n - Lo(n)
    /\ \A i \in 1..(n - Lo(n)) : w.order[i] = ids[Lo(n) + i]
    /\ \A x \in Id : w.seen[x] # 0 => w.seen[x] \in (Lo(n) + 1)..n /\ ids[w.seen[x]] = x
    /\ \A i \in (Lo(n) + 1)..n : w.seen[ids[i]] = i

\* No record has the id of one that is DedupCap or fewer places before it.
Apart(ids, n) == \A i, k \in 1..n : i < k /\ ids[i] = ids[k] => k - i > DedupCap

\* Where the reach of the window starts, and how it moves with one more record.
LEMMA LoFacts ==
    ASSUME NEW n \in Nat
    PROVE  /\ Lo(n) \in 0..n /\ n - Lo(n) \in 0..DedupCap
           /\ n - Lo(n) < DedupCap => Lo(n) = 0 /\ Lo(n + 1) = 0
           /\ n - Lo(n) = DedupCap => Lo(n + 1) = Lo(n) + 1 /\ n = Lo(n) + DedupCap
           /\ Lo(n) # 0 => Lo(n) + DedupCap = n
           /\ DedupCap \in Nat \ {0}
BY BoundAssumption DEF Lo

\* remember on a window that mirrors n records makes one that mirrors n + 1.
LEMMA RememberMirrors ==
    ASSUME NEW n \in Nat, NEW ids, NEW w, ids[n + 1] \in Id,
           \A i \in 1..n : ids[i] \in Id,
           Mirrors(w, ids, n),
           \A i \in (Lo(n) + 1)..n : ids[i] # ids[n + 1]
    PROVE  Mirrors(Remember(w, ids[n + 1], n + 1), ids, n + 1)
<1>1. PICK id \in Id : id = ids[n + 1]
  OBVIOUS
<1>2. PICK L \in Nat, lo \in Nat : L = n - Lo(n) /\ lo = Lo(n)
  BY LoFacts
<1>3. n = lo + L
  BY <1>2, LoFacts
<1>4. /\ L <= DedupCap
      /\ L < DedupCap => lo = 0 /\ Lo(n + 1) = 0
      /\ L = DedupCap => Lo(n + 1) = lo + 1 /\ L \in Nat \ {0}
  BY <1>2, LoFacts
<1>5. PICK r : r = Remember(w, id, n + 1)
  OBVIOUS
<1>6. /\ w.seen \in [Id -> Nat] /\ w.order \in Seq(Id) /\ Len(w.order) = L
      /\ \A i \in 1..L : w.order[i] = ids[lo + i]
      /\ \A x \in Id : w.seen[x] # 0 => w.seen[x] \in (lo + 1)..n /\ ids[w.seen[x]] = x
      /\ \A i \in (lo + 1)..n : w.seen[ids[i]] = i
      /\ \A i \in (lo + 1)..n : ids[i] # id
  BY <1>1, <1>2 DEF Mirrors
<1>7. w.seen[id] = 0
  BY <1>6
<1>8. ASSUME Joined(w, r, id, n + 1, L)
      PROVE  Mirrors(r, ids, n + 1)
  <2>1. lo = 0 /\ Lo(n + 1) = 0 /\ L = n
    BY <1>8, <1>3, <1>4 DEF Joined
  <2>2. /\ r.seen \in [Id -> Nat] /\ r.seen[id] = n + 1
        /\ \A x \in Id \ {id} : r.seen[x] = w.seen[x]
    BY <1>6, <1>8 DEF Joined
  <2>3. /\ r.order \in Seq(Id) /\ Len(r.order) = n + 1
        /\ r.order[n + 1] = id /\ \A i \in 1..n : r.order[i] = ids[i]
    BY <1>6, <1>8, <2>1 DEF Joined
  <2>4. \A i \in 1..(n + 1) : i = n + 1 \/ i \in 1..n
    OBVIOUS
  <2>5. \A i \in 1..(n + 1) : r.order[i] = ids[i]
    BY <1>1, <2>3, <2>4
  <2>6. \A x \in Id : r.seen[x] # 0 => r.seen[x] \in 1..(n + 1) /\ ids[r.seen[x]] = x
    BY <1>1, <1>6, <2>1, <2>2
  <2>7. \A i \in 1..(n + 1) : r.seen[ids[i]] = i
    BY <1>1, <1>6, <2>1, <2>2, <2>4
  <2>8. QED
    BY <2>1, <2>2, <2>3, <2>5, <2>6, <2>7 DEF Mirrors
<1>9. ASSUME NEW o, Replaced(w, r, id, n + 1, L, o)
      PROVE  Mirrors(r, ids, n + 1)
  <2>1. /\ L = DedupCap /\ Lo(n + 1) = lo + 1 /\ L \in Nat \ {0}
        /\ (n + 1) - (lo + 1) = L
    <3>1. L = DedupCap
      BY <1>9 DEF Replaced
    <3>2. (n + 1) - (lo + 1) = L
      BY <1>3
    <3>3. QED
      BY <1>4, <3>1, <3>2
  <2>2. o[L + 1] = id /\ \A i \in 1..L : o[i] = ids[lo + i]
    BY <1>6, <1>9 DEF Replaced
  <2>3. o[1] = ids[lo + 1]
    BY <2>1, <2>2
  <2>4. r.order \in Seq(Id) /\ Len(r.order) = L
    BY <1>9 DEF Replaced
  <2>5. ASSUME NEW i \in 1..L
        PROVE  r.order[i] = ids[lo + 1 + i]
    <3>1. r.order[i] = o[i + 1]
      BY <1>9 DEF Replaced
    <3>2. CASE i = L
      <4>1. lo + 1 + i = n + 1
        BY <1>3, <3>2
      <4>2. QED
        BY <1>1, <2>2, <3>1, <3>2, <4>1
    <3>3. CASE i # L
      <4>1. i + 1 \in 1..L /\ lo + (i + 1) = lo + 1 + i
        BY <3>3
      <4>2. QED
        BY <2>2, <3>1, <4>1
    <3>4. QED
      BY <3>2, <3>3
  <2>6. /\ r.seen \in [Id -> Nat]
        /\ \A x \in Id : r.seen[x] = IF x = o[1] THEN 0 ELSE IF x = id THEN n + 1 ELSE w.seen[x]
    BY <1>9 DEF Replaced
  <2>7. ASSUME NEW x \in Id, r.seen[x] # 0
        PROVE  r.seen[x] \in (lo + 2)..(n + 1) /\ ids[r.seen[x]] = x
    <3>1. x # o[1]
      BY <2>6, <2>7
    <3>2. CASE x = id
      <4>1. r.seen[x] = n + 1 /\ ids[n + 1] = x
        BY <1>1, <2>6, <3>1, <3>2
      <4>2. n + 1 \in (lo + 2)..(n + 1)
        BY <1>3, <2>1
      <4>3. QED
        BY <4>1, <4>2
    <3>3. CASE x # id
      <4>1. r.seen[x] = w.seen[x]
        BY <2>6, <3>1, <3>3
      <4>2. w.seen[x] \in (lo + 1)..n /\ ids[w.seen[x]] = x
        BY <1>6, <2>7, <4>1
      <4>3. w.seen[x] # lo + 1
        BY <2>3, <3>1, <4>2
      <4>4. QED
        BY <1>3, <4>1, <4>2, <4>3
    <3>4. QED
      BY <3>2, <3>3
  <2>8. ASSUME NEW i \in (lo + 2)..(n + 1)
        PROVE  r.seen[ids[i]] = i
    <3>1. lo + 1 \in (lo + 1)..n
      BY <1>3, <2>1
    <3>2. CASE i = n + 1
      BY <1>1, <1>6, <2>3, <2>6, <3>1, <3>2
    <3>3. CASE i # n + 1
      <4>1. i \in (lo + 1)..n /\ i # lo + 1 /\ i \in 1..n
        BY <1>3, <3>3
      <4>2. ids[i] # id /\ ids[i] \in Id /\ w.seen[ids[i]] = i /\ w.seen[ids[lo + 1]] = lo + 1
        BY <1>6, <3>1, <4>1
      <4>3. QED
        BY <2>3, <2>6, <4>1, <4>2
    <3>4. QED
      BY <3>2, <3>3
  <2>9. (lo + 1) + 1 = lo + 2
    OBVIOUS
  <2>10. QED
    BY <2>1, <2>4, <2>5, <2>6, <2>7, <2>8, <2>9 DEF Mirrors
<1>10. \/ Renewed(w, r, id, n + 1)
       \/ Joined(w, r, id, n + 1, L)
       \/ \E o : Replaced(w, r, id, n + 1, L, o)
  <2>1. PICK seq \in Nat \ {0} : seq = n + 1
    OBVIOUS
  <2>2. /\ w.seen \in [Id -> Nat] /\ w.order \in Seq(Id)
        /\ Len(w.order) <= DedupCap /\ L = Len(w.order)
    BY <1>4, <1>6
  <2>3. \/ Renewed(w, Remember(w, id, seq), id, seq)
        \/ Joined(w, Remember(w, id, seq), id, seq, L)
        \/ \E o : Replaced(w, Remember(w, id, seq), id, seq, L, o)
    BY <2>2, RememberCases
  <2>4. QED
    BY <1>5, <2>1, <2>3
<1>11. Mirrors(r, ids, n + 1)
  <2>1. ~ Renewed(w, r, id, n + 1)
    BY <1>7 DEF Renewed
  <2>2. QED
    BY <1>8, <1>9, <1>10, <2>1
<1>12. QED
  BY <1>1, <1>5, <1>11

\* The loop of recover, from an empty window.
LEMMA RememberAllMirrors ==
    ASSUME NEW ids \in Seq(Id), Apart(ids, Len(ids)), NEW w, w.seen = EmptySeen, w.order = <<>>
    PROVE  Mirrors(RememberAll(w, ids), ids, Len(ids))
<1>1. PICK N \in Nat : N = Len(ids)
  OBVIOUS
<1>2. PICK g : Turns(g, w, ids, N) /\ RememberAll(w, ids) = g[N]
  BY <1>1, RememberAllTurns
<1> DEFINE Bad == {m \in 0..N : ~ Mirrors(g[m], ids, m)}
<1>3. SUFFICES ASSUME N \in Bad
               PROVE  FALSE
  BY <1>1, <1>2
<1>4. PICK x \in Bad : \A y \in Bad : x <= y
  <2>1. Bad \subseteq Nat
    OBVIOUS
  <2> HIDE DEF Bad
  <2> QED
    BY <1>3, <2>1, LeastNumber
<1>5. x \in 0..N /\ ~ Mirrors(g[x], ids, x)
  OBVIOUS
<1>6. g[x] = IF x = 0 THEN w ELSE Remember(g[x - 1], ids[x], x)
  BY <1>2, <1>5 DEF Turns
<1>7. CASE x = 0
  <2>1. Lo(0) = 0
    BY LoFacts
  <2>2. w.order \in Seq(Id) /\ Len(w.order) = 0 /\ w.seen \in [Id -> Nat]
        /\ \A y \in Id : w.seen[y] = 0
    BY DEF EmptySeen
  <2>3. Mirrors(w, ids, 0)
    BY <2>1, <2>2 DEF Mirrors
  <2>4. QED
    BY <1>5, <1>6, <1>7, <2>3
<1>8. CASE x # 0
  <2>1. PICK n \in Nat : n = x - 1 /\ x = n + 1 /\ n \in 0..N /\ n \notin Bad
    BY <1>4, <1>5, <1>8
  <2>2. Mirrors(g[n], ids, n)
    BY <2>1
  <2>3. ids[n + 1] \in Id /\ \A i \in 1..n : ids[i] \in Id
    BY <1>1, <1>5, <2>1
  <2>4. ASSUME NEW i \in (Lo(n) + 1)..n
        PROVE  ids[i] # ids[n + 1]
    <3>0. Lo(n) \in 0..n /\ n - Lo(n) \in 0..DedupCap /\ DedupCap \in Nat
      BY <2>1, LoFacts
    <3>1. PICK lo \in Nat : lo = Lo(n) /\ n <= lo + DedupCap
      BY <2>1, <3>0
    <3>2. i \in (lo + 1)..n
      BY <3>1
    <3>3. i \in 1..Len(ids) /\ n + 1 \in 1..Len(ids) /\ i < n + 1
      BY <1>1, <1>5, <2>1, <3>2
    <3>4. ~ ((n + 1) - i > DedupCap)
      BY <3>1, <3>2, BoundAssumption
    <3>5. QED
      BY <3>3, <3>4 DEF Apart
  <2>5. Mirrors(Remember(g[n], ids[n + 1], n + 1), ids, n + 1)
    BY <2>2, <2>3, <2>4, RememberMirrors
  <2>6. QED
    BY <1>5, <1>6, <1>8, <2>1, <2>5
<1>9. QED
  BY <1>7, <1>8

-----------------------------------------------------------------------------
(* The ids on the file stay apart, whatever is cut off, rots or is pushed. *)

Shortened ==
    /\ file' \in Seq(Cell)
    /\ Len(file') <= Len(file)
    /\ \A i \in 1..Len(file') : file'[i] = file[i]

\* A recovery that adopts n records cuts the file behind them and changes nothing before.
LEMMA AdoptShortens ==
    ASSUME IndRun, pc = "adopt", NEW n \in 0..Len(file), WalkStopsAfter(file, n), AdoptPrefix(n)
    PROVE  /\ Shortened
           /\ Len(file') = 2 * n + 2 /\ n \in Nat
<1>1. file \in Seq(Cell) /\ Len(file) \in Nat /\ n \in Nat
  BY DEF IndRun, TypeOK, DiskType
<1>2. 2 * n + 2 <= Len(file)
  BY WalkFits DEF EndOf
<1>3. file' = SubSeq(file, 1, 2 * n + 2)
  BY DEF AdoptPrefix, TruncateFile, EndOf
<1>4. /\ file' \in Seq(Cell)
      /\ Len(file') = 2 * n + 2
      /\ \A i \in 1..(2 * n + 2) : file'[i] = file[i]
  BY <1>1, <1>2, <1>3, PrefixOf
<1>5. QED
  BY <1>1, <1>2, <1>4 DEF Shortened

\* Where the file changes.
LEMMA FileSteps ==
    ASSUME IndRun, [Next]_vars
    PROVE  UNCHANGED file \/ Shortened \/ WriteHeader \/ PushSome \/ PushRest \/ Rot
<1> USE DEF disk
<1>1. CASE Open \/ Recover \/ OpenFails
  BY <1>1 DEF Open, Recover, OpenFails, Refuse
<1>2. CASE EnsureHeader
  <2>1. CASE UNCHANGED file
    BY <2>1
  <2>2. CASE TruncateFile(0)
    <3>1. file \in Seq(Cell) /\ file' = SubSeq(file, 1, 0)
      BY <2>2 DEF TruncateFile, IndRun, TypeOK, DiskType
    <3>2. file' \in Seq(Cell) /\ Len(file') = 0
      BY <3>1, PrefixOf
    <3>3. QED
      BY <3>1, <3>2 DEF Shortened
  <2>3. QED
    BY <1>2, <2>1, <2>2 DEF EnsureHeader, Refuse
<1>3. CASE Adopt
  <2>1. PICK n \in 0..Len(file) : /\ WalkStopsAfter(file, n)
                                  /\ Refuse("CorruptMidFile") \/ AdoptPrefix(n)
    BY <1>3 DEF Adopt
  <2>2. QED
    BY <1>3, <2>1, AdoptShortens DEF Adopt, Refuse
<1>4. CASE \E id \in Id : AppendRecord(id)
  BY <1>4 DEF AppendRecord
<1>5. CASE PushStops \/ \E lie \in BOOLEAN : SyncOk(lie) \/ AckFsync(lie)
  BY <1>5 DEF PushStops, SyncOk, AckFsync
<1>6. CASE SyncFails \/ AckTruncate \/ AckAppend \/ AckFails
  BY <1>6 DEF SyncFails, AckTruncate, AckAppend, AckFails
<1>7. CASE Exit
  BY <1>7 DEF Exit
<1>8. CASE PowerCut \/ PowerCutThenRecover
  <2>1. LoseTails
    BY <1>8 DEF PowerCut, PowerCutThenRecover
  <2>2. QED
    BY <2>1, LoseTailsDisk DEF Shortened, DiskType
<1>9. CASE UNCHANGED vars
  BY <1>9 DEF vars
<1>10. QED
  BY <1>1, <1>2, <1>3, <1>4, <1>5, <1>6, <1>7, <1>8, <1>9 DEF Next

FileApart(cells) ==
    \A i, k \in Nat \ {0} :
        /\ i < k /\ 2 * k + 1 <= Len(cells)
        /\ cells[2 * i + 1].what.id \in Id
        /\ cells[2 * k + 1].what.id = cells[2 * i + 1].what.id
        => k - i > DedupCap

\* In a running journal: the window mirrors the end of the log, and the record that
\* is outstanding is not in it.
ExactInv ==
    /\ FileApart(file)
    /\ ~ Running => seen = EmptySeen /\ order = <<>>
    /\ Running => /\ Mirrors(TheWindow, head, written)
                  /\ pending # <<>> => seen[pending[1].frame.id] = 0

\* The ids of a running journal are those on its file.
LEMMA HeadOnFile ==
    ASSUME IndRun, Running, FileApart(file)
    PROVE  /\ written \in Nat /\ head \in Seq(Id) /\ Len(head) = written
           /\ 2 * written + 2 <= Len(file) /\ Len(file) \in Nat
           /\ \A i \in 1..written : head[i] = file[2 * i + 1].what.id /\ head[i] \in Id
           /\ Apart(head, written)
<1>1. RunningInv /\ head \in Seq(Id) /\ written \in Nat /\ file \in Seq(Cell)
  BY DEF IndRun, RunInv, TypeOK, ProcessType, DiskType
<1>2. Len(head) = written /\ head = Ids(file, written)
  BY <1>1 DEF RunningInv
<1>3. 2 * written + 2 <= Len(file) /\ Len(file) \in Nat
  <2>1. ASSUME pending # <<>>
        PROVE  pending[1].done \in 0..1
    <3>1. pending \in Seq([frame : Frame, done : 0..1]) /\ Len(pending) <= 1
      BY DEF IndRun, TypeOK, ProcessType
    <3>2. pending[1] \in [frame : Frame, done : 0..1]
      BY <2>1, <3>1, Singleton
    <3>3. QED
      BY <3>2
  <2>2. QED
    BY <1>1, <2>1 DEF RunningInv, EndOf
<1>4. \A i \in 1..written : head[i] = file[2 * i + 1].what.id /\ head[i] \in Id
  BY <1>1, <1>2 DEF Ids
<1>5. ASSUME NEW i \in 1..written, NEW k \in 1..written, i < k, head[i] = head[k]
      PROVE  k - i > DedupCap
  <2>1. i \in Nat \ {0} /\ k \in Nat \ {0} /\ 2 * k + 1 <= Len(file)
    BY <1>1, <1>3
  <2>2. QED
    BY <1>4, <1>5, <2>1 DEF FileApart
<1>6. QED
  BY <1>1, <1>2, <1>3, <1>4, <1>5 DEF Apart

\* The next record may be pushed when its id is not in the window.
LEMMA ApartExtended ==
    ASSUME IndRun, Running, ExactInv, NEW id \in Id, seen[id] = 0,
           \A i \in 1..Len(file) : file'[i] = file[i],
           Len(file') \in Nat, Len(file') <= 2 * written + 4,
           Len(file') >= 2 * written + 3 => file'[2 * written + 3].what.id = id
    PROVE  FileApart(file')
<1>1. /\ written \in Nat /\ 2 * written + 2 <= Len(file) /\ Len(file) \in Nat
      /\ \A i \in 1..written : head[i] = file[2 * i + 1].what.id /\ head[i] \in Id
  BY HeadOnFile DEF ExactInv
<1> SUFFICES ASSUME NEW i \in Nat \ {0}, NEW k \in Nat \ {0},
                    i < k, 2 * k + 1 <= Len(file'),
                    file'[2 * i + 1].what.id \in Id,
                    file'[2 * k + 1].what.id = file'[2 * i + 1].what.id
             PROVE  k - i > DedupCap
  BY DEF FileApart
<1>2. k <= written + 1 /\ i <= written /\ i \in 1..written
  BY <1>1
<1>3. 2 * i + 1 \in 1..Len(file)
  BY <1>1, <1>2
<1>4. file'[2 * i + 1] = file[2 * i + 1]
  BY <1>3
<1>5. CASE k <= written
  <2>1. 2 * k + 1 \in 1..Len(file) /\ 2 * k + 1 <= Len(file)
    BY <1>1, <1>5
  <2>2. file'[2 * k + 1] = file[2 * k + 1]
    BY <2>1
  <2>3. QED
    BY <1>4, <2>1, <2>2 DEF ExactInv, FileApart
<1>6. CASE k = written + 1
  <2>1. file'[2 * k + 1].what.id = id
    <3>1. 2 * k + 1 = 2 * written + 3
      BY <1>1, <1>6
    <3>2. QED
      BY <1>1, <3>1
  <2>2. head[i] = id
    BY <1>1, <1>2, <1>4, <2>1
  <2>3. PICK lo \in Nat : lo = Lo(written) /\ (lo # 0 => lo + DedupCap = written)
    <3>1. written \in Nat
      BY <1>1
    <3>2. Lo(written) \in 0..written /\ (Lo(written) # 0 => Lo(written) + DedupCap = written)
      BY <3>1, LoFacts
    <3>3. QED
      BY <3>1, <3>2
  <2>4. ~ (i \in (lo + 1)..written)
    <3>1. \A j \in (lo + 1)..written : seen[head[j]] = j
      BY <2>3 DEF ExactInv, Mirrors, TheWindow
    <3>2. QED
      BY <2>2, <3>1
  <2>5. i <= lo
    BY <1>1, <1>2, <2>4
  <2>6. QED
    BY <1>1, <1>6, <2>3, <2>5, BoundAssumption
<1>7. QED
  BY <1>1, <1>2, <1>5, <1>6

\* The first half of a frame goes to the place behind the last whole one.
LEMMA PushSomeFile ==
    ASSUME IndRun, PushSome
    PROVE  /\ Len(file') = 2 * written + 3 /\ written \in Nat
           /\ \A i \in 1..Len(file) : file'[i] = file[i]
           /\ file'[2 * written + 3] = [what |-> pending[1].frame, part |-> 1]
<1>1. /\ pc = "push" /\ pending[1].done = 0
      /\ file' = Append(file, TwoCells(pending[1].frame)[1])
  BY DEF PushSome
<1>2. /\ pending[1].frame \in Frame /\ written \in Nat /\ file \in Seq(Cell)
      /\ Len(file) = 2 * written + 2
  BY <1>1, PendingFacts DEF IndRun, TypeOK, DiskType
<1>3. TwoCells(pending[1].frame)[1] = [what |-> pending[1].frame, part |-> 1]
  BY <1>2, TwoCellsType
<1>4. [what |-> pending[1].frame, part |-> 1] \in Cell
  BY <1>2 DEF Cell, Frame
<1>5. /\ Len(file') = Len(file) + 1
      /\ \A i \in 1..Len(file) : file'[i] = file[i]
      /\ file'[Len(file) + 1] = [what |-> pending[1].frame, part |-> 1]
  BY <1>1, <1>2, <1>3, <1>4, AppendProperties
<1>6. Len(file) + 1 = 2 * written + 3
  BY <1>2
<1>7. QED
  BY <1>2, <1>5, <1>6

\* No step leaves an id on file twice within the window's reach.
LEMMA NextApart ==
    ASSUME IndRun, IndRun', ExactInv, [Next]_vars
    PROVE  FileApart(file')
<1>1. file \in Seq(Cell) /\ Len(file) \in Nat /\ file' \in Seq(Cell) /\ Len(file') \in Nat
  BY DEF IndRun, TypeOK, DiskType
<1>2. CASE UNCHANGED file
  BY <1>2 DEF ExactInv
<1>3. CASE Shortened
  <2> SUFFICES ASSUME NEW i \in Nat \ {0}, NEW k \in Nat \ {0},
                      i < k, 2 * k + 1 <= Len(file'),
                      file'[2 * i + 1].what.id \in Id,
                      file'[2 * k + 1].what.id = file'[2 * i + 1].what.id
               PROVE  k - i > DedupCap
    BY DEF FileApart
  <2>1. 2 * k + 1 \in 1..Len(file') /\ 2 * i + 1 \in 1..Len(file')
    BY <1>1
  <2>2. file'[2 * k + 1] = file[2 * k + 1] /\ file'[2 * i + 1] = file[2 * i + 1]
        /\ 2 * k + 1 <= Len(file)
    BY <1>1, <1>3, <2>1 DEF Shortened
  <2>3. QED
    BY <2>2 DEF ExactInv, FileApart
<1>4. CASE WriteHeader
  <2>1. Len(file') <= 2
    BY <1>4, WriteHeaderFile
  <2>2. QED
    BY <1>1, <2>1 DEF FileApart
<1>5. CASE PushSome
  <2>1. Running /\ pending # <<>> /\ pending[1].frame.id \in Id
    BY <1>5, PendingFacts DEF PushSome, Running, Frame
  <2>2. seen[pending[1].frame.id] = 0
    BY <2>1 DEF ExactInv
  <2>3. /\ \A i \in 1..Len(file) : file'[i] = file[i]
        /\ Len(file') <= 2 * written + 4
        /\ file'[2 * written + 3].what.id = pending[1].frame.id
    BY <1>5, PushSomeFile
  <2>4. QED
    BY <1>1, <2>1, <2>2, <2>3, ApartExtended
<1>6. CASE PushRest
  <2>1. Running /\ pending # <<>> /\ pending[1].frame.id \in Id /\ written \in Nat
    BY <1>6, PendingFacts DEF PushRest, Running, Frame
  <2>2. seen[pending[1].frame.id] = 0
    BY <2>1 DEF ExactInv
  <2>3. /\ Len(file') = 2 * written + 4
        /\ \A i \in 1..Len(file) : file'[i] = file[i]
        /\ Ids(file', written + 1) = Append(Ids(file, written), pending[1].frame.id)
    BY <1>6, PushRestFile
  <2>4. file'[2 * written + 3].what.id = pending[1].frame.id
    <3>1. head = Ids(file, written) /\ head \in Seq(Id) /\ Len(head) = written
      BY <2>1 DEF IndRun, RunInv, RunningInv, TypeOK, ProcessType
    <3>2. Append(Ids(file, written), pending[1].frame.id)[written + 1] = pending[1].frame.id
      BY <2>1, <3>1, AppendProperties
    <3>3. Ids(file', written + 1)[written + 1] = file'[2 * (written + 1) + 1].what.id
      BY <2>1 DEF Ids
    <3>4. 2 * (written + 1) + 1 = 2 * written + 3
      BY <2>1
    <3>5. QED
      BY <2>3, <3>2, <3>3, <3>4
  <2>5. Len(file') <= 2 * written + 4
    BY <2>1, <2>3
  <2>6. QED
    BY <1>1, <2>1, <2>2, <2>3, <2>4, <2>5, ApartExtended
<1>7. CASE Rot
  <2>1. PICK j \in 1..Len(file) : file' = [file EXCEPT ![j].what = NoFrame(Junk)]
    BY <1>7 DEF Rot
  <2>2. Len(file') = Len(file)
    BY <1>1, <2>1
  <2>3. \A i \in 1..Len(file) : i # j => file'[i] = file[i]
    BY <1>1, <2>1
  <2>4. file'[j].what.id \notin Id
    <3>1. file'[j] = [file[j] EXCEPT !.what = NoFrame(Junk)] /\ file[j] \in Cell
      BY <1>1, <2>1, ElementOfSeq
    <3>2. file'[j].what = NoFrame(Junk)
      BY <3>1 DEF Cell
    <3>3. QED
      BY <3>2, SentinelAssumption DEF NoFrame, Special
  <2> SUFFICES ASSUME NEW i \in Nat \ {0}, NEW k \in Nat \ {0},
                      i < k, 2 * k + 1 <= Len(file'),
                      file'[2 * i + 1].what.id \in Id,
                      file'[2 * k + 1].what.id = file'[2 * i + 1].what.id
               PROVE  k - i > DedupCap
    BY DEF FileApart
  <2>5. 2 * k + 1 \in 1..Len(file) /\ 2 * i + 1 \in 1..Len(file)
    BY <1>1, <2>2
  <2>6. 2 * i + 1 # j /\ 2 * k + 1 # j
    BY <2>4
  <2>7. file'[2 * k + 1] = file[2 * k + 1] /\ file'[2 * i + 1] = file[2 * i + 1]
    BY <2>3, <2>5, <2>6
  <2>8. QED
    BY <2>2, <2>7 DEF ExactInv, FileApart
<1>8. QED
  BY <1>2, <1>3, <1>4, <1>5, <1>6, <1>7, FileSteps

-----------------------------------------------------------------------------
(* The window through the steps of the journal.                            *)

\* The other steps leave log and window alone, and what they stamp is not in it.
LEMMA OtherSteps ==
    ASSUME IndRun, LiveRecovery = FALSE, [Next]_vars, ~ PushRest,
           ~ (pc = "adopt" /\ pc' = "up"), pc' # "down"
    PROVE  /\ Running' <=> Running
           /\ UNCHANGED <<seen, order, head, written>>
           /\ pending' # <<>> => \/ seen[pending'[1].frame.id] = 0
                                 \/ /\ pending # <<>>
                                    /\ pending'[1].frame.id = pending[1].frame.id
<1> USE DEF memory, window, counters, Running
<1>1. CASE Open \/ EnsureHeader \/ WriteHeader
  BY <1>1 DEF Open, EnsureHeader, WriteHeader, Refuse
<1>2. CASE Recover \/ OpenFails \/ Exit \/ PowerCut \/ PowerCutThenRecover
  BY <1>2 DEF Recover, OpenFails, Refuse, Exit, PowerCut, PowerCutThenRecover
<1>3. CASE Adopt
  BY <1>3 DEF Adopt, Refuse, AdoptPrefix
<1>4. ASSUME NEW id \in Id, AppendRecord(id)
      PROVE  /\ Running' <=> Running
             /\ UNCHANGED <<seen, order, head, written>>
             /\ pending' # <<>> => \/ seen[pending'[1].frame.id] = 0
                                   \/ /\ pending # <<>>
                                      /\ pending'[1].frame.id = pending[1].frame.id
  BY <1>4 DEF AppendRecord
<1>5. CASE PushSome
  <2>1. pending[1] \in [frame : Frame, done : 0..1] /\ pending # <<>>
    <3>1. pending \in Seq([frame : Frame, done : 0..1]) /\ Len(pending) <= 1 /\ pending # <<>>
      BY <1>5, PendingFacts DEF PushSome, IndRun, TypeOK, ProcessType
    <3>2. QED
      BY <3>1, Singleton
  <2>2. pending'[1].frame = pending[1].frame
    BY <1>5, <2>1 DEF PushSome
  <2>3. QED
    BY <1>5, <2>1, <2>2 DEF PushSome
<1>6. CASE PushStops
  BY <1>6 DEF PushStops
<1>7. CASE \E lie \in BOOLEAN : SyncOk(lie) \/ AckFsync(lie)
  BY <1>7 DEF SyncOk, AckFsync, SyncReturns
<1>8. CASE SyncFails \/ AckTruncate \/ AckAppend \/ AckFails
  BY <1>8 DEF SyncFails, AckTruncate, AckAppend, AckFails, SyncReturns
<1>9. CASE Rot
  BY <1>9 DEF Rot
<1>10. CASE UNCHANGED vars
  BY <1>10 DEF vars
<1>11. QED
  BY <1>1, <1>2, <1>3, <1>4, <1>5, <1>6, <1>7, <1>8, <1>9, <1>10 DEF Next

\* A process that is gone, or was refused, remembers nothing.
LEMMA DownIsFresh ==
    ASSUME [Next]_vars, ExactInv, pc' = "down"
    PROVE  seen' = EmptySeen /\ order' = <<>>
<1>1. CASE pc = "down"
  <2>1. seen = EmptySeen /\ order = <<>>
    BY <1>1 DEF ExactInv, Running
  <2>2. QED
    BY <1>1, <2>1, WindowSteps DEF FreshMemory, PushRest
<1>2. CASE pc # "down"
  <2>1. FreshMemory
    BY <1>2 DEF Next, vars, Open, Recover, EnsureHeader, WriteHeader, OpenFails, Adopt,
                AdoptPrefix, Refuse, AppendRecord, PushSome, PushRest, PushStops, SyncOk,
                SyncFails, SyncReturns, AckTruncate, AckAppend, AckFsync, AckFails, Exit,
                PowerCut, PowerCutThenRecover, Rot
  <2>2. QED
    BY <2>1 DEF FreshMemory
<1>3. QED
  BY <1>1, <1>2

\* The second half of a frame is written and its id remembered: the window mirrors the file.
LEMMA PushRestMirrors ==
    ASSUME IndRun, IndRun', ExactInv, PushRest
    PROVE  Mirrors(TheWindow', head', written') /\ pending' = <<>>
<1>1. /\ pc = "push" /\ Running /\ pending # <<>>
      /\ pending[1].frame.id \in Id /\ pending[1].frame.seq = written + 1
      /\ written \in Nat
  BY PendingFacts DEF PushRest, Running, Frame
<1>2. PICK id \in Id : id = pending[1].frame.id
  BY <1>1
<1>3. head \in Seq(Id) /\ Len(head) = written /\ \A i \in 1..written : head[i] \in Id
  BY <1>1, HeadOnFile DEF ExactInv
<1>4. head' = Append(head, id)
  BY <1>1, <1>2, PushRestFile DEF IndRun, RunInv, RunningInv
<1>5. /\ head'[written + 1] = id
      /\ \A i \in 1..written : head'[i] = head[i]
  BY <1>1, <1>3, <1>4, AppendProperties
<1>6. Mirrors(TheWindow, head, written) /\ seen[id] = 0
  BY <1>1, <1>2 DEF ExactInv
<1>7. PICK lo \in Nat : lo = Lo(written) /\ lo <= written
  BY <1>1, LoFacts
<1>8. /\ TheWindow.seen = seen
      /\ \A i \in (lo + 1)..written : seen[head[i]] = i
      /\ \A x \in Id : seen[x] # 0 => seen[x] \in (lo + 1)..written /\ head[seen[x]] = x
      /\ TheWindow.seen \in [Id -> Nat]
      /\ TheWindow.order \in Seq(Id) /\ Len(TheWindow.order) = written - Lo(written)
      /\ \A i \in 1..(written - Lo(written)) : TheWindow.order[i] = head[Lo(written) + i]
  BY <1>6, <1>7 DEF Mirrors, TheWindow
<1>9. \A i \in (lo + 1)..written : i \in 1..written /\ head'[i] = head[i] /\ head'[i] # id
  <2> SUFFICES ASSUME NEW i \in (lo + 1)..written
               PROVE  i \in 1..written /\ head'[i] = head[i] /\ head'[i] # id
    OBVIOUS
  <2>1. i \in 1..written /\ i # 0
    BY <1>1, <1>7
  <2>2. QED
    BY <1>5, <1>6, <1>8, <2>1
<1>10. Mirrors(TheWindow, head', written)
  <2>1. ASSUME NEW i \in 1..(written - Lo(written))
        PROVE  TheWindow.order[i] = head'[Lo(written) + i]
    <3>1. lo + i \in (lo + 1)..written
      BY <1>1, <1>7, <2>1
    <3>2. head'[lo + i] = head[lo + i]
      BY <1>9, <3>1
    <3>3. QED
      BY <1>7, <1>8, <3>2
  <2>2. \A i \in (lo + 1)..written : seen[head'[i]] = i
    BY <1>8, <1>9
  <2>3. \A x \in Id : seen[x] # 0 => seen[x] \in (lo + 1)..written /\ head'[seen[x]] = x
    BY <1>8, <1>9
  <2>4. QED
    BY <1>7, <1>8, <2>1, <2>2, <2>3 DEF Mirrors
<1>11. PICK r : r = Remember(TheWindow, id, written + 1)
  OBVIOUS
<1>12. Mirrors(r, head', written + 1)
  <2>1. \A i \in (Lo(written) + 1)..written : head'[i] # head'[written + 1]
    BY <1>5, <1>7, <1>9
  <2>2. head'[written + 1] \in Id /\ \A i \in 1..written : head'[i] \in Id
    BY <1>3, <1>5
  <2>3. QED
    BY <1>1, <1>5, <1>10, <1>11, <2>1, <2>2, RememberMirrors
<1>13. seen' = r.seen /\ order' = r.order /\ written' = written + 1 /\ pending' = <<>>
  BY <1>1, <1>2, <1>11 DEF PushRest, TheWindow
<1>14. TheWindow'.seen = r.seen /\ TheWindow'.order = r.order
  BY <1>13 DEF TheWindow
<1>15. QED
  BY <1>12, <1>13, <1>14 DEF Mirrors

\* A recovery builds the window from the records it adopts.
LEMMA AdoptMirrors ==
    ASSUME IndRun, IndRun', ExactInv, pc = "adopt", NEW n \in 0..Len(file),
           WalkStopsAfter(file, n), AdoptPrefix(n)
    PROVE  Mirrors(TheWindow', head', written') /\ pending' = <<>>
<1>1. n \in Nat /\ file \in Seq(Cell) /\ Len(file) \in Nat
  BY DEF IndRun, TypeOK, DiskType
<1>2. PICK ids \in Seq(Id) : /\ ids = Ids(file, n) /\ Len(ids) = n
                             /\ \A i \in 1..n : /\ ids[i] = file[2 * i + 1].what.id
                                                /\ file[2 * i + 1].what.id \in Id
  BY <1>1, WalkedIds
<1>3. 2 * n + 2 <= Len(file)
  BY WalkFits DEF EndOf
<1>4. ASSUME NEW i \in 1..n, NEW k \in 1..n, i < k, ids[i] = ids[k]
      PROVE  k - i > DedupCap
  <2>1. i \in Nat \ {0} /\ k \in Nat \ {0} /\ 2 * k + 1 <= Len(file)
    BY <1>1, <1>3
  <2>2. QED
    BY <1>2, <1>4, <2>1 DEF ExactInv, FileApart
<1>5. TheWindow.seen = EmptySeen /\ TheWindow.order = <<>>
  BY DEF ExactInv, Running, TheWindow
<1>6. PICK r : r = RememberAll(TheWindow, ids)
  OBVIOUS
<1>7. Mirrors(r, ids, n)
  BY <1>2, <1>4, <1>5, <1>6, RememberAllMirrors DEF Apart
<1>8. /\ seen' = r.seen /\ order' = r.order /\ written' = n /\ head' = ids
      /\ pending' = <<>>
  BY <1>2, <1>6 DEF AdoptPrefix, TheWindow
<1>9. TheWindow'.seen = r.seen /\ TheWindow'.order = r.order
  BY <1>8 DEF TheWindow
<1>10. QED
  BY <1>7, <1>8, <1>9 DEF Mirrors

\* Every step keeps window and file in step, where recover runs on a new handle.
LEMMA NextExact ==
    ASSUME IndRun, IndRun', ExactInv, LiveRecovery = FALSE, [Next]_vars
    PROVE  ExactInv'
<1>1. FileApart(file')
  BY NextApart
<1>2. CASE pc' = "down"
  <2>1. ~ Running'
    BY <1>2 DEF Running
  <2>2. QED
    BY <1>1, <1>2, <2>1, DownIsFresh DEF ExactInv
<1>3. CASE PushRest
  <2>1. Running'
    BY <1>3 DEF PushRest, Running
  <2>2. QED
    BY <1>1, <1>3, <2>1, PushRestMirrors DEF ExactInv
<1>4. CASE pc = "adopt" /\ pc' = "up"
  <2>1. Running'
    BY <1>4 DEF Running
  <2>2. PICK n \in 0..Len(file) : WalkStopsAfter(file, n) /\ AdoptPrefix(n)
    BY <1>4 DEF Next, vars, Open, Recover, EnsureHeader, WriteHeader, OpenFails, Adopt,
                Refuse, AppendRecord, PushSome, PushRest, PushStops, SyncOk,
                SyncFails, SyncReturns, AckTruncate, AckAppend, AckFsync, AckFails, Exit,
                PowerCut, PowerCutThenRecover, Rot
  <2>3. QED
    BY <1>1, <1>4, <2>1, <2>2, AdoptMirrors DEF ExactInv
<1>5. CASE ~ PushRest /\ ~ (pc = "adopt" /\ pc' = "up") /\ pc' # "down"
  <2>1. /\ Running' <=> Running
        /\ UNCHANGED <<seen, order, head, written>>
        /\ pending' # <<>> => \/ seen[pending'[1].frame.id] = 0
                              \/ /\ pending # <<>>
                                 /\ pending'[1].frame.id = pending[1].frame.id
    BY <1>5, OtherSteps
  <2>2. TheWindow' = TheWindow
    BY <2>1 DEF TheWindow
  <2>3. CASE Running
    <3>1. Mirrors(TheWindow', head', written')
      BY <2>1, <2>2, <2>3 DEF ExactInv
    <3>2. pending' # <<>> => seen'[pending'[1].frame.id] = 0
      BY <2>1, <2>3 DEF ExactInv
    <3>3. QED
      BY <1>1, <2>1, <2>3, <3>1, <3>2 DEF ExactInv
  <2>4. CASE ~ Running
    BY <1>1, <2>1, <2>4 DEF ExactInv
  <2>5. QED
    BY <2>3, <2>4
<1>6. QED
  BY <1>2, <1>3, <1>4, <1>5

\* An empty directory and no process: nothing to keep in step.
LEMMA InitExact == Init => ExactInv
<1> SUFFICES ASSUME Init PROVE ExactInv
  OBVIOUS
<1>1. Len(file) \in {0, 2}
  <2>1. file \in {<<>>, Foreign(OtherOwner), Foreign(NotJournal)}
    BY DEF Init
  <2>2. Len(Foreign(OtherOwner)) = 2 /\ Len(Foreign(NotJournal)) = 2
    BY TwoCellsType DEF Special
  <2>3. Len(<<>>) = 0
    OBVIOUS
  <2>4. QED
    BY <2>1, <2>2, <2>3
<1>2. FileApart(file)
  BY <1>1 DEF FileApart
<1>3. QED
  BY <1>2 DEF Init, ExactInv, Running

\* DedupWindow, where recover is called on the handle that open made: through every
\* crash, torn write, lie and rot the window names only records the file really has,
\* each at its place, and no id is let on file twice within the window's reach.
THEOREM WindowExact ==
    ASSUME LiveRecovery = FALSE
    PROVE  Spec => []WindowIsExact
<1>1. IndRun /\ ExactInv => DuplicateIsOnFile /\ DuplicatesFarApart
  <2> SUFFICES ASSUME IndRun, ExactInv, Running
               PROVE  /\ \A id \in Id : seen[id] # 0 =>
                            seen[id] <= written /\ head[seen[id]] = id
                      /\ \A i, k \in 1..written :
                            i < k /\ head[i] = head[k] => k - i > DedupCap
    BY DEF DuplicateIsOnFile, DuplicatesFarApart
  <2>1. Apart(head, written) /\ written \in Nat
    BY HeadOnFile DEF ExactInv
  <2>2. ASSUME NEW id \in Id, seen[id] # 0
        PROVE  seen[id] <= written /\ head[seen[id]] = id
    <3>1. seen[id] \in (Lo(written) + 1)..written /\ head[seen[id]] = id
      BY <2>2 DEF ExactInv, Mirrors, TheWindow
    <3>2. QED
      BY <2>1, <3>1, LoFacts
  <2>3. QED
    BY <2>1, <2>2 DEF Apart
<1>2. Init => IndRun /\ ExactInv
  BY InitRun, InitExact
<1>3. IndRun /\ ExactInv /\ [Next]_vars => (IndRun /\ ExactInv)'
  BY NextRun, NextExact
<1>4. Spec => [](DuplicateIsOnFile /\ DuplicatesFarApart)
  BY <1>1, <1>2, <1>3, PTL DEF Spec
<1>5. QED
  BY <1>4, Recovery, PTL DEF WindowIsExact, RecoveredIsSound

-----------------------------------------------------------------------------

\* The walk over a file whose bytes are as they were written takes every whole
\* frame, so it reaches every record that is durable.
LEMMA WalkIsWhole ==
    ASSUME IndRun, pc = "adopt", Well(file), NEW n \in 0..Len(file), WalkStopsAfter(file, n)
    PROVE  /\ n \in Nat /\ 2 * n + 2 <= Len(file) /\ Len(file) <= 2 * n + 3
           /\ \A k \in Nat : Inside(k, durable) => k <= n
<1>1. file \in Seq(Cell) /\ Len(file) \in Nat /\ durable \in 0..Len(file)
  BY DEF IndRun, TypeOK, DiskType
<1>2. n \in Nat /\ 2 * n + 2 <= Len(file)
  BY <1>1, WalkFits DEF EndOf
<1>3. Len(file) <= 2 * n + 3
  <2>1. ~ Follows(file, n + 1) /\ n + 1 \in Nat \ {0}
    BY <1>2 DEF WalkStopsAfter
  <2>2. ~ (2 * (n + 1) + 2 <= Len(file))
    BY <1>1, <2>1, WellFollows
  <2>3. QED
    BY <1>1, <1>2, <2>2
<1>4. \A k \in Nat : Inside(k, durable) => k <= n
  BY <1>1, <1>2, <1>3 DEF Inside, EndOf
<1>5. QED
  BY <1>2, <1>3, <1>4

-----------------------------------------------------------------------------
(* acked.                                                                  *)

\* Where acked changes in a process that lives on.
LEMMA AckedSteps ==
    ASSUME [Next]_vars, pc # "down", pc' # "down"
    PROVE  \/ UNCHANGED acked
           \/ \E lie \in BOOLEAN : SyncOk(lie)
           \/ pc = "adopt" /\ \E n \in 0..Len(file) : WalkStopsAfter(file, n) /\ AdoptPrefix(n)
<1> USE DEF vars, memory, counters
<1>1. CASE Open \/ Recover \/ EnsureHeader \/ WriteHeader \/ OpenFails
  BY <1>1 DEF Open, Recover, EnsureHeader, WriteHeader, OpenFails, Refuse
<1>2. CASE Adopt
  BY <1>2 DEF Adopt, Refuse
<1>3. CASE \E id \in Id : AppendRecord(id)
  BY <1>3 DEF AppendRecord
<1>4. CASE PushSome \/ PushRest \/ PushStops
  BY <1>4 DEF PushSome, PushRest, PushStops
<1>5. CASE \E lie \in BOOLEAN : SyncOk(lie) \/ AckFsync(lie)
  BY <1>5 DEF AckFsync
<1>6. CASE SyncFails \/ AckTruncate \/ AckAppend \/ AckFails
  BY <1>6 DEF SyncFails, AckTruncate, AckAppend, AckFails
<1>7. CASE Exit \/ PowerCut \/ PowerCutThenRecover \/ Rot
  BY <1>7 DEF Exit, PowerCut, PowerCutThenRecover, Rot
<1>8. CASE UNCHANGED vars
  BY <1>8
<1>9. QED
  BY <1>1, <1>2, <1>3, <1>4, <1>5, <1>6, <1>7, <1>8 DEF Next

\* No step of a living process takes the acknowledged count back on an honest disk.
LEMMA AckedStep ==
    ASSUME IndRun, HonestInv, [Next]_vars, HonestDisk, pc # "down", pc' # "down"
    PROVE  acked' >= acked
<1>1. acked \in Nat /\ written \in Nat
  BY DEF IndRun, TypeOK, ProcessType
<1>2. CASE UNCHANGED acked
  BY <1>1, <1>2
<1>3. CASE \E lie \in BOOLEAN : SyncOk(lie)
  <2>1. acked <= written /\ acked' = written
    BY <1>3 DEF SyncOk, IndRun, RunInv, RunningInv, Running
  <2>2. QED
    BY <1>1, <2>1
<1>4. ASSUME pc = "adopt", NEW n \in 0..Len(file), WalkStopsAfter(file, n), AdoptPrefix(n)
      PROVE  acked' >= acked
  <2>1. OursInv
    BY <1>4 DEF HonestInv, ForeignInv
  <2>2. acked <= n /\ n \in Nat
    BY <1>1, <1>4, <2>1, WalkIsWhole DEF OursInv
  <2>3. acked' = acked
    BY <1>1, <1>4, <2>2 DEF AdoptPrefix, AckedAfter
  <2>4. QED
    BY <1>1, <2>3
<1>5. QED
  BY <1>2, <1>3, <1>4, AckedSteps

\* While a process lives its acknowledged count never goes back, recover on a handle
\* in use and a crash of the disk below it included, as long as the disk is honest.
THEOREM AckedGrows == Spec => AckedOnlyGrows
<1>1. Init => IndRun /\ HonestInv
  BY InitRun, InitHonest
<1>2. IndRun /\ HonestInv /\ [Next]_vars => IndRun' /\ HonestInv'
  BY NextRun, NextHonest
<1>3. IndRun /\ HonestInv /\ [Next]_vars
        => [HonestDisk /\ pc # "down" /\ pc' # "down" => acked' >= acked]_vars
  BY AckedStep
<1>4. QED
  BY <1>1, <1>2, <1>3, PTL DEF Spec, AckedOnlyGrows

-----------------------------------------------------------------------------
(* Recovery destroys no evidence.                                          *)

\* The header's cells never hold a part of a frame.
NoFrameInHeader == \A i \in 1..Len(file) : i <= 2 => file[i].what.id \notin Id

\* No header cell, ours or another's, carries an id of a record.
LEMMA HeaderIsNoFrame ==
    /\ \A i \in 1..2 : HeaderCells[i].what.id = Header /\ HeaderCells[i].part = i
    /\ \A x \in {OtherOwner, NotJournal} : \A i \in 1..2 : Foreign(x)[i].what.id = x
    /\ {Header, OtherOwner, NotJournal, Junk} \cap Id = {}
BY SentinelAssumption DEF HeaderCells, Foreign, TwoCells, NoFrame, Special

\* Nothing a step writes makes the header's cells a frame.
LEMMA NextNoFrame ==
    ASSUME IndRun, IndRun', NoFrameInHeader, [Next]_vars
    PROVE  NoFrameInHeader'
<1>1. /\ file \in Seq(Cell) /\ Len(file) \in Nat
      /\ file' \in Seq(Cell) /\ Len(file') \in Nat
  BY DEF IndRun, TypeOK, DiskType
<1>2. ASSUME StartsWithHeader(file')
      PROVE  NoFrameInHeader'
  <2> SUFFICES ASSUME NEW i \in 1..Len(file'), i <= 2
               PROVE  file'[i].what.id \notin Id
    BY DEF NoFrameInHeader
  <2>1. i \in 1..2 /\ file'[i] = HeaderCells[i]
    BY <1>1, <1>2 DEF StartsWithHeader
  <2>2. QED
    BY <2>1, HeaderIsNoFrame
<1>3. CASE UNCHANGED file \/ Shortened
  <2> SUFFICES ASSUME NEW i \in 1..Len(file'), i <= 2
               PROVE  file'[i].what.id \notin Id
    BY DEF NoFrameInHeader
  <2>1. i \in 1..Len(file) /\ file'[i] = file[i]
    BY <1>1, <1>3 DEF Shortened
  <2>2. QED
    BY <2>1 DEF NoFrameInHeader
<1>4. CASE WriteHeader
  BY <1>2, <1>4, WriteHeaderFile
<1>5. CASE PushSome \/ PushRest
  <2>1. Running'
    BY <1>5 DEF PushSome, PushRest, Running
  <2>2. QED
    BY <1>2, <2>1 DEF IndRun, RunInv, RunningInv, Well
<1>6. CASE Rot
  <2>1. PICK j \in 1..Len(file) : file' = [file EXCEPT ![j].what = NoFrame(Junk)]
    BY <1>6 DEF Rot
  <2>2. Len(file') = Len(file) /\ \A i \in 1..Len(file) : i # j => file'[i] = file[i]
    BY <1>1, <2>1
  <2>3. file'[j].what.id \notin Id
    <3>1. file'[j] = [file[j] EXCEPT !.what = NoFrame(Junk)] /\ file[j] \in Cell
      BY <1>1, <2>1, ElementOfSeq
    <3>2. file'[j].what = NoFrame(Junk)
      BY <3>1 DEF Cell
    <3>3. QED
      BY <3>2, SentinelAssumption DEF NoFrame, Special
  <2>4. QED
    BY <2>2, <2>3 DEF NoFrameInHeader
<1>7. QED
  BY <1>3, <1>4, <1>5, <1>6, FileSteps

\* recover cuts off what does not verify only when nothing after it parses.
LEMMA AdoptKeepsFrames ==
    ASSUME IndRun, pc = "adopt", NEW n \in 0..Len(file), WalkStopsAfter(file, n),
           ~ NextParsable(file, EndOf(n) + 1), AdoptPrefix(n)
    PROVE  KeepsEvidence
<1>1. /\ file \in Seq(Cell) /\ Len(file) \in Nat
      /\ StartsWithHeader(file) /\ Len(file) >= 2
  BY DEF IndRun, RunInv, TypeOK, DiskType
<1>2. /\ n \in Nat /\ Len(file') = 2 * n + 2
      /\ \A i \in 1..(2 * n + 2) : file'[i] = file[i]
      /\ 2 * n + 2 <= Len(file)
  BY AdoptShortens DEF Shortened
<1>3. file[2 * n + 2].part = 2
  <2>1. CASE n = 0
    BY <1>1, <2>1, HeaderIsNoFrame DEF StartsWithHeader
  <2>2. CASE n # 0
    <3>1. Follows(file, n) /\ (2 * n + 1) + 1 = 2 * n + 2
      BY <1>2, <2>2 DEF WalkStopsAfter
    <3>2. QED
      BY <3>1 DEF Follows, ParsesAt
  <2>3. QED
    BY <2>1, <2>2
<1>4. ASSUME NEW i \in 1..Len(file), ParsesAt(file, i)
      PROVE  ParsesAt(file', i)
  <2>1. ~ (i \in (2 * n + 3)..Len(file))
    BY <1>4 DEF NextParsable, EndOf
  <2>2. i # 2 * n + 2
    BY <1>3, <1>4 DEF ParsesAt
  <2>3. i \in 1..(2 * n + 2) /\ i + 1 \in 1..(2 * n + 2)
    BY <1>1, <1>2, <2>1, <2>2
  <2>4. file'[i] = file[i] /\ file'[i + 1] = file[i + 1] /\ i + 1 <= Len(file')
    BY <1>2, <2>3
  <2>5. QED
    BY <1>4, <2>4 DEF ParsesAt
<1>5. ASSUME NEW x \in {OtherOwner, NotJournal}, file = Foreign(x)
      PROVE  FALSE
  <2>1. file[1] = HeaderCells[1]
    BY <1>1 DEF StartsWithHeader
  <2>2. QED
    BY <1>5, <2>1, HeaderIsNoFrame, SentinelAssumption
<1>6. QED
  BY <1>4, <1>5 DEF KeepsEvidence

\* ensure_header starts over only on a file too short to hold a frame.
LEMMA HeaderKeepsFrames ==
    ASSUME IndRun, NoFrameInHeader, EnsureHeader, pc' # "down"
    PROVE  KeepsEvidence
<1>1. file \in Seq(Cell) /\ Len(file) \in Nat
  BY DEF IndRun, TypeOK, DiskType
<1>2. CASE UNCHANGED file
  BY <1>2 DEF KeepsEvidence
<1>3. CASE ~ UNCHANGED file
  <2>1. "Torn" \in DecodeHeader(file) /\ TRUE \in HeaderIsAllItCouldHold(file)
    <3>1. PICK h \in DecodeHeader(file), short \in HeaderIsAllItCouldHold(file) :
             \/ UNCHANGED <<disk, memory, ret, history>>
             \/ Refuse(h)
             \/ Refuse("CorruptHeader")
             \/ h = "Torn" /\ short
      BY DEF EnsureHeader
    <3>2. ~ Refuse(h) /\ ~ Refuse("CorruptHeader")
      BY DEF Refuse
    <3>3. ~ UNCHANGED <<disk, memory, ret, history>>
      BY <1>3 DEF disk
    <3>4. short \in BOOLEAN
      BY DEF HeaderIsAllItCouldHold
    <3>5. h = "Torn" /\ short = TRUE
      BY <3>1, <3>2, <3>3, <3>4
    <3>6. QED
      BY <3>5
  <2>2. Len(file) <= 3
    <3>a. \A L \in Nat : ~ (L <= 3) => ~ (L <= 2) /\ L # 3
      OBVIOUS
    <3>0. ~ (Len(file) <= 3) => ~ (Len(file) <= 2) /\ Len(file) # 3
      BY <1>1, <3>a
    <3>1. ~ (Len(file) <= 3) => HeaderIsAllItCouldHold(file) = {FALSE}
      BY <3>0, Zenon DEF HeaderIsAllItCouldHold
    <3>2. TRUE \notin {FALSE}
      OBVIOUS
    <3>3. QED
      BY <2>1, <3>1, <3>2
  <2>3. ASSUME NEW i \in 1..Len(file), ParsesAt(file, i)
        PROVE  FALSE
    <3>1. i <= 2
      BY <1>1, <2>2, <2>3 DEF ParsesAt
    <3>2. file[i].what.id \in Id
      BY <2>3 DEF ParsesAt, Frame
    <3>3. QED
      BY <3>1, <3>2 DEF NoFrameInHeader
  <2>4. ASSUME NEW x \in {OtherOwner, NotJournal}, file = Foreign(x)
        PROVE  FALSE
    BY <2>1, <2>4, ForeignDecodes
  <2>5. QED
    BY <2>3, <2>4 DEF KeepsEvidence
<1>4. QED
  BY <1>2, <1>3

\* One step of a recovery keeps every frame that still parses.
LEMMA EvidenceStep ==
    ASSUME IndRun, NoFrameInHeader, [Next]_vars, Recovering, pc' # "down"
    PROVE  KeepsEvidence
<1>1. CASE EnsureHeader
  BY <1>1, HeaderKeepsFrames
<1>2. CASE WriteHeader
  <2>1. Len(file) < 2 /\ Len(file) \in Nat
    BY <1>2 DEF WriteHeader, IndRun, RunInv, TypeOK, DiskType
  <2>2. \A i \in 1..Len(file) : ~ ParsesAt(file, i)
    BY <2>1 DEF ParsesAt
  <2>3. \A x \in {OtherOwner, NotJournal} : Len(Foreign(x)) = 2
    BY TwoCellsType DEF Special
  <2>4. QED
    BY <2>1, <2>2, <2>3 DEF KeepsEvidence
<1>3. CASE Adopt
  <2>1. PICK n \in 0..Len(file) :
           /\ WalkStopsAfter(file, n)
           /\ ~ NextParsable(file, EndOf(n) + 1)
           /\ AdoptPrefix(n)
    BY <1>3 DEF Adopt, Refuse
  <2>2. QED
    BY <1>3, <2>1, AdoptKeepsFrames DEF Adopt
<1>4. CASE UNCHANGED vars
  BY <1>4 DEF vars, disk, KeepsEvidence
<1>5. QED
  BY <1>1, <1>2, <1>3, <1>4
     DEF Next, Recovering, Open, Recover, OpenFails, Refuse, AppendRecord, PushSome, PushRest,
         PushStops, SyncOk, SyncFails, AckTruncate, AckAppend, AckFsync, AckFails, Exit,
         PowerCut, PowerCutThenRecover, Rot

\* ensure_header and recover, on a file that may be torn, rotten or somebody else's:
\* every frame that still parses stays on file, and a file that is not this journal's
\* is left as it is.
THEOREM EvidenceKept == Spec => RecoveryDestroysNoEvidence
<1>1. Init => IndRun /\ NoFrameInHeader
  <2>1. Init => NoFrameInHeader
    <3> SUFFICES ASSUME Init, NEW i \in 1..Len(file), i <= 2
                 PROVE  file[i].what.id \notin Id
      BY DEF NoFrameInHeader
    <3>1. file # <<>>
      OBVIOUS
    <3>2. file = Foreign(OtherOwner) \/ file = Foreign(NotJournal)
      BY <3>1 DEF Init
    <3>3. i \in 1..2
      BY <3>2, TwoCellsType DEF Special
    <3>4. QED
      BY <3>2, <3>3, HeaderIsNoFrame
  <2>2. QED
    BY <2>1, InitRun
<1>2. IndRun /\ NoFrameInHeader /\ [Next]_vars => (IndRun /\ NoFrameInHeader)'
  BY NextRun, NextNoFrame
<1>3. IndRun /\ NoFrameInHeader /\ [Next]_vars
        => [Recovering /\ pc' # "down" => KeepsEvidence]_vars
  BY EvidenceStep
<1>4. QED
  BY <1>1, <1>2, <1>3, PTL DEF Spec, RecoveryDestroysNoEvidence

-----------------------------------------------------------------------------
(* One flush that lied.                                                    *)

\* Somebody else's file: it is whole on the device and no open gets past it.
SomebodyElses ==
    /\ file \in {Foreign(OtherOwner), Foreign(NotJournal)}
    /\ durable = 2
    /\ pc \in {"down", "boot"}

\* Lies of the device cost cells at the end, never in the middle.
Unrotted == rots = 0 => Well(file) \/ SomebodyElses

\* The watermark that reached the disk names at least what was recorded.
WatermarkTells == wm.dur = 2 /\ wm.len = 2 /\ wm.val >= recorded

\* Whatever the watermark recorded is durable, or the device has lied and the
\* watermark is still there to tell; while the watermark is being replaced it
\* is durable.
Told ==
    /\ Inside(recorded, durable) \/ (lies = 1 /\ WatermarkTells)
    /\ InAck => Inside(recorded, durable)
    /\ InAck /\ lies = 0 => Inside(acked, durable)

RecordedInv ==
    /\ Unrotted
    /\ Running => recorded <= written
    /\ pc = "ack_fsync" => wm.val = acked /\ wm.len = 2
    /\ rots = 0 /\ lies <= 1 => Told

\* A header of another owner is read as neither torn nor ours.
LEMMA ForeignFile ==
    ASSUME NEW c \in {Foreign(OtherOwner), Foreign(NotJournal)}
    PROVE  /\ Len(c) = 2 /\ c \in Seq(Cell) /\ "Torn" \notin DecodeHeader(c)
           /\ "Ours" \notin DecodeHeader(c)
<1>1. PICK x \in {OtherOwner, NotJournal} : c = Foreign(x)
  OBVIOUS
<1>2. x \in Special
  BY DEF Special
<1>3. QED
  BY <1>1, <1>2, TwoCellsType, ForeignDecodes

\* Opening somebody else's file changes nothing on it.
LEMMA ForeignStays ==
    ASSUME IndRun, SomebodyElses, [Next]_vars, rots' = 0
    PROVE  SomebodyElses' /\ UNCHANGED file
<1> USE DEF SomebodyElses
<1>1. Len(file) = 2 /\ "Torn" \notin DecodeHeader(file) /\ "Ours" \notin DecodeHeader(file)
  BY ForeignFile
<1>2. CASE Open \/ OpenFails \/ Exit
  BY <1>2 DEF Open, OpenFails, Exit, Refuse, disk
<1>3. CASE EnsureHeader
  <2>1. PICK h \in DecodeHeader(file) : Refuse(h) \/ Refuse("CorruptHeader")
    BY <1>1, <1>3 DEF EnsureHeader
  <2>2. QED
    BY <2>1 DEF Refuse, disk
<1>4. CASE PowerCut
  <2>1. PICK n \in durable..Len(file) : file' = SubSeq(file, 1, n) /\ durable' = n
    BY <1>4 DEF PowerCut, LoseTails
  <2>2. n = 2
    BY <1>1, <2>1
  <2>3. file \in Seq(Cell)
    BY DEF IndRun, TypeOK, DiskType
  <2>4. file' = file
    BY <1>1, <2>1, <2>2, <2>3, PrefixOf, SeqEqual
  <2>5. QED
    BY <1>4, <2>1, <2>2, <2>4 DEF PowerCut
<1>5. CASE UNCHANGED vars
  BY <1>5 DEF vars, disk
<1>6. ~ Rot
  BY BoundAssumption DEF Rot, IndRun, TypeOK, HistoryType
<1>7. QED
  BY <1>2, <1>3, <1>4, <1>5, <1>6
     DEF Next, Recover, WriteHeader, Adopt, AppendRecord, PushSome, PushRest,
         PushStops, SyncOk, SyncFails, AckTruncate, AckAppend, AckFsync, AckFails,
         PowerCutThenRecover

\* A well-formed file stays one on such a device.
LEMMA WellStays ==
    ASSUME IndRun, IndRun', Well(file), [Next]_vars, ~ Rot
    PROVE  Well(file')
<1>1. file \in Seq(Cell) /\ file' \in Seq(Cell)
  BY DEF IndRun, TypeOK, DiskType
<1>2. CASE UNCHANGED file
  BY <1>2
<1>3. CASE Shortened
  BY <1>1, <1>3, WellPrefix DEF Shortened
<1>4. CASE WriteHeader
  <2>1. Len(file') <= 2 /\ StartsWithHeader(file') /\ Len(file') \in Nat
    BY <1>1, <1>4, WriteHeaderFile
  <2>2. \A k \in Nat \ {0} : ~ (2 * k + 1 <= Len(file')) /\ ~ (2 * k + 2 <= Len(file'))
    BY <2>1
  <2>3. QED
    BY <2>1, <2>2 DEF Well
<1>5. CASE PushSome \/ PushRest
  <2>1. Running'
    BY <1>5 DEF PushSome, PushRest, Running
  <2>2. QED
    BY <2>1 DEF IndRun, RunInv, RunningInv
<1>6. QED
  BY <1>2, <1>3, <1>4, <1>5, FileSteps

\* Every step keeps the file well formed while nothing rots.
LEMMA NextUnrotted ==
    ASSUME IndRun, IndRun', Unrotted, [Next]_vars
    PROVE  Unrotted'
<1> SUFFICES ASSUME rots' = 0 PROVE Well(file') \/ SomebodyElses'
  BY DEF Unrotted
<1>1. rots = 0 /\ ~ Rot
  <2>1. rots \in Nat /\ ~ Rot
    BY BoundAssumption DEF Rot, IndRun, TypeOK, HistoryType
  <2>2. rots' = rots
    BY <2>1 DEF Next, vars, history, Open, Recover, EnsureHeader, WriteHeader, OpenFails, Refuse,
                Adopt, AdoptPrefix, AppendRecord, PushSome, PushRest, PushStops, SyncOk, SyncFails,
                AckTruncate, AckAppend, AckFsync, AckFails, Exit, PowerCut, PowerCutThenRecover
  <2>3. QED
    BY <2>1, <2>2
<1>2. CASE SomebodyElses
  BY <1>2, ForeignStays
<1>3. CASE Well(file)
  BY <1>1, <1>3, WellStays
<1>4. QED
  BY <1>1, <1>2, <1>3 DEF Unrotted

\* The counters the next lemmas calculate with are numbers.
LEMMA RecordedTypes ==
    ASSUME IndRun
    PROVE  /\ recorded \in Nat /\ acked \in Nat /\ written \in Nat /\ lies \in Nat /\ rots \in Nat
           /\ durable \in Nat /\ Len(file) \in Nat /\ durable <= Len(file) /\ file \in Seq(Cell)
           /\ wm.val \in Nat /\ wm.len \in 0..2 /\ wm.dur \in 0..2 /\ wm.dur <= wm.len
BY BoundAssumption DEF IndRun, TypeOK, DiskType, ProcessType, HistoryType

\* What is left of the invariant besides the shape of the file.
TellInv ==
    /\ Running => recorded <= written
    /\ pc = "ack_fsync" => wm.val = acked /\ wm.len = 2
    /\ rots = 0 /\ lies <= 1 => Told

\* A step outside sync that leaves the disk's marks alone.
LEMMA MarksStay ==
    ASSUME IndRun, IndRun', TellInv, UNCHANGED <<durable, wm, recorded, lies>>,
           rots' = rots, ~ InAck',
           Running' => Running /\ written <= written'
    PROVE  TellInv'
<1>1. (Running => recorded <= written)'
  <2>1. written' \in Nat
    BY DEF IndRun, TypeOK, ProcessType
  <2>2. QED
    BY <2>1, RecordedTypes DEF TellInv
<1>2. pc' # "ack_fsync"
  BY DEF InAck
<1>3. rots = 0 /\ lies <= 1 => Told'
  <2>1. Inside(recorded, durable)' <=> Inside(recorded, durable)
    BY DEF Inside
  <2>2. WatermarkTells' <=> WatermarkTells
    BY DEF WatermarkTells
  <2>3. QED
    BY <2>1, <2>2 DEF TellInv, Told
<1>4. QED
  BY <1>1, <1>2, <1>3 DEF TellInv

\* ensure_header cuts only what held no frame.
LEMMA CutTold ==
    ASSUME IndRun, IndRun', Unrotted, TellInv, EnsureHeader
    PROVE  TellInv'
<1>1. PICK h \in DecodeHeader(file), short \in HeaderIsAllItCouldHold(file) :
          \/ /\ h = "Ours"
             /\ pc' = "adopt"
             /\ UNCHANGED <<disk, memory, ret, history>>
          \/ /\ h \in {"WrongOwner", "NotAJournal"}
             /\ Refuse(h)
          \/ /\ h = "Torn" /\ ~ short
             /\ Refuse("CorruptHeader")
          \/ /\ h = "Torn" /\ short
             /\ TruncateFile(0)
             /\ pc' = "header"
             /\ UNCHANGED <<wm, memory, ret, history>>
  BY DEF EnsureHeader
<1>2. CASE \/ /\ pc' = "adopt"
              /\ UNCHANGED <<disk, memory, ret, history>>
           \/ Refuse(h) \/ Refuse("CorruptHeader")
  <2>1. UNCHANGED <<durable, wm, recorded, lies, rots>> /\ pc' \in {"adopt", "down"}
    BY <1>2 DEF Refuse, disk, history
  <2>2. QED
    BY <2>1, MarksStay DEF InAck, Running
<1>3. CASE /\ h = "Torn" /\ TruncateFile(0)
           /\ pc' = "header"
           /\ UNCHANGED <<wm, memory, ret, history>>
  <2>1. UNCHANGED <<wm, recorded, lies, rots>> /\ ~ Running' /\ ~ InAck' /\ pc' # "ack_fsync"
    BY <1>3 DEF history, Running, InAck
  <2>2. ASSUME rots = 0, lies <= 1
        PROVE  Told'
    <3>1. Well(file)
      <4>1. "Torn" \in DecodeHeader(file)
        BY <1>3
      <4>2. QED
        BY <4>1, <2>2, ForeignFile DEF Unrotted, SomebodyElses
    <3>2. Len(file) < 2
      BY <1>3, <3>1, OursDecodes, RecordedTypes
    <3>3. Inside(recorded, durable) => recorded = 0
      BY <3>2, RecordedTypes DEF Inside, EndOf
    <3>4. Told
      BY <2>2 DEF TellInv
    <3>5. QED
      BY <2>1, <3>3, <3>4 DEF Told, WatermarkTells, Inside
  <2>3. QED
    BY <2>1, <2>2 DEF TellInv
<1>4. QED
  BY <1>1, <1>2, <1>3

\* Recovery finds all that is durable, so what it misses the watermark tells.
LEMMA AdoptTold ==
    ASSUME IndRun, IndRun', Unrotted, TellInv, pc = "adopt",
           NEW n \in 0..Len(file), WalkStopsAfter(file, n), AdoptPrefix(n)
    PROVE  /\ TellInv'
           /\ rots = 0 /\ lies <= 1 /\ n < recorded => ret'.alarm
<1>1. /\ written' = n /\ n \in Nat /\ pc' = "up"
      /\ recorded' = IF recorded < n THEN recorded ELSE n
      /\ durable' = IF durable < EndOf(n) THEN durable ELSE EndOf(n)
      /\ UNCHANGED <<wm, lies, rots>>
      /\ ret' = [Answer("Recovered", NoId, n) EXCEPT !.alarm = n < Promised]
  BY RecordedTypes DEF AdoptPrefix, TruncateFile
<1>2. recorded' \in Nat /\ recorded' <= n /\ recorded' <= recorded
  BY <1>1, RecordedTypes
<1>3. ASSUME rots = 0, lies <= 1
      PROVE  Told' /\ (n < recorded => ret'.alarm)
  <2>1. Well(file)
    BY <1>3 DEF Unrotted, SomebodyElses
  <2>2. \A k \in Nat : Inside(k, durable) => k <= n
    BY <2>1, WalkIsWhole
  <2>3. Told
    BY <1>3 DEF TellInv
  <2>4. ~ InAck'
    BY <1>1 DEF InAck
  <2>5. CASE Inside(recorded, durable)
    <3>1. recorded <= n
      BY <2>2, <2>5, RecordedTypes
    <3>2. recorded' = recorded
      BY <1>1, <3>1, RecordedTypes
    <3>3. Inside(recorded', durable')
      BY <1>1, <2>5, <3>1, <3>2, RecordedTypes DEF Inside, EndOf
    <3>4. ~ (n < recorded)
      BY <1>1, <3>1, RecordedTypes
    <3>5. QED
      BY <2>4, <3>3, <3>4 DEF Told
  <2>6. CASE lies = 1 /\ WatermarkTells
    <3>1. lies' = 1 /\ WatermarkTells'
      BY <1>1, <1>2, <2>6, RecordedTypes DEF WatermarkTells
    <3>2. ASSUME n < recorded
          PROVE  ret'.alarm
      <4>1. n < ReadWatermark /\ ReadWatermark \in Nat
        BY <1>1, <2>6, <3>2, RecordedTypes DEF WatermarkTells, ReadWatermark
      <4>2. n < Promised
        BY <1>1, <4>1, RecordedTypes DEF Promised
      <4>3. ret'.alarm = (n < Promised)
        BY <1>1 DEF Answer
      <4>4. QED
        BY <4>2, <4>3
    <3>3. QED
      BY <2>4, <3>1, <3>2 DEF Told
  <2>7. QED
    BY <2>3, <2>5, <2>6 DEF Told
<1>4. QED
  BY <1>1, <1>2, <1>3 DEF TellInv

\* sync's flush: one that lies finds what was recorded durable already.
LEMMA SyncTold ==
    ASSUME IndRun, IndRun', TellInv, NEW lie \in BOOLEAN, SyncOk(lie)
    PROVE  TellInv'
<1>1. /\ pc = "up" /\ pc' = "ack_truncate" /\ UNCHANGED <<wm, recorded, rots, written, file>>
      /\ acked' = written
      /\ lies' = lies + (IF lie THEN 1 ELSE 0)
      /\ durable' = IF lie THEN durable ELSE Len(file)
  BY DEF SyncOk
<1>2. recorded <= written /\ EndOf(written) <= Len(file)
  <2>1. Running
    BY <1>1 DEF Running
  <2>2. RunningInv
    BY <2>1 DEF IndRun, RunInv
  <2>3. pending # <<>> => pending[1].done \in 0..1
    <3>1. pending \in Seq([frame : Frame, done : 0..1])
      BY DEF IndRun, TypeOK, ProcessType
    <3>2. pending # <<>> => pending[1] \in [frame : Frame, done : 0..1]
      BY <3>1, Singleton DEF IndRun, TypeOK, ProcessType
    <3>3. QED
      BY <3>1, <3>2
  <2>4. QED
    BY <2>1, <2>2, <2>3, RecordedTypes DEF TellInv, RunningInv, EndOf
<1>3. ASSUME rots = 0, lies' <= 1
      PROVE  Told'
  <2>1. CASE ~ lie
    <3>1. Inside(written, durable') /\ Inside(recorded, durable')
      BY <1>1, <1>2, <2>1, RecordedTypes DEF Inside, EndOf
    <3>2. QED
      BY <1>1, <3>1 DEF Told
  <2>2. CASE lie
    <3>1. lies = 0 /\ lies' = 1 /\ durable' = durable
      BY <1>1, <1>3, <2>2, RecordedTypes
    <3>2. Inside(recorded, durable)
      BY <1>3, <3>1 DEF TellInv, Told
    <3>3. QED
      BY <1>1, <3>1, <3>2 DEF Told, Inside
  <2>3. QED
    BY <2>1, <2>2
<1>4. QED
  BY <1>1, <1>2, <1>3 DEF TellInv

\* write_watermark: while the old value is gone what it said is durable.
LEMMA AckTold ==
    ASSUME IndRun, IndRun', TellInv,
           AckTruncate \/ AckAppend \/ AckFails \/ \E lie \in BOOLEAN : AckFsync(lie)
    PROVE  TellInv'
<1>1. /\ InAck /\ Running
      /\ UNCHANGED <<file, durable, acked, written, rots>>
  BY DEF AckTruncate, AckAppend, AckFails, AckFsync, InAck, Running, memory, counters, history, disk
<1>2. recorded <= written /\ acked <= written
  BY <1>1 DEF TellInv, IndRun, RunInv, RunningInv
<1>3. CASE AckTruncate \/ AckAppend
  <2>1. UNCHANGED <<recorded, lies>>
    BY <1>3 DEF AckTruncate, AckAppend, history
  <2>2. pc' = "ack_fsync" => wm'.val = acked' /\ wm'.len = 2
    BY <1>1, <1>3 DEF AckTruncate, AckAppend
  <2>3. rots = 0 /\ lies <= 1 => Told'
    <3>1. /\ Inside(recorded, durable)' <=> Inside(recorded, durable)
          /\ Inside(acked, durable)' <=> Inside(acked, durable)
      BY <1>1, <2>1 DEF Inside
    <3>2. QED
      BY <1>1, <2>1, <3>1 DEF TellInv, Told
  <2>4. QED
    BY <1>1, <1>2, <2>1, <2>2, <2>3 DEF TellInv
<1>4. CASE AckFails
  <2>1. UNCHANGED <<durable, wm, recorded, lies>> /\ pc' = "up"
    BY <1>4 DEF AckFails, disk, SyncReturns
  <2>2. QED
    BY <1>1, <2>1, MarksStay, RecordedTypes DEF InAck
<1>5. CASE \E lie \in BOOLEAN : AckFsync(lie)
  <2>1. PICK lie \in BOOLEAN : AckFsync(lie)
    BY <1>5
  <2>2. /\ pc = "ack_fsync" /\ pc' = "up"
        /\ wm.val = acked /\ wm.len = 2
        /\ lies' = lies + (IF lie THEN 1 ELSE 0)
        /\ wm' = IF lie THEN wm ELSE [wm EXCEPT !.dur = wm.len]
        /\ recorded' = IF lie THEN recorded ELSE acked
    BY <2>1 DEF AckFsync, SyncReturns, TellInv
  <2>3. ASSUME rots = 0, lies' <= 1
        PROVE  Inside(recorded', durable') \/ (lies' = 1 /\ WatermarkTells')
    <3>1. CASE lie
      <4>1. lies = 0 /\ recorded' = recorded
        BY <2>2, <2>3, <3>1, RecordedTypes
      <4>2. QED
        BY <1>1, <2>3, <4>1 DEF TellInv, Told
    <3>2. CASE ~ lie
      <4>1. lies' = lies /\ recorded' = acked /\ lies \in {0, 1}
        BY <2>2, <2>3, <3>2, RecordedTypes
      <4>2. CASE lies = 0
        BY <1>1, <2>3, <4>1, <4>2 DEF TellInv, Told
      <4>3. CASE lies = 1
        <5>1. wm'.dur = 2 /\ wm'.len = 2 /\ wm'.val = acked
          BY <2>2, <3>2 DEF IndRun, TypeOK, DiskType
        <5>2. QED
          BY <4>1, <4>3, <5>1, RecordedTypes DEF WatermarkTells
      <4>4. QED
        BY <4>1, <4>2, <4>3
    <3>3. QED
      BY <3>1, <3>2
  <2>4. ~ InAck' /\ pc' # "ack_fsync"
    BY <2>2 DEF InAck
  <2>5. recorded' <= written'
    BY <1>1, <1>2, <2>2
  <2>6. rots = 0 /\ lies' <= 1 => Told'
    BY <2>3, <2>4 DEF Told
  <2>7. QED
    BY <1>1, <2>4, <2>5, <2>6 DEF TellInv
<1>6. QED
  BY <1>3, <1>4, <1>5

\* A power cut takes nothing that was flushed, of either file.
LEMMA CutPowerTold ==
    ASSUME IndRun, IndRun', TellInv, PowerCut \/ PowerCutThenRecover
    PROVE  TellInv'
<1>1. UNCHANGED <<recorded, lies, rots>> /\ pc' \in {"down", "boot"}
  BY DEF PowerCut, PowerCutThenRecover, history
<1>2. PICK n \in durable..Len(file), m \in wm.dur..wm.len :
         durable' = n /\ wm' = [val |-> wm.val, len |-> m, dur |-> m]
  BY DEF PowerCut, PowerCutThenRecover, LoseTails
<1>3. durable <= durable' /\ durable' \in Nat
  BY <1>2, RecordedTypes
<1>4. Inside(recorded, durable) => Inside(recorded', durable')
  BY <1>1, <1>3, RecordedTypes DEF Inside, EndOf
<1>5. WatermarkTells => WatermarkTells'
  <2>1. wm.dur = 2 => m = 2
    BY <1>2, RecordedTypes
  <2>2. QED
    BY <1>1, <1>2, <2>1 DEF WatermarkTells
<1>6. ~ InAck' /\ ~ Running' /\ pc' # "ack_fsync"
  BY <1>1 DEF InAck, Running
<1>7. rots = 0 /\ lies <= 1 => Told'
  BY <1>1, <1>4, <1>5, <1>6 DEF TellInv, Told
<1>8. QED
  BY <1>1, <1>6, <1>7 DEF TellInv

\* Every step keeps what a recovery has to know to report a loss.
LEMMA NextTold ==
    ASSUME IndRun, IndRun', Unrotted, TellInv, [Next]_vars
    PROVE  TellInv'
<1>1. CASE EnsureHeader
  BY <1>1, CutTold
<1>2. CASE pc = "adopt" /\ \E n \in 0..Len(file) : WalkStopsAfter(file, n) /\ AdoptPrefix(n)
  BY <1>2, AdoptTold
<1>3. CASE \E lie \in BOOLEAN : SyncOk(lie)
  BY <1>3, SyncTold
<1>4. CASE AckTruncate \/ AckAppend \/ AckFails \/ \E lie \in BOOLEAN : AckFsync(lie)
  BY <1>4, AckTold
<1>5. CASE PowerCut \/ PowerCutThenRecover
  BY <1>5, CutPowerTold
<1>6. CASE Rot
  <2>1. rots' # 0
    BY <1>6, RecordedTypes DEF Rot
  <2>2. ~ Running' /\ pc' # "ack_fsync"
    BY <1>6 DEF Rot, Running
  <2>3. QED
    BY <2>1, <2>2 DEF TellInv
<1>7. CASE UNCHANGED vars
  BY <1>7 DEF TellInv, Told, WatermarkTells, Inside, InAck, Running,
              vars, disk, memory, counters, history
<1>8. CASE OpenFails \/ Exit \/ (pc = "adopt" /\ \E why \in {"CorruptMidFile"} : Refuse(why))
  <2>1. UNCHANGED <<durable, wm, recorded, lies, rots>> /\ pc' = "down"
    BY <1>8 DEF OpenFails, Exit, Refuse, disk, history
  <2>2. QED
    BY <2>1, MarksStay DEF InAck, Running
<1>9. CASE Open \/ Recover \/ WriteHeader
  <2>1. UNCHANGED <<durable, wm, recorded, lies, rots>> /\ pc' \in {"boot", "header", "adopt"}
    BY <1>9 DEF Open, Recover, WriteHeader, disk, history
  <2>2. QED
    BY <2>1, MarksStay DEF InAck, Running
<1>10. CASE (\E id \in Id : AppendRecord(id)) \/ PushSome \/ PushStops \/ SyncFails
  <2>1. /\ UNCHANGED <<durable, wm, recorded, lies, rots, written>>
        /\ pc \in {"up", "push"} /\ pc' \in {"up", "push"}
    BY <1>10 DEF AppendRecord, PushSome, PushStops, SyncFails, disk, counters, history
  <2>2. QED
    BY <2>1, MarksStay, RecordedTypes DEF InAck, Running
<1>11. CASE PushRest
  <2>1. /\ UNCHANGED <<durable, wm, recorded, lies, rots>> /\ written' = pending[1].frame.seq
        /\ pc = "push" /\ pc' = "up"
    BY <1>11 DEF PushRest, history
  <2>2. pending[1].frame.seq = written + 1
    BY <2>1, PendingFacts
  <2>3. QED
    BY <2>1, <2>2, MarksStay, RecordedTypes DEF InAck, Running
<1>12. QED
  BY <1>1, <1>2, <1>3, <1>4, <1>5, <1>6, <1>7, <1>8, <1>9, <1>10, <1>11 DEF Next, Adopt

\* It holds before the first open.
LEMMA InitTold == Init => Unrotted /\ TellInv
<1> SUFFICES ASSUME Init PROVE Unrotted /\ TellInv
  OBVIOUS
<1>1. CASE file = <<>>
  <2>1. Well(file)
    BY <1>1 DEF Well, StartsWithHeader
  <2>2. QED
    BY <2>1 DEF Init, Unrotted, TellInv, Running, Told, Inside, InAck
<1>2. CASE file # <<>>
  <2>1. file \in {Foreign(OtherOwner), Foreign(NotJournal)}
    BY <1>2 DEF Init
  <2>2. Len(file) = 2
    BY <2>1, ForeignFile
  <2>3. SomebodyElses
    BY <2>1, <2>2 DEF Init, SomebodyElses
  <2>4. QED
    BY <2>3 DEF Init, Unrotted, TellInv, Running, Told, Inside, InAck
<1>3. QED
  BY <1>1, <1>2

\* recover after one flush that lied, whatever crashed in between: if fewer records
\* come back than a watermark on the disk had named, it raises the alarm.
THEOREM LossIsTold == Spec => OneLieIsReported
<1> DEFINE Inv == IndRun /\ Unrotted /\ TellInv
<1>1. Init => Inv
  BY InitRun, InitTold
<1>2. Inv /\ [Next]_vars => Inv'
  BY NextRun, NextUnrotted, NextTold
<1>3. Inv /\ Inv' /\ [Next]_vars
        => [pc = "adopt" /\ pc' = "up" /\ written' < recorded
            /\ rots = 0 /\ lies <= 1 => ret'.alarm]_vars
  <2> SUFFICES ASSUME Inv, Inv', [Next]_vars, pc = "adopt", pc' = "up", written' < recorded,
                      rots = 0, lies <= 1
               PROVE  ret'.alarm
    OBVIOUS
  <2>1. Adopt
    BY DEF Next, Open, Recover, EnsureHeader, Refuse, WriteHeader, OpenFails,
           AppendRecord, PushSome, PushRest, PushStops, SyncOk, SyncFails, AckTruncate,
           AckAppend, AckFsync, AckFails, Exit, PowerCut, PowerCutThenRecover, Rot, vars
  <2>2. PICK n \in 0..Len(file) : WalkStopsAfter(file, n) /\ AdoptPrefix(n)
    BY <2>1 DEF Adopt, Refuse
  <2>3. written' = n
    BY <2>2 DEF AdoptPrefix
  <2>4. QED
    BY <2>2, <2>3, AdoptTold
<1>4. QED
  BY <1>1, <1>2, <1>3, PTL DEF Spec, OneLieIsReported

-----------------------------------------------------------------------------
(* The contract.                                                           *)

\* A walk has one outcome, so a reader of the file finds one log.
LEMMA LogIs ==
    ASSUME NEW c, Len(c) \in Nat, NEW n \in 0..Len(c), WalkStopsAfter(c, n)
    PROVE  LogOf(c) = Ids(c, n)
<1>1. ASSUME NEW m \in 0..Len(c), WalkStopsAfter(c, m)
      PROVE  m = n
  <2>1. ~ (m < n)
    <3>1. m < n => m + 1 \in 1..n
      OBVIOUS
    <3>2. QED
      BY <1>1, <3>1 DEF WalkStopsAfter
  <2>2. ~ (n < m)
    <3>1. n < m => n + 1 \in 1..m
      OBVIOUS
    <3>2. QED
      BY <1>1, <3>1 DEF WalkStopsAfter
  <2>3. QED
    BY <2>1, <2>2
<1>2. (CHOOSE m \in 0..Len(c) : WalkStopsAfter(c, m)) = n
  BY <1>1
<1>3. QED
  BY <1>2 DEF LogOf

\* c is a file of n whole frames, and perhaps a part of another.
Holds(c, n) ==
    /\ n \in Nat
    /\ n # 0 => 2 * n + 2 <= Len(c)
    /\ Len(c) <= 2 * n + 3

\* A file has some number of whole frames.
LEMMA SomeHold ==
    ASSUME NEW c, Len(c) \in Nat
    PROVE  \E n \in Nat : Holds(c, n)
<1>1. PICK L \in Nat : L = Len(c)
  OBVIOUS
<1>2. CASE L < 4
  <2>1. Holds(c, 0)
    BY <1>1, <1>2 DEF Holds
  <2>2. QED
    BY <2>1
<1>3. CASE ~ (L < 4)
  <2> DEFINE n == (L - 2) \div 2
  <2>1. n \in Nat /\ 2 * n + 2 <= L /\ L <= 2 * n + 3
    BY <1>3
  <2>2. Holds(c, n)
    BY <1>1, <2>1 DEF Holds
  <2>3. QED
    BY <2>1, <2>2
<1>4. QED
  BY <1>2, <1>3

\* The log of a well-formed file is the ids of its whole frames.
LEMMA WellLog ==
    ASSUME NEW c \in Seq(Cell), Well(c), NEW n, Holds(c, n)
    PROVE  /\ LogOf(c) = Ids(c, n)
           /\ Ids(c, n) \in Seq(Id) /\ Len(Ids(c, n)) = n
           /\ \A i \in 1..n : Ids(c, n)[i] = c[2 * i + 1].what.id
<1>1. n \in Nat /\ Len(c) \in Nat
  BY DEF Holds
<1>2. \A k \in 1..n : Follows(c, k)
  <2> SUFFICES ASSUME NEW k \in 1..n PROVE Follows(c, k)
    OBVIOUS
  <2>1. k \in Nat \ {0} /\ 2 * k + 2 <= Len(c)
    BY <1>1 DEF Holds
  <2>2. QED
    BY <2>1, WellFollows
<1>3. ~ Follows(c, n + 1)
  <2>1. n + 1 \in Nat \ {0} /\ ~ (2 * (n + 1) + 2 <= Len(c))
    BY <1>1 DEF Holds
  <2>2. QED
    BY <2>1, WellFollows
<1>4. n \in 0..Len(c)
  BY <1>1 DEF Holds
<1>5. WalkStopsAfter(c, n)
  BY <1>2, <1>3 DEF WalkStopsAfter
<1>6. LogOf(c) = Ids(c, n)
  BY <1>1, <1>4, <1>5, LogIs
<1>7. QED
  BY <1>1, <1>5, <1>6, WalkedIds

\* A file that is cut keeps the beginning of its log.
LEMMA CutLog ==
    ASSUME NEW c \in Seq(Cell), Well(c), NEW d \in Seq(Cell), Len(d) <= Len(c),
           \A i \in 1..Len(d) : d[i] = c[i],
           NEW n, Holds(c, n), NEW m, Holds(d, m)
    PROVE  /\ m <= n
           /\ LogOf(d) = SubSeq(LogOf(c), 1, m)
<1>1. n \in Nat /\ m \in Nat /\ Len(c) \in Nat /\ Len(d) \in Nat
  BY DEF Holds
<1>2. m <= n
  BY <1>1 DEF Holds
<1>3. Well(d)
  BY WellPrefix
<1>4. /\ LogOf(c) = Ids(c, n)
      /\ Ids(c, n) \in Seq(Id) /\ Len(Ids(c, n)) = n
      /\ \A i \in 1..n : Ids(c, n)[i] = c[2 * i + 1].what.id
  BY WellLog
<1>5. /\ LogOf(d) = Ids(d, m)
      /\ Ids(d, m) \in Seq(Id) /\ Len(Ids(d, m)) = m
      /\ \A i \in 1..m : Ids(d, m)[i] = d[2 * i + 1].what.id
  BY <1>3, WellLog
<1>6. /\ SubSeq(Ids(c, n), 1, m) \in Seq(Id) /\ Len(SubSeq(Ids(c, n), 1, m)) = m
      /\ \A i \in 1..m : SubSeq(Ids(c, n), 1, m)[i] = Ids(c, n)[i]
  BY <1>1, <1>2, <1>4, PrefixOf
<1>7. \A i \in 1..m : Ids(d, m)[i] = SubSeq(Ids(c, n), 1, m)[i]
  <2> SUFFICES ASSUME NEW i \in 1..m
               PROVE  Ids(d, m)[i] = SubSeq(Ids(c, n), 1, m)[i]
    OBVIOUS
  <2>1. 2 * i + 1 \in 1..Len(d) /\ i \in 1..n
    BY <1>1, <1>2 DEF Holds
  <2>2. QED
    BY <1>4, <1>5, <1>6, <2>1
<1>8. Ids(d, m) = SubSeq(Ids(c, n), 1, m)
  BY <1>5, <1>6, <1>7, SeqEqual
<1>9. QED
  BY <1>2, <1>4, <1>5, <1>8

\* While the watermark is written everything written counts as acknowledged.
AckedAll == InAck => acked = written

\* Every step keeps it: sync counts what it flushed before it writes the watermark.
LEMMA NextAckedAll ==
    ASSUME AckedAll, [Next]_vars
    PROVE  AckedAll'
<1> SUFFICES ASSUME InAck' PROVE acked' = written'
  BY DEF AckedAll
<1>1. CASE \E lie \in BOOLEAN : SyncOk(lie)
  BY <1>1 DEF SyncOk
<1>2. CASE AckTruncate \/ AckAppend
  BY <1>2 DEF AckTruncate, AckAppend, memory, counters, InAck, AckedAll
<1>3. CASE UNCHANGED vars
  BY <1>3 DEF vars, memory, counters, InAck, AckedAll
<1>4. QED
  BY <1>1, <1>2, <1>3
     DEF Next, InAck, Open, Recover, EnsureHeader, Refuse, WriteHeader, OpenFails, Adopt,
         AdoptPrefix, AppendRecord, PushSome, PushRest, PushStops, SyncFails, AckFsync, AckFails,
         SyncReturns, Exit, PowerCut, PowerCutThenRecover, Rot

\* Where the promise changes: sync returns, and recovery.
LEMMA PromiseSteps ==
    ASSUME [Next]_vars
    PROVE  \/ UNCHANGED promise
           \/ InAck /\ SyncReturns /\ UNCHANGED <<file, acked>>
           \/ pc = "adopt" /\ \E n \in 0..Len(file) : WalkStopsAfter(file, n) /\ AdoptPrefix(n)
<1> USE DEF vars, history
<1>1. CASE Open \/ Recover \/ EnsureHeader \/ WriteHeader \/ OpenFails
  BY <1>1 DEF Open, Recover, EnsureHeader, WriteHeader, OpenFails, Refuse
<1>2. CASE Adopt
  BY <1>2 DEF Adopt, Refuse
<1>3. CASE (\E id \in Id : AppendRecord(id)) \/ PushSome \/ PushRest \/ PushStops
  BY <1>3 DEF AppendRecord, PushSome, PushRest, PushStops
<1>4. CASE (\E lie \in BOOLEAN : SyncOk(lie)) \/ SyncFails \/ AckTruncate \/ AckAppend
  BY <1>4 DEF SyncOk, SyncFails, AckTruncate, AckAppend
<1>5. CASE (\E lie \in BOOLEAN : AckFsync(lie)) \/ AckFails
  BY <1>5 DEF AckFsync, AckFails, InAck, disk, memory, counters
<1>6. CASE Exit \/ PowerCut \/ PowerCutThenRecover \/ Rot
  BY <1>6 DEF Exit, PowerCut, PowerCutThenRecover, Rot
<1>7. CASE UNCHANGED vars
  BY <1>7
<1>8. QED
  BY <1>1, <1>2, <1>3, <1>4, <1>5, <1>6, <1>7 DEF Next

\* Every promise is in the log a reader of the file would find.
LEMMA PromiseInLog ==
    ASSUME IndRun, OursInv, NEW n, Holds(file, n)
    PROVE  Len(promise) \in Nat /\ Len(promise) <= n
<1>1. Len(promise) \in Nat /\ durable \in Nat /\ durable <= Len(file) /\ Len(file) \in Nat
  BY DEF IndRun, TypeOK, DiskType, HistoryType
<1>2. promise # <<>> => EndOf(Len(promise)) <= durable
  BY DEF OursInv, PromiseInside
<1>3. promise = <<>> => Len(promise) = 0
  OBVIOUS
<1>4. QED
  BY <1>1, <1>2, <1>3 DEF Holds, EndOf

Log == LogOf(file)
Promises == Len(promise)

\* The steps of JournalContract, on the log of the file.
Same == Log' = Log /\ Promises' = Promises
WritesOne == (\E id \in Id : Log' = Append(Log, id)) /\ Promises' = Promises
Acknowledges == Promises' \in Promises..Len(Log) /\ Log' = Log
LosesTail == (\E n \in Promises..Len(Log) : Log' = SubSeq(Log, 1, n)) /\ Promises' = Promises

\* Cutting the file behind the promised records is the contract's loss of a tail.
LEMMA CutRefines ==
    ASSUME IndRun, IndRun', OursInv, OursInv', Shortened, Promises' = Promises
    PROVE  LosesTail
<1>1. file \in Seq(Cell) /\ file' \in Seq(Cell) /\ Well(file)
  BY DEF IndRun, TypeOK, DiskType, OursInv
<1>2. PICK n \in Nat : Holds(file, n)
  BY <1>1, SomeHold
<1>3. PICK m \in Nat : Holds(file', m)
  BY <1>1, SomeHold
<1>4. m <= n /\ LogOf(file') = SubSeq(LogOf(file), 1, m)
  BY <1>1, <1>2, <1>3, CutLog DEF Shortened
<1>5. Len(LogOf(file)) = n
  BY <1>1, <1>2, WellLog
<1>6. Len(promise') \in Nat /\ Len(promise') <= m
  <2>1. Len(promise') \in Nat /\ durable' \in Nat /\ durable' <= Len(file') /\ Len(file') \in Nat
    BY DEF IndRun, TypeOK, DiskType, HistoryType
  <2>2. promise' # <<>> => EndOf(Len(promise')) <= durable'
    BY DEF OursInv, PromiseInside
  <2>3. promise' = <<>> => Len(promise') = 0
    OBVIOUS
  <2>4. QED
    BY <1>3, <2>1, <2>2, <2>3 DEF Holds, EndOf
<1>7. m \in Promises..Len(Log)
  BY <1>4, <1>5, <1>6 DEF Promises, Log
<1>8. QED
  BY <1>4, <1>7 DEF LosesTail, Log

\* Writing the header changes nothing the contract sees.
LEMMA HeaderRefines ==
    ASSUME IndRun, IndRun', WriteHeader
    PROVE  LogOf(file') = LogOf(file)
<1>1. Len(file) \in Nat /\ Len(file') \in Nat /\ Len(file) <= 2 /\ Len(file') <= 2
  <2>1. Len(file) < 2 /\ Len(file) \in Nat /\ Len(file') \in Nat
    BY DEF WriteHeader, IndRun, RunInv, TypeOK, DiskType
  <2>2. QED
    BY <2>1, WriteHeaderFile
<1>2. ASSUME NEW c, Len(c) \in Nat, Len(c) <= 2
      PROVE  LogOf(c) = <<>>
  <2>1. ~ Follows(c, 1)
    BY <1>2 DEF Follows, ParsesAt
  <2>2. WalkStopsAfter(c, 0) /\ 0 \in 0..Len(c)
    BY <1>2, <2>1 DEF WalkStopsAfter
  <2>3. LogOf(c) = Ids(c, 0)
    BY <1>2, <2>2, LogIs
  <2>4. QED
    BY <2>3 DEF Ids
<1>3. QED
  BY <1>1, <1>2

\* Half a frame is not in the log; the rest of it puts it there.
LEMMA PushRefines ==
    ASSUME IndRun, IndRun', PushSome \/ PushRest
    PROVE  \/ LogOf(file') = LogOf(file)
           \/ \E id \in Id : LogOf(file') = Append(LogOf(file), id)
<1>1. /\ file \in Seq(Cell) /\ file' \in Seq(Cell) /\ Well(file) /\ Well(file')
      /\ written \in Nat /\ pc = "push" /\ head = Ids(file, written)
      /\ Len(file) = 2 * written + 2 + pending[1].done /\ pending[1].done \in 0..1
      /\ pending[1].frame \in Frame /\ pending[1].frame.prev = head
      /\ pending[1].frame.seq = written + 1
  <2>1. pc = "push" /\ Running'
    BY DEF PushSome, PushRest, Running
  <2>2. RunningInv'
    BY <2>1 DEF IndRun, RunInv
  <2>3. QED
    BY <2>1, <2>2, PendingFacts DEF IndRun, TypeOK, DiskType, RunningInv
<1>2. Holds(file, written)
  BY <1>1 DEF Holds
<1>3. LogOf(file) = head
  BY <1>1, <1>2, WellLog
<1>4. CASE PushSome
  <2>1. Len(file') = 2 * written + 3
    BY <1>4, PushSomeFile
  <2>2. Holds(file', written)
    BY <1>1, <2>1 DEF Holds
  <2>3. LogOf(file') = Ids(file', written)
    BY <1>1, <2>2, WellLog
  <2>4. head' = Ids(file', written') /\ head' = head /\ written' = written
    <3>1. Running'
      BY <1>4 DEF PushSome, Running
    <3>2. QED
      BY <1>4, <3>1 DEF PushSome, counters, IndRun, RunInv, RunningInv
  <2>5. QED
    BY <1>3, <2>3, <2>4
<1>5. CASE PushRest
  <2>1. /\ head' = Ids(file', written') /\ written' = written + 1 /\ pending' = <<>>
        /\ Len(file') = EndOf(written')
        /\ head' = Append(head, pending[1].frame.id)
    <3>1. Running'
      BY <1>5 DEF PushRest, Running
    <3>2. pending' = <<>> /\ written' = written + 1 /\ head' = Append(head, pending[1].frame.id)
      BY <1>1, <1>5 DEF PushRest
    <3>3. QED
      BY <1>1, <3>1, <3>2 DEF IndRun, RunInv, RunningInv, EndOf
  <2>2. Holds(file', written + 1)
    BY <1>1, <2>1 DEF Holds, EndOf
  <2>3. LogOf(file') = Ids(file', written + 1)
    BY <1>1, <2>2, WellLog
  <2>4. pending[1].frame.id \in Id
    BY <1>1 DEF Frame
  <2>5. QED
    BY <1>3, <2>1, <2>3, <2>4
<1>6. QED
  BY <1>4, <1>5

\* sync returns: everything in the log is promised, and nothing else.
LEMMA SyncRefines ==
    ASSUME IndRun, OursInv, AckedAll, InAck, SyncReturns, UNCHANGED <<file, acked>>
    PROVE  Acknowledges
<1>1. /\ file \in Seq(Cell) /\ Well(file) /\ written \in Nat /\ acked = written
      /\ head = Ids(file, written) /\ Len(head) = written /\ head \in Seq(Id)
      /\ Len(file) >= 2 * written + 2 /\ Len(file) <= 2 * written + 3 /\ Len(file) \in Nat
  <2>1. Running
    BY DEF InAck, Running
  <2>2. RunningInv
    BY <2>1 DEF IndRun, RunInv
  <2>3. pending # <<>> => pending[1].done \in 0..1
    <3>1. pending \in Seq([frame : Frame, done : 0..1])
      BY DEF IndRun, TypeOK, ProcessType
    <3>2. pending # <<>> => pending[1] \in [frame : Frame, done : 0..1]
      BY <3>1, Singleton DEF IndRun, TypeOK, ProcessType
    <3>3. QED
      BY <3>1, <3>2
  <2>4. file \in Seq(Cell) /\ written \in Nat /\ head \in Seq(Id)
    BY DEF IndRun, TypeOK, DiskType, ProcessType
  <2>5. QED
    BY <2>2, <2>3, <2>4 DEF RunningInv, EndOf, AckedAll
<1>2. Holds(file, written)
  BY <1>1 DEF Holds
<1>3. LogOf(file) = head
  BY <1>1, <1>2, WellLog
<1>4. Len(promise) \in Nat /\ Len(promise) <= written
  BY <1>2, PromiseInLog
<1>5. Len(promise') = written
  BY <1>1, PrefixOf DEF SyncReturns
<1>6. QED
  BY <1>1, <1>3, <1>4, <1>5 DEF Acknowledges, Log, Promises

\* Every step of the journal is a step of its contract, or changes nothing there.
LEMMA StepRefines ==
    ASSUME MaxLies = 0, MaxRot = 0, IndRun, IndRun', HonestInv, HonestInv', AckedAll, [Next]_vars
    PROVE  Same \/ WritesOne \/ Acknowledges \/ LosesTail
<1>1. HonestDisk /\ HonestDisk' /\ ~ Rot
  BY DEF IndRun, TypeOK, HistoryType, HonestDisk, Rot
<1>2. CASE ForeignInv
  <2>1. SomebodyElses /\ rots' = 0
    BY <1>1, <1>2 DEF ForeignInv, SomebodyElses, HonestDisk
  <2>2. UNCHANGED file
    BY <2>1, ForeignStays
  <2>3. UNCHANGED promise
    BY <1>2, PromiseSteps DEF ForeignInv, InAck
  <2>4. QED
    BY <2>2, <2>3 DEF Same, Log, Promises
<1>3. CASE OursInv
  <2>0. OursInv'
    <3>1. CASE ForeignInv'
      <4>1. file' \in {Foreign(OtherOwner), Foreign(NotJournal)}
        BY <3>1 DEF ForeignInv
      <4>2. Len(file') = 2 /\ "Ours" \notin DecodeHeader(file')
        BY <4>1, ForeignFile
      <4>3. Well(file') /\ file' \in Seq(Cell)
        BY <1>1, <1>3, WellStays DEF OursInv, IndRun, TypeOK, DiskType
      <4>4. QED
        BY <4>2, <4>3, OursDecodes
    <3>2. QED
      BY <1>1, <3>1 DEF HonestInv
  <2>1. CASE InAck /\ SyncReturns /\ UNCHANGED <<file, acked>>
    BY <1>3, <2>1, SyncRefines
  <2>2. CASE pc = "adopt" /\ \E n \in 0..Len(file) : WalkStopsAfter(file, n) /\ AdoptPrefix(n)
    <3>1. PICK n \in 0..Len(file) : WalkStopsAfter(file, n) /\ AdoptPrefix(n)
      BY <2>2
    <3>2. Shortened
      BY <2>2, <3>1, AdoptShortens
    <3>3. Len(promise) \in Nat /\ promise \in Seq(Id) /\ n \in Nat
      BY <3>1 DEF IndRun, TypeOK, HistoryType
    <3>4. Inside(Len(promise), durable)
      BY <1>3, <3>3 DEF OursInv, PromiseInside, Inside
    <3>5. Len(promise) <= n
      BY <1>3, <2>2, <3>1, <3>3, <3>4, WalkIsWhole DEF OursInv
    <3>6. promise' = SubSeq(promise, 1, Len(promise))
      <4>1. promise' = SubSeq(promise, 1, IF Len(promise) < n THEN Len(promise) ELSE n)
        BY <3>1 DEF AdoptPrefix
      <4>2. (IF Len(promise) < n THEN Len(promise) ELSE n) = Len(promise)
        BY <3>3, <3>5
      <4>3. QED
        BY <4>1, <4>2
    <3>7. Promises' = Promises
      BY <3>3, <3>6, PrefixOf DEF Promises
    <3>8. QED
      BY <1>3, <2>0, <3>2, <3>7, CutRefines
  <2>3. CASE UNCHANGED promise
    <3>1. Promises' = Promises
      BY <2>3 DEF Promises
    <3>2. CASE UNCHANGED file
      BY <3>1, <3>2 DEF Same, Log
    <3>3. CASE Shortened
      BY <1>3, <2>0, <3>1, <3>3, CutRefines
    <3>4. CASE WriteHeader
      BY <3>1, <3>4, HeaderRefines DEF Same, Log
    <3>5. CASE PushSome \/ PushRest
      BY <3>1, <3>5, PushRefines DEF Same, WritesOne, Log
    <3>6. QED
      BY <1>1, <3>2, <3>3, <3>4, <3>5, FileSteps
  <2>4. QED
    BY <2>1, <2>2, <2>3, PromiseSteps
<1>4. QED
  BY <1>1, <1>2, <1>3 DEF HonestInv

\* On a device that neither lies nor rots (docs/durability.md's assumption) the journal,
\* torn writes, restarts and watermark file included, is the log of its contract: it
\* grows at its end, a crash takes a suffix, and never anything acknowledged.
THEOREM KeepsContract ==
    ASSUME MaxLies = 0, MaxRot = 0
    PROVE  Spec => ImplementsContract
<1> DEFINE Inv == IndRun /\ HonestInv /\ AckedAll
<1>1. Init => Inv
  BY InitRun, InitHonest DEF Init, AckedAll
<1>2. Inv /\ [Next]_vars => Inv'
  BY NextRun, NextHonest, NextAckedAll
<1>3. Init => Contract!Init
  <2> SUFFICES ASSUME Init PROVE LogOf(file) = <<>> /\ Len(promise) = 0
    BY DEF Contract!Init
  <2>1. Len(file) \in Nat /\ Len(file) <= 2
    <3>1. file = <<>> \/ file \in {Foreign(OtherOwner), Foreign(NotJournal)}
      BY DEF Init
    <3>2. file = <<>> => Len(file) = 0
      OBVIOUS
    <3>3. file \in {Foreign(OtherOwner), Foreign(NotJournal)} => Len(file) = 2
      BY ForeignFile
    <3>4. Len(file) \in {0, 2}
      BY <3>1, <3>2, <3>3
    <3>5. \A n \in {0, 2} : n \in Nat /\ n <= 2
      OBVIOUS
    <3>6. QED
      BY <3>4, <3>5
  <2>2. ~ Follows(file, 1)
    BY <2>1 DEF Follows, ParsesAt
  <2>3. WalkStopsAfter(file, 0) /\ 0 \in 0..Len(file)
    BY <2>1, <2>2 DEF WalkStopsAfter
  <2>4. LogOf(file) = Ids(file, 0)
    BY <2>1, <2>3, LogIs
  <2>5. QED
    BY <2>4 DEF Ids, Init
<1>4. Inv /\ Inv' /\ [Next]_vars => [Contract!Next]_<<LogOf(file), Len(promise)>>
  BY StepRefines
     DEF Same, WritesOne, Acknowledges, LosesTail, Log, Promises, Contract!Next,
         Contract!Write, Contract!Acknowledge, Contract!Lose
<1>5. QED
  BY <1>1, <1>2, <1>3, <1>4, PTL DEF Spec, ImplementsContract, Contract!Spec
=============================================================================
