------------------------------- MODULE Index -------------------------------
(***************************************************************************)
(* Proofs of completeness: a range answer over a sorted index with the     *)
(* evidence that nothing was left out, and the composition of such answers *)
(* over the segments of a shard and the shards of a store; and what they   *)
(* rest on, Merkle trees of the RFC 6962 shape with inclusion and          *)
(* consistency proofs and the two loops that check them.                   *)
(*                                                                         *)
(* A hash is the term it was made from: no two terms collide, which is     *)
(* what SHA-384 is trusted for, and the first component is the domain      *)
(* prefix.  Sequences start at 1, so leaf i of the code is leaves[i + 1].  *)
(* A record is a time, a sequence number and a chain link; the dimension   *)
(* is the time, the one with exclusions.  Keys are numbers.  An absent     *)
(* boundary or span is the empty set, a present one a singleton.           *)
(***************************************************************************)
EXTENDS Integers, Sequences, FiniteSets, SequencesExt

-----------------------------------------------------------------------------
(* Merkle trees.                                                           *)

EmptyRoot == <<2>>
LeafHash(data) == <<0, data>>
NodeHash(left, right) == <<1, left, right>>

\* split: the largest power of two strictly below n, for n >= 2.
SplitAt(n) == CHOOSE k \in {1, 2, 4, 8, 16} : k < n /\ n <= 2 * k

RECURSIVE Mth(_)
Mth(leaves) ==
    CASE Len(leaves) = 0 -> EmptyRoot
      [] Len(leaves) = 1 -> leaves[1]
      [] OTHER -> LET k == SplitAt(Len(leaves)) IN
                  NodeHash(Mth(SubSeq(leaves, 1, k)), Mth(SubSeq(leaves, k + 1, Len(leaves))))

\* MerkleTree::path: the siblings of leaf m, the lowest first.
RECURSIVE SiblingPath(_, _)
SiblingPath(leaves, m) ==
    IF Len(leaves) <= 1 THEN <<>>
    ELSE LET k     == SplitAt(Len(leaves))
             left  == SubSeq(leaves, 1, k)
             right == SubSeq(leaves, k + 1, Len(leaves))
         IN  IF m < k THEN Append(SiblingPath(left, m), Mth(right))
             ELSE Append(SiblingPath(right, m - k), Mth(left))

InclusionProof(leaves, index) ==
    [index |-> index, size |-> Len(leaves), path |-> SiblingPath(leaves, index)]

\* MerkleTree::subproof: whole is TRUE while the old tree is itself a node.
RECURSIVE Subproof(_, _, _)
Subproof(leaves, m, whole) ==
    LET n == Len(leaves) IN
    IF m = n THEN IF whole THEN <<>> ELSE <<Mth(leaves)>>
    ELSE LET k     == SplitAt(n)
             left  == SubSeq(leaves, 1, k)
             right == SubSeq(leaves, k + 1, n)
         IN  IF m <= k THEN Append(Subproof(left, m, whole), Mth(right))
             ELSE Append(Subproof(right, m - k, FALSE), Mth(left))

ConsistencyProof(leaves, oldSize) ==
    [old |-> oldSize, new |-> Len(leaves), nodes |-> Subproof(leaves, oldSize, TRUE)]

-----------------------------------------------------------------------------
(* The checks.  Odd is the low bit, \div 2 the shift.                      *)

Odd(n) == n % 2 = 1

\* The inner shifts of the climb: up the right spine to where the path turns.
RECURSIVE SkipSpine(_, _)
SkipSpine(fn, sn) ==
    IF Odd(fn) \/ fn = 0 THEN <<fn, sn>> ELSE SkipSpine(fn \div 2, sn \div 2)

\* InclusionProof::recompute from a leaf: the root it leads to, <<>> for a path
\* of another length than the shape demands.
RECURSIVE Climb(_, _, _, _)
Climb(acc, fn, sn, path) ==
    IF sn = 0 THEN IF path = <<>> THEN acc ELSE <<>>
    ELSE IF path = <<>> THEN <<>>
    ELSE IF Odd(fn) \/ fn = sn
    THEN LET s == SkipSpine(fn, sn) IN
         Climb(NodeHash(Head(path), acc), s[1] \div 2, s[2] \div 2, Tail(path))
    ELSE Climb(NodeHash(acc, Head(path)), fn \div 2, sn \div 2, Tail(path))

\* InclusionProof::verify_at: position and size are the caller's.
VerifyAt_OwnShape(proof, leaf, root, index, size) ==
    proof.index < proof.size /\ Climb(leaf, proof.index, proof.size - 1, proof.path) = root
VerifyAt(proof, leaf, root, index, size) ==
    /\ proof.index = index /\ proof.size = size /\ index < size
    /\ Climb(leaf, index, size - 1, proof.path) = root

\* ConsistencyProof::recompute after its start: the pair of roots the nodes lead
\* to from the accumulators fr and sr, <<>> when nodes run out or are left over.
RECURSIVE ClimbBoth(_, _, _, _, _)
ClimbBoth(fr, sr, node, last, nodes) ==
    IF node = 0 /\ last = 0 THEN IF nodes = <<>> THEN <<fr, sr>> ELSE <<>>
    ELSE IF node > 0 /\ ~Odd(node) /\ node >= last
    THEN ClimbBoth(fr, sr, node \div 2, last \div 2, nodes)
    ELSE IF nodes = <<>> THEN <<>>
    ELSE IF Odd(node)
    THEN ClimbBoth(NodeHash(Head(nodes), fr), NodeHash(Head(nodes), sr),
                   node \div 2, last \div 2, Tail(nodes))
    ELSE ClimbBoth(fr, NodeHash(sr, Head(nodes)), node \div 2, last \div 2, Tail(nodes))

\* The nodes of the right spine of the old tree are implied, not sent.
RECURSIVE OutOfSpine(_, _)
OutOfSpine(node, last) ==
    IF Odd(node) THEN OutOfSpine(node \div 2, last \div 2) ELSE <<node, last>>

\* ConsistencyProof::verify_between: both sizes are the caller's.
VerifyBetween(proof, oldRoot, oldSize, newRoot, newSize) ==
    /\ proof.old = oldSize /\ proof.new = newSize
    /\ oldSize > 0 /\ oldSize <= newSize
    /\ IF oldSize = newSize THEN proof.nodes = <<>> /\ oldRoot = newRoot
       ELSE LET s     == OutOfSpine(oldSize - 1, newSize - 1)
                given == s[1] = 0
                first == IF given THEN oldRoot ELSE Head(proof.nodes)
                rest  == IF given THEN proof.nodes ELSE Tail(proof.nodes)
            IN  /\ given \/ proof.nodes # <<>>
                /\ ClimbBoth(first, first, s[1], s[2], rest) = <<oldRoot, newRoot>>

-----------------------------------------------------------------------------
(* What a verifier may conclude.                                           *)

Leaves(n) == [i \in 1..n |-> LeafHash(i)]

RECURSIVE NodesOf(_)
NodesOf(leaves) ==
    IF Len(leaves) <= 1 THEN {Mth(leaves)}
    ELSE LET k == SplitAt(Len(leaves)) IN
         {Mth(leaves)} \cup NodesOf(SubSeq(leaves, 1, k))
                       \cup NodesOf(SubSeq(leaves, k + 1, Len(leaves)))

\* The proof the tree makes is accepted; and of all the paths one could make of
\* the nodes of the tree, for any leaf and any position of its own, only one for
\* the leaf that is at the caller's position is accepted.
InclusionAgrees(n, index) ==
    LET leaves == Leaves(n)
        root   == Mth(leaves)
    IN  /\ VerifyAt(InclusionProof(leaves, index), leaves[index + 1], root, index, n)
        /\ \A leaf \in NodesOf(leaves), own \in 0..n, size \in 1..n,
              path \in SeqOf(NodesOf(leaves), 2) :
              VerifyAt([index |-> own, size |-> size, path |-> path], leaf, root, index, n)
                 => leaf = leaves[index + 1]

\* A history of the same shape whose entry x was rewritten.
Rewritten(n, x) == [Leaves(n) EXCEPT ![x] = LeafHash(100)]

\* The proof between two sizes of one log is accepted, and none made of the
\* nodes of both logs is accepted for an old root that is of another history.
ConsistencyAgrees(m, n) ==
    /\ VerifyBetween(ConsistencyProof(Leaves(n), m), Mth(Leaves(m)), m, Mth(Leaves(n)), n)
    /\ \A x \in 1..m :
          \A nodes \in SeqOf(NodesOf(Leaves(n)) \cup NodesOf(Rewritten(m, x)), 2)
                         \cup {ConsistencyProof(Leaves(n), m).nodes,
                               ConsistencyProof(Rewritten(n, x), m).nodes} :
             ~VerifyBetween([old |-> m, new |-> n, nodes |-> nodes],
                            Mth(Rewritten(m, x)), m, Mth(Leaves(n)), n)

-----------------------------------------------------------------------------
(* Ranges of a sorted index.                                               *)

Entry(r) == [key |-> r.at, seq |-> r.seq, link |-> r.link]
EntryHash(e) == LeafHash(<<e.key, e.seq, e.link>>)

Before(a, b) == a.key < b.key \/ (a.key = b.key /\ a.seq < b.seq)

\* SortedIndex::build: by key, the sequence number breaking ties.
SortedIndex(records) == SortSeq([i \in DOMAIN records |-> Entry(records[i])], Before)
IndexLeaves(entries) == [i \in DOMAIN entries |-> EntryHash(entries[i])]

\* SortedIndex::first_duplicate_position.
HasDuplicatePosition(entries) ==
    \E i \in 1..(Len(entries) - 1) : ~Before(entries[i], entries[i + 1])

\* An entry at a position (from 0) with the proof that it is there.
Located(entries, i) ==
    [entry |-> entries[i + 1], proof |-> InclusionProof(IndexLeaves(entries), i)]

\* SortedIndex::range: the entries between the bounds and the two beside them; a
\* reversed range is an empty answer.
RangeAnswer(entries, lo, hi) ==
    LET size  == Len(entries)
        first == Cardinality({i \in 1..size : entries[i].key < lo})
        past  == Cardinality({i \in 1..size : entries[i].key <= hi})
        after == IF past < first THEN first ELSE past
    IN  [size |-> size, first |-> first,
         entries |-> [k \in 1..(after - first) |-> Located(entries, first + k - 1)],
         left |-> {Located(entries, i) : i \in {first - 1} \cap (0..size)},
         right |-> {Located(entries, i) : i \in {after} \cap (0..(size - 1))}]

InIndex(l, root, at, size) == VerifyAt(l.proof, EntryHash(l.entry), root, at, size)

\* The entry before the answer sits strictly below the range.
BoundsLeft_AtMost(l, lo) == l.entry.key <= lo
BoundsLeft(l, lo) == l.entry.key < lo

\* CompletenessProof::verify: the size is the caller's, from a committed
\* manifest; positions without a gap, keys in range and in order, and on each
\* side the edge of the index or an entry beyond the bound.
VerifyRange(answer, lo, hi, root, size) ==
    LET n     == Len(answer.entries)
        after == answer.first + n
    IN  /\ answer.size = size
        /\ size = 0 => root = EmptyRoot /\ n = 0 /\ answer.first = 0
                       /\ answer.left = {} /\ answer.right = {}
        /\ size > 0 =>
              /\ \A k \in 1..n :
                    /\ InIndex(answer.entries[k], root, answer.first + k - 1, size)
                    /\ answer.entries[k].entry.key \in lo..hi
                    /\ k > 1 => Before(answer.entries[k - 1].entry, answer.entries[k].entry)
              /\ answer.left = {} <=> answer.first = 0
              /\ \A l \in answer.left :
                    InIndex(l, root, answer.first - 1, size) /\ BoundsLeft(l, lo)
              /\ answer.right = {} <=> after = size
              /\ \A r \in answer.right :
                    InIndex(r, root, after, size) /\ r.entry.key > hi

-----------------------------------------------------------------------------
(* Segments, shards and the store.                                         *)

\* Segment::seal: no seal when two entries hold one position.
SealSegmentOf(shard, records) ==
    LET index == SortedIndex(records) IN
    [sealable |-> ~HasDuplicatePosition(index), index |-> index,
     manifest |-> [shard |-> shard, records |-> Len(records),
                   history |-> Mth([i \in DOMAIN records |-> LeafHash(records[i].link)]),
                   timeRoot |-> Mth(IndexLeaves(index))]]

ManifestRoot(m) == <<3, m.shard, m.records, m.history, m.timeRoot>>
SegmentLeaf(m) == LeafHash(ManifestRoot(m))

ShardRoot(manifests) == Mth([i \in DOMAIN manifests |-> SegmentLeaf(manifests[i])])

\* shard_leaf: the segment count beside the root.
ShardLeaf(shard, count, root) == LeafHash(<<4, shard, count, root>>)

\* Segment::time_span: the first and the last entry of the time index.
TimeSpan(index) ==
    IF index = <<>> THEN {}
    ELSE {[min |-> Located(index, 0), max |-> Located(index, Len(index) - 1)]}

\* What one segment contributes: an answer, or the proof that it lies outside.
Contribution(segment, place, siblings, lo, hi) ==
    LET outside == segment.index = <<>> \/ segment.index[Len(segment.index)].key < lo
                     \/ segment.index[1].key > hi
    IN  [manifest |-> segment.manifest,
         proof |-> InclusionProof([i \in DOMAIN siblings |-> SegmentLeaf(siblings[i].manifest)],
                                  place - 1),
         answers |-> IF outside THEN {} ELSE {RangeAnswer(segment.index, lo, hi)},
         span |-> IF outside THEN TimeSpan(segment.index) ELSE {}]

\* A store-wide answer: every shard, every segment of it.
Composite(store, lo, hi) ==
    LET manifests(s) == [i \in DOMAIN store[s] |-> store[s][i].manifest]
        leaf(s) == ShardLeaf(s, Len(store[s]), ShardRoot(manifests(s)))
        leaves  == [s \in DOMAIN store |-> leaf(s)]
    IN  [root |-> Mth(leaves),
         shards |-> [s \in DOMAIN store |->
            [shard |-> s, root |-> ShardRoot(manifests(s)), count |-> Len(store[s]),
             proof |-> InclusionProof(leaves, s - 1),
             segments |-> [i \in DOMAIN store[s] |->
                             Contribution(store[s][i], i, store[s], lo, hi)]]]]

\* CompositeProof::verify, one segment: excluded ones by the proved extremes of
\* their time index, or by a committed emptiness.
SegmentHolds(c, lo, hi) ==
    LET size == c.manifest.records
        root == c.manifest.timeRoot
    IN  IF c.answers # {}
        THEN \A a \in c.answers : VerifyRange(a, lo, hi, root, size)
        ELSE IF c.span = {} THEN size = 0 /\ root = EmptyRoot
        ELSE \A s \in c.span :
                /\ InIndex(s.min, root, 0, size)
                /\ InIndex(s.max, root, IF size = 0 THEN 0 ELSE size - 1, size)
                /\ s.max.entry.key < lo \/ s.min.entry.key > hi

\* CompositeProof::verify: the number of shards is the caller's.
VerifyComposite(shards, lo, hi, storeRoot, shardsInStore) ==
    /\ Len(shards) = shardsInStore
    /\ \A i \in DOMAIN shards :
          LET sc == shards[i] IN
          /\ VerifyAt(sc.proof, ShardLeaf(sc.shard, sc.count, sc.root), storeRoot,
                      i - 1, shardsInStore)
          /\ Len(sc.segments) = sc.count
          /\ \A j \in DOMAIN sc.segments :
                LET c == sc.segments[j] IN
                /\ c.manifest.shard = sc.shard
                /\ VerifyAt(c.proof, SegmentLeaf(c.manifest), sc.root, j - 1, sc.count)
                /\ SegmentHolds(c, lo, hi)

-----------------------------------------------------------------------------
(* What a verifier may conclude.                                           *)

AnswerLinks(answer) == {l.entry.link : l \in ToSet(answer.entries)}
InRange(records, lo, hi) == {r.link : r \in {r \in ToSet(records) : r.at \in lo..hi}}

\* Answers somebody might give: positions of this index or of another one, any
\* starting point, any boundaries, any size.
ClaimedAnswers(index, other) ==
    LET places == {Located(index, i) : i \in 0..(Len(index) - 1)}
                    \cup {Located(other, i) : i \in 0..(Len(other) - 1)}
        sides  == {{}} \cup {{l} : l \in places}
    IN  [size : {0, Len(index)}, first : 0..Len(index), entries : SeqOf(places, 2),
         left : sides, right : sides]

\* The answer the index makes is accepted, and any answer that is accepted holds
\* exactly the records in the range.
CompletenessAgrees(records, lo, hi) ==
    LET index == SortedIndex(records)
        root  == Mth(IndexLeaves(index))
        other == SortedIndex(<<[at |-> lo, seq |-> 9, link |-> 9]>>)
    IN  ~HasDuplicatePosition(index) =>
          /\ VerifyRange(RangeAnswer(index, lo, hi), lo, hi, root, Len(records))
          /\ \A answer \in ClaimedAnswers(index, other) :
                VerifyRange(answer, lo, hi, root, Len(records)) =>
                   AnswerLinks(answer) = InRange(records, lo, hi)

\* Ways a store-wide answer may be altered on the way.
AlteredSegments(segments) ==
    {segments, Tail(segments), Reverse(segments)}
      \cup {[segments EXCEPT ![i].answers = {}] : i \in DOMAIN segments}
      \cup {[segments EXCEPT ![i].answers = {}, ![i].span = s] :
              i \in DOMAIN segments, s \in {segments[k].span : k \in DOMAIN segments}}
      \cup {[segments EXCEPT ![i] = segments[k]] : i, k \in DOMAIN segments}
AlteredComposites(shards) ==
    {shards, Reverse(shards), Tail(shards)}
      \cup {[shards EXCEPT ![s].segments = a] :
              s \in DOMAIN shards, a \in UNION {AlteredSegments(shards[k].segments) :
                                                   k \in {k \in DOMAIN shards : shards[k].segments # <<>>}}}
      \cup {[shards EXCEPT ![s].segments = <<>>, ![s].count = 0] : s \in DOMAIN shards}

\* A store-wide answer is accepted as it was made, and an altered one that is
\* accepted still holds every record in the range, in every shard.
CompositionAgrees(store, lo, hi) ==
    LET made == Composite(store, lo, hi)
        Links(shards) == UNION {UNION {UNION {AnswerLinks(a) : a \in c.answers} :
                                         c \in ToSet(sc.segments)} : sc \in ToSet(shards)}
        wanted == UNION {UNION {{e.link : e \in {e \in ToSet(store[s][i].index) : e.key \in lo..hi}} :
                                  i \in DOMAIN store[s]} : s \in DOMAIN store}
    IN  /\ VerifyComposite(made.shards, lo, hi, made.root, Len(store))
        /\ \A shards \in AlteredComposites(made.shards) :
              VerifyComposite(shards, lo, hi, made.root, Len(store)) => Links(shards) = wanted
=============================================================================
