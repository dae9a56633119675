------------------------------- MODULE Query -------------------------------
(***************************************************************************)
(* The read surface over sealed segments: a query on one sorted dimension  *)
(* with filters and an as-of bound, and the reconstruction of what led to  *)
(* a run, which is many such queries.                                      *)
(*                                                                         *)
(* A record here is its identity, its run and parent run, the identities   *)
(* it names as causes, the time it was recorded at, a severity, and        *)
(* whether it is a note of the store about a loss (a failed StoreEvent).   *)
(* Keys are numbers in every dimension, 0 for an absent parent run.  What  *)
(* a range proof commits to is module Index's subject.                     *)
(***************************************************************************)
EXTENDS Integers, Sequences, FiniteSets, SequencesExt

\* Dimension: the key a record has in it.
QueryKey(dimension, r) ==
    CASE dimension = "recorded_at" -> r.at
      [] dimension = "run_id"      -> r.run
      [] dimension = "id"          -> r.id

\* Filter::matches.
FilterMatches(filter, r) ==
    CASE filter.on = "severity"     -> r.severity = filter.value
      [] filter.on = "min_severity" -> r.severity >= filter.value
      [] filter.on = "verdict"      -> r.note = filter.value

Forever == 1000
Point(dimension, key) ==
    [dimension |-> dimension, lo |-> key, hi |-> key, filters |-> <<>>, asOf |-> Forever]

\* Query::effective_hi: on the time dimension as_of is a tighter bound.
EffectiveHi(q) ==
    IF q.dimension = "recorded_at" /\ q.asOf < q.hi THEN q.asOf ELSE q.hi

\* What of an answer no proof covers: every filter applied, and an as_of beside
\* another dimension.
Unproved_AsOfCovered(q) == {q.filters[i].on : i \in DOMAIN q.filters}
Unproved(q) ==
    {q.filters[i].on : i \in DOMAIN q.filters}
      \cup (IF q.asOf # Forever /\ q.dimension # "recorded_at" THEN {"as_of"} ELSE {})

\* query_segment: the range of the index, then as_of on another dimension, then
\* the filters, each of which is named among what is not proved.
QuerySegment(segment, q) ==
    LET inRange == SelectSeq(segment, LAMBDA r : QueryKey(q.dimension, r)
                                                   \in q.lo..EffectiveHi(q))
        onTime  == SelectSeq(inRange, LAMBDA r : q.dimension = "recorded_at" \/ r.at <= q.asOf)
        kept    == SelectSeq(onTime, LAMBDA r : \A i \in DOMAIN q.filters :
                                                   FilterMatches(q.filters[i], r))
    IN  [records |-> kept, matched |-> Len(inRange),
         unproved |-> Unproved(q)]

-----------------------------------------------------------------------------
(* reconstruct.                                                            *)

OutsideSegments == "a caused_by edge points outside these segments"
LossRecorded == "the store recorded a loss against this run"

\* The hops a record just proved gives rise to: its parent run, unless that run
\* was asked about, and its causes, unless they are held.
HopsOf(r, held, runs) ==
    (IF r.parentRun = 0 \/ r.parentRun \in runs THEN <<>>
     ELSE <<[kind |-> "run_id", key |-> r.parentRun, from |-> r.id]>>)
    \o [i \in DOMAIN SelectSeq(r.causes, LAMBDA c : c \notin held) |->
          [kind |-> "id", key |-> SelectSeq(r.causes, LAMBDA c : c \notin held)[i],
           from |-> r.id]]

\* One record of a hop's answer: known ones are passed over, one past the bound
\* stops the walk, any other is kept and its own hops are queued.
TakeRecord(walk, r, bounds) ==
    IF walk.stopped # "exhausted" \/ r.id \in walk.held THEN walk
    ELSE IF Len(walk.records) >= bounds.records
    THEN [walk EXCEPT !.stopped = "record limit", !.held = @ \cup {r.id}]
    ELSE LET hops == HopsOf(r, walk.held \cup {r.id}, walk.runs) IN
         [walk EXCEPT !.held = @ \cup {r.id},
                      !.records = Append(@, r),
                      !.runs = @ \cup {h.key : h \in {h \in ToSet(hops) : h.kind = "run_id"}},
                      !.hops = @ \o hops,
                      !.queue = @ \o hops,
                      !.unproved = @ \cup (IF r.note THEN {LossRecorded} ELSE {})]

\* One hop: every segment is asked, and an edge to a record no segment holds
\* leaves the closure short of a proof.
TakeHop(walk, segments, bounds) ==
    LET hop     == Head(walk.queue)
        answers == [i \in DOMAIN segments |->
                      QuerySegment(segments[i], Point(hop.kind, hop.key))]
        found   == FlattenSeq([i \in DOMAIN answers |-> answers[i].records])
        unmet   == hop.kind = "id" /\ \A i \in DOMAIN found : found[i].id # hop.key
        asked   == [walk EXCEPT !.queue = Tail(@), !.taken = @ + 1,
                                !.unproved = @ \cup UNION {answers[i].unproved : i \in DOMAIN answers}
                                               \cup (IF unmet THEN {OutsideSegments} ELSE {})]
    IN  FoldLeft(LAMBDA w, r : TakeRecord(w, r, bounds), asked, found)

RECURSIVE WalkOn(_, _, _)
WalkOn(walk, segments, bounds) ==
    IF walk.queue = <<>> \/ walk.stopped # "exhausted" THEN walk
    ELSE IF walk.taken >= bounds.hops THEN [walk EXCEPT !.stopped = "hop limit"]
    ELSE WalkOn(TakeHop(walk, segments, bounds), segments, bounds)

Reconstruct(segments, run, bounds) ==
    LET root == [kind |-> "run_id", key |-> run, from |-> 0] IN
    WalkOn([queue |-> <<root>>, hops |-> <<root>>, taken |-> 0, stopped |-> "exhausted",
            records |-> <<>>, held |-> {}, runs |-> {run}, unproved |-> {}],
           segments, bounds)

\* Reconstruction::is_complete.
IsComplete(walk) == walk.unproved = {} /\ walk.stopped = "exhausted"

-----------------------------------------------------------------------------
(* What a reader may conclude.                                             *)

\* An answer holds exactly the records that match everything asked; it calls
\* itself proved only when the range alone decided which those are.
QueryAgrees(segment, q) ==
    LET answer == QuerySegment(segment, q)
        wanted == {r \in ToSet(segment) :
                     /\ QueryKey(q.dimension, r) \in q.lo..q.hi
                     /\ r.at <= q.asOf
                     /\ \A i \in DOMAIN q.filters : FilterMatches(q.filters[i], r)}
    IN  /\ ToSet(answer.records) = wanted
        /\ answer.unproved = {} => /\ q.filters = <<>>
                                   /\ answer.matched = Len(answer.records)

\* Everything that led to a run, as the edges have it.
RECURSIVE Led(_, _)
Led(all, known) ==
    LET more == {r \in all : \E k \in known : r.run = k.parentRun \/ r.id \in ToSet(k.causes)}
    IN  IF more \subseteq known THEN known ELSE Led(all, known \cup more)

\* A reconstruction never holds what did not lead to the run; every hop is
\* justified by an edge of a record it holds; and when it says it is complete
\* it holds all that led to the run, with every edge met and no loss on record.
ReconstructionAgrees(segments, run, bounds) ==
    LET walk == Reconstruct(segments, run, bounds)
        all  == UNION {ToSet(segments[i]) : i \in DOMAIN segments}
        led  == Led(all, {r \in all : r.run = run})
    IN  /\ ToSet(walk.records) \subseteq led
        /\ Len(walk.records) <= bounds.records /\ walk.taken <= bounds.hops
        /\ \A h \in ToSet(Tail(walk.hops)) : \E r \in ToSet(walk.records) :
              /\ r.id = h.from
              /\ h.key \in IF h.kind = "id" THEN ToSet(r.causes) ELSE {r.parentRun}
        /\ IsComplete(walk) =>
              /\ {r.id : r \in ToSet(walk.records)} = {r.id : r \in led}
              /\ \A r \in led : /\ ~r.note
                                /\ ToSet(r.causes) \subseteq {k.id : k \in all}
=============================================================================
