----------------------------- MODULE Assembler -----------------------------
(***************************************************************************)
(* One shard's assembler: identities, the bounded window of source names,  *)
(* the edges resolved from it, and the runs that lost an edge until a note *)
(* is written for each.  What it assembles goes to the journal, is sealed  *)
(* segment by segment, and is read back by a reconstruction.               *)
(*                                                                         *)
(* The journal here is a sequence in memory (module Journal has the file,  *)
(* module Plane the crashes and the sealing schedule).  An event is the    *)
(* name its source gave it, the name of its parent, its run and its parent *)
(* run; a name or a run that is absent is 0.                               *)
(***************************************************************************)
EXTENDS Query, Functions

CONSTANTS
    Batches,     \* batches of events a source may hand over
    NameWindow,  \* Correlation::capacity, at least 1
    MaxEvents    \* bound on events adopted

VARIABLES
    minted,      \* Ids::last, as the number of identities minted
    names,       \* Correlation: the names held, oldest first
    named,       \* Correlation::seen: name -> record
    unresolved,  \* Assembler::unresolved_parents
    lostEdges,   \* Assembler::lost_edges: run -> edges not yet written down
    journal,     \* records assembled since the last seal
    segments,    \* sealed segments
    told,        \* what sources said: record -> its event and the batch it came in
    dropped      \* losses that found no room in lost_edges, by run

assemblerVars == <<minted, names, named, unresolved, lostEdges, journal, segments,
                   told, dropped>>

AssemblerInit ==
    /\ minted = 0 /\ names = <<>> /\ named = << >>
    /\ unresolved = 0 /\ lostEdges = << >>
    /\ journal = <<>> /\ segments = <<>>
    /\ told = << >> /\ dropped = {}

\* Correlation::remember: the first to claim a name keeps it, and the oldest
\* name leaves a full window.
Remember(c, name, id) ==
    IF name = 0 \/ name \in DOMAIN c.named THEN c
    ELSE LET order == Append(c.names, name)
             held  == (name :> id) @@ c.named
         IN  IF Len(order) > NameWindow
             THEN [names |-> Tail(order),
                   named |-> Restrict(held, DOMAIN held \ {Head(order)})]
             ELSE [names |-> order, named |-> held]

\* Correlation::resolve and the arms of finish: the causes of an event.
Causes(c, event, id) ==
    IF event.parent \in DOMAIN c.named /\ c.named[event.parent] # id
    THEN <<c.named[event.parent]>> ELSE <<>>

Loses(c, event, id) == event.parent # 0 /\ Causes(c, event, id) = <<>>

\* A lost edge is counted against its run, while the map has room for the run.
CountLoss(l, run) ==
    IF run \in DOMAIN l.lost THEN [l EXCEPT !.lost[run] = @ + 1]
    ELSE IF Cardinality(DOMAIN l.lost) < NameWindow
    THEN [l EXCEPT !.lost = (run :> 1) @@ @]
    ELSE [l EXCEPT !.dropped = @ \cup {run}]

\* assemble: what of a record the causal graph is made of.
AssembleRecord(id, event, causes) ==
    [id |-> id, run |-> event.run, parentRun |-> event.parentRun, causes |-> causes,
     at |-> id, severity |-> 1, note |-> FALSE]

\* adopt_batch: every name first, then every edge.
AdoptBatch(batch) ==
    /\ minted + Len(batch) <= MaxEvents
    /\ LET ids    == [i \in DOMAIN batch |-> minted + i]
           window == FoldLeft(LAMBDA c, i : Remember(c, batch[i].name, ids[i]),
                              [names |-> names, named |-> named],
                              [i \in DOMAIN batch |-> i])
           losses == SelectSeq([i \in DOMAIN batch |-> i],
                               LAMBDA i : Loses(window, batch[i], ids[i]))
           counts == FoldLeft(LAMBDA l, i : CountLoss(l, batch[i].run),
                              [lost |-> lostEdges, dropped |-> dropped], losses)
       IN  /\ names' = window.names /\ named' = window.named
           /\ journal' = journal \o [i \in DOMAIN batch |->
                 AssembleRecord(ids[i], batch[i], Causes(window, batch[i], ids[i]))]
           /\ unresolved' = unresolved + Len(losses)
           /\ lostEdges' = counts.lost /\ dropped' = counts.dropped
           /\ told' = [i \in ToSet(ids) |-> [event |-> batch[i - minted], batch |-> minted]]
                         @@ told
    /\ minted' = minted + Len(batch)
    /\ UNCHANGED segments

StoreRun == 9   \* the run of the store's own records

\* lost_edge_events: one note for each run that lost an edge, under that run's
\* own identity, and the map is drained.
Notes_OwnRun ==
    LET runs == SetToSortSeq(DOMAIN lostEdges, <) IN
    [i \in DOMAIN runs |->
       [id |-> minted + i, run |-> StoreRun, parentRun |-> 0, causes |-> <<>>,
        at |-> minted + i, severity |-> 3, note |-> TRUE]]
Notes ==
    LET runs == SetToSortSeq(DOMAIN lostEdges, <) IN
    [i \in DOMAIN runs |->
       [id |-> minted + i, run |-> runs[i], parentRun |-> 0, causes |-> <<>>,
        at |-> minted + i, severity |-> 3, note |-> TRUE]]

\* The segment is sealed with its notes in it (flush_notes goes before a seal).
SealSegment ==
    /\ journal # <<>>
    /\ segments' = Append(segments, journal \o Notes)
    /\ minted' = minted + Len(Notes)
    /\ lostEdges' = << >>
    /\ journal' = <<>>
    /\ UNCHANGED <<names, named, unresolved, told, dropped>>

AssemblerNext == (\E batch \in Batches : AdoptBatch(batch)) \/ SealSegment

AssemblerSpec == AssemblerInit /\ [][AssemblerNext]_assemblerVars

-----------------------------------------------------------------------------
Sealed == UNION {ToSet(segments[i]) : i \in DOMAIN segments}
Written == ToSet(journal) \cup Sealed
NameOf(i) == told[i].event.name
ParentOf(i) == told[i].event.parent
LossOf(r) == r.id \in DOMAIN told /\ ParentOf(r.id) # 0 /\ r.causes = <<>>

\* What a source said of causes survives to the reader: a record's edge leads to
\* another record that its source gave the parent's name; a parent of the same
\* batch whose name is new is found in whatever order the batch came; every loss is counted; and a
\* run that lost an edge is never reconstructed as complete once it is sealed,
\* unless the map of lost edges was full when the edge was lost.
EdgesAreToldOrNoted ==
    /\ \A r \in Written : \A c \in ToSet(r.causes) :
          c # r.id /\ c \in DOMAIN told /\ NameOf(c) = ParentOf(r.id)
    /\ \A r \in Written : LossOf(r) /\ NameOf(r.id) # ParentOf(r.id) =>
          ~\E i \in DOMAIN told : /\ told[i].batch = told[r.id].batch
                                /\ NameOf(i) = ParentOf(r.id)
                                /\ \A k \in DOMAIN told : NameOf(k) = NameOf(i) => k >= i
    /\ unresolved = Cardinality({r \in Written : LossOf(r)})
    /\ \A r \in Sealed : LossOf(r) /\ r.run \notin dropped =>
          ~IsComplete(Reconstruct(segments, r.run, [hops |-> 20, records |-> 20]))
=============================================================================
