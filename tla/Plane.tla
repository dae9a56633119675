------------------------------- MODULE Plane -------------------------------
(***************************************************************************)
(* One shard's write path, crates/trailryx-node/src/plane.rs, under the    *)
(* drain loop of `trailryx-node run`: records go to the open segment's     *)
(* journal; a seal writes the notes the store owes, flushes, writes the    *)
(* manifest, which is the commit point, and rolls to the next segment.     *)
(* Processes end and power fails between any two of these steps.           *)
(*                                                                         *)
(* Data abstraction.  A journal is what JournalContract promises of it: a  *)
(* sequence of records of which a power cut takes an unflushed suffix.  A  *)
(* chain link is injective, so a chain head is the sequence of records it  *)
(* commits to.  How much a note counts is left out; that it is owed stays. *)
(***************************************************************************)
EXTENDS Integers, Sequences, FiniteSets

CONSTANTS
    Run,        \* agent runs a record can belong to
    Losses,     \* what one unit can cost: sets of the kinds in Why
    NoManifest, \* a segment that is not sealed
    SealAfter,  \* SealPolicy.seal_after_records
    SyncEvery,  \* SealPolicy.sync_every
    MaxSegs,    \* bound: segments of the shard
    MaxTaken,   \* bound: units handed to the plane
    MaxEnds,    \* bound: processes that end and power cuts
    MaxUnnamed  \* bound: directory flushes that did not happen

Why == {"edge", "payload"}
Segment == 1..MaxSegs
Note == [why : Why, run : Run]

\* What a source handed over, and what the store writes about itself.
Unit == [kind : {"unit"}, run : Run, owes : Losses, src : 0..MaxTaken]
Rec == Unit \cup [kind : {"note"}, why : Why, run : Run]

ASSUME PolicyAssumption ==
    /\ Losses \subseteq SUBSET Why
    /\ SealAfter \in Nat \ {0}
    /\ SyncEvery \in Nat \ {0}
    /\ NoManifest \notin [before : Seq(Rec), recs : Seq(Rec)]
ASSUME PlaneBoundAssumption ==
    /\ MaxSegs \in Nat \ {0}
    /\ MaxTaken \in Nat /\ MaxTaken < MaxSegs
    /\ MaxEnds \in Nat
    /\ MaxUnnamed \in Nat

VARIABLES
    journal,    \* segment -> records on file, how many durable, chain start
    manifest,   \* segment -> NoManifest or what the manifest commits to
    named,      \* segments whose manifest's name a power cut cannot take
    pc,         \* where the process is
    segment,    \* Plane.segment
    base,       \* Plane.chain_before
    acked,      \* Journal.acked of the open segment
    owed,       \* Assembler.lost_edges and Plane.declined_in_segment
    oldest,     \* Plane.oldest_unsealed: none, young, or past the limit
    taken,      \* history: units handed to the plane so far
    promise,    \* history: the records a returned sync covered
    cut,        \* history: segments half written when a process ended
    ends,       \* history: ends of a process
    unnamed     \* history: directory flushes that did not happen

files == <<journal, manifest, named>>
plane == <<segment, base, acked, owed, oldest>>
past == <<taken, promise, cut, ends, unnamed>>
vars == <<files, pc, plane, past>>

(***************************************************************************)
(* The directory.                                                          *)
(***************************************************************************)
Empty == [recs |-> <<>>, dur |-> 0, start |-> <<>>]

Sealed(s) == manifest[s] # NoManifest

\* The head a sealed segment ends on: SegmentManifest.chain_after.
ChainAfter(s) == manifest[s].before \o manifest[s].recs

Highest(S) == CHOOSE s \in S : \A t \in S : t <= s

\* The last entry of sealed_manifests, 0 when there is none.
LastSealed ==
    IF \E s \in Segment : Sealed(s)
    THEN Highest({s \in Segment : Sealed(s)}) ELSE 0

\* Mutant: every segment is opened as if it were the shard's first.
NextStartGenesis == <<>>

\* Where Plane::open continues, and from which head.
NextStart == IF LastSealed = 0 THEN <<>> ELSE ChainAfter(LastSealed)

\* Journal::open finds records that do not start at this head and refuses.
StartsElsewhere(s, start) ==
    journal[s].recs # <<>> /\ journal[s].start # start

Written == Len(journal[segment].recs)

\* The journal's own sequence of every record of the shard.
ShardLog ==
    LET upTo[s \in 0..MaxSegs] ==
            IF s = 0 THEN <<>> ELSE upTo[s - 1] \o journal[s].recs
    IN  upTo[MaxSegs]

(***************************************************************************)
(* Init: an empty directory.                                               *)
(***************************************************************************)
Init ==
    /\ journal = [s \in Segment |-> Empty]
    /\ manifest = [s \in Segment |-> NoManifest]
    /\ named = {}
    /\ pc = "down"
    /\ segment = 1 /\ base = <<>> /\ acked = 0
    /\ owed = {} /\ oldest = "none"
    /\ taken = 0 /\ promise = <<>>
    /\ cut = {} /\ ends = 0 /\ unnamed = 0

(***************************************************************************)
(* open.                                                                   *)
(***************************************************************************)

\* Mutant: the age of inherited records is not tracked.
OpenForgetsAge ==
    /\ pc = "down"
    /\ ~ StartsElsewhere(LastSealed + 1, NextStart)
    /\ segment' = LastSealed + 1
    /\ base' = NextStart
    /\ acked' = 0
    /\ owed' = {}
    /\ oldest' = "none"
    /\ pc' = IF journal[LastSealed + 1].recs # <<>> THEN "resync" ELSE "up"
    /\ UNCHANGED <<files, past>>

\* The directory is read, the open segment's journal recovered.
Open ==
    /\ pc = "down"
    /\ ~ StartsElsewhere(LastSealed + 1, NextStart)
    /\ segment' = LastSealed + 1
    /\ base' = NextStart
    /\ acked' = 0
    /\ owed' = {}
    /\ LET inherited == journal[LastSealed + 1].recs # <<>>
       IN  /\ oldest' = IF inherited THEN "young" ELSE "none"
           /\ pc' = IF inherited THEN "resync" ELSE "up"
    /\ UNCHANGED <<files, past>>

\* The journal there does not continue from the last manifest.
OpenRefused ==
    /\ pc = "down"
    /\ StartsElsewhere(LastSealed + 1, NextStart)
    /\ UNCHANGED vars

\* Mutant: promises without flushing.
JournalSyncUnflushed ==
    /\ acked' = Written
    /\ promise' = ShardLog
    /\ UNCHANGED journal

\* journal.sync: all of the open segment is durable and promised.
JournalSync ==
    /\ journal' = [journal EXCEPT ![segment].dur = Written]
    /\ acked' = Written
    /\ promise' = ShardLog

\* Records inherited from another process are promised anew.
Resync ==
    /\ pc = "resync"
    /\ JournalSync
    /\ pc' = "up"
    /\ UNCHANGED <<manifest, named, segment, base, owed, oldest, taken, cut,
                   ends, unnamed>>

(***************************************************************************)
(* accept, sync and the sealing schedule.                                  *)
(***************************************************************************)

\* Journal.append of one record, answered Written.
Put(r) ==
    /\ journal' = [journal EXCEPT
          ![segment].recs = Append(@, r),
          ![segment].start = IF journal[segment].recs = <<>> THEN base ELSE @]
    /\ oldest' = IF oldest = "none" THEN "young" ELSE oldest

\* accept, for one unit of its batch.
AcceptUnit(run, owes, src) ==
    /\ pc = "up"
    /\ owed' = owed \cup [why : owes, run : {run}]
    /\ Put([kind |-> "unit", run |-> run, owes |-> owes, src |-> src])
    /\ UNCHANGED <<manifest, named, pc, segment, base, acked, promise, cut,
                   ends, unnamed>>

Accept ==
    /\ taken < MaxTaken
    /\ taken' = taken + 1
    /\ \E run \in Run, owes \in Losses : AcceptUnit(run, owes, taken)

\* sync, from tick when the journal asks for it.
Sync ==
    /\ pc = "up"
    /\ Written - acked >= SyncEvery
    /\ JournalSync
    /\ UNCHANGED <<manifest, named, pc, segment, base, owed, oldest, taken,
                   cut, ends, unnamed>>

\* The oldest unsealed record passes seal_after_nanos.
TimePasses ==
    /\ oldest = "young"
    /\ pc = "up"
    /\ oldest' = "old"
    /\ UNCHANGED <<files, pc, segment, base, acked, owed, past>>

\* A turn of the drain loop that polls nothing and finds nothing due.
Idle ==
    /\ pc = "up"
    /\ UNCHANGED vars

SealDue == Written > 0 /\ (Written >= SealAfter \/ oldest = "old")

\* tick: the schedule says seal, and seal starts with flush_notes.
StartSeal ==
    /\ pc = "up"
    /\ SealDue
    /\ pc' = "flush"
    /\ UNCHANGED <<files, plane, past>>

(***************************************************************************)
(* seal.                                                                   *)
(***************************************************************************)

\* flush_notes, one record: lost edges first, then declined payloads.
FlushNote ==
    /\ pc = "flush"
    /\ \E n \in owed :
          /\ n.why = "payload" => \A m \in owed : m.why = "payload"
          /\ Put([kind |-> "note", why |-> n.why, run |-> n.run])
          /\ owed' = owed \ {n}
    /\ UNCHANGED <<manifest, named, pc, segment, base, acked, past>>

\* Mutant: the segment is closed with notes still owed.
SealSyncEarly ==
    /\ pc = "flush"
    /\ JournalSync
    /\ pc' = "commit"
    /\ UNCHANGED <<manifest, named, segment, base, owed, oldest, taken, cut,
                   ends, unnamed>>

\* Mutant: leaves the flush to the schedule.
SealUnsynced ==
    /\ pc = "flush"
    /\ owed = {}
    /\ pc' = "commit"
    /\ UNCHANGED <<files, plane, past>>

\* Nothing is owed any more: seal flushes the journal.
SealSync ==
    /\ pc = "flush"
    /\ owed = {}
    /\ JournalSync
    /\ pc' = "commit"
    /\ UNCHANGED <<manifest, named, segment, base, owed, oldest, taken, cut,
                   ends, unnamed>>

\* The flush of the directory that follows the rename: best effort.
NameIt(flushed) ==
    /\ ~ flushed => unnamed < MaxUnnamed
    /\ unnamed' = unnamed + IF flushed THEN 0 ELSE 1
    /\ named' = IF flushed THEN {s \in Segment : Sealed(s)'} ELSE named

\* seal_segment over the acked prefix, and write_committing.  A chain that
\* does not start at chain_before is an error, which ends the process.
Commit(flushed) ==
    /\ pc = "commit"
    /\ journal[segment].start = base
    /\ manifest' = [manifest EXCEPT ![segment] =
          [before |-> base, recs |-> SubSeq(journal[segment].recs, 1, acked)]]
    /\ NameIt(flushed)
    /\ pc' = "roll"
    /\ UNCHANGED <<journal, plane, taken, promise, cut, ends>>

\* Mutant: the acknowledged count of the sealed segment is carried over.
RollKeepsAcked ==
    /\ pc = "roll"
    /\ journal[segment + 1].recs = <<>>
    /\ segment' = segment + 1
    /\ base' = ChainAfter(segment)
    /\ oldest' = "none"
    /\ pc' = "up"
    /\ UNCHANGED <<files, acked, owed, past>>

\* The next segment's journal is opened empty and the plane moves to it.
Roll ==
    /\ pc = "roll"
    /\ journal[segment + 1].recs = <<>>
    /\ segment' = segment + 1
    /\ base' = ChainAfter(segment)
    /\ acked' = 0
    /\ oldest' = "none"
    /\ pc' = "up"
    /\ UNCHANGED <<files, owed, past>>

\* It holds records already: "this shard has two writers".  The error ends
\* the process, as every error of seal does.
RollRefused ==
    /\ pc = "roll"
    /\ journal[segment + 1].recs # <<>>
    /\ pc' = "down"
    /\ UNCHANGED <<files, plane, past>>

(***************************************************************************)
(* The environment.                                                        *)
(***************************************************************************)
Interrupt ==
    /\ ends < MaxEnds
    /\ ends' = ends + 1
    /\ cut' = cut \cup IF /\ pc \in {"resync", "up", "flush", "commit"}
                          /\ journal[segment].recs # <<>>
                       THEN {segment} ELSE {}
    /\ pc' = "down"
    /\ UNCHANGED <<segment, base, owed, oldest, taken, unnamed>>

\* The process ends: killed, or stopped by an error of sync or seal.
Exit ==
    /\ pc # "down"
    /\ Interrupt
    /\ UNCHANGED <<files, acked, promise>>

\* The drain loop stops because accept failed or the ingest lock is poisoned,
\* and flushes what is written on its way out.
StopAfterSync ==
    /\ pc = "up"
    /\ Interrupt
    /\ JournalSync
    /\ UNCHANGED <<manifest, named>>

\* A power cut: what was not flushed may go, records and names alike.
PowerCut ==
    /\ Interrupt
    /\ UNCHANGED <<acked, promise>>
    /\ LET loose == {s \in Segment : journal[s].dur < Len(journal[s].recs)}
       IN  \E keep \in [loose -> 0..Len(ShardLog)] :
              /\ \A s \in loose :
                    keep[s] \in journal[s].dur..Len(journal[s].recs)
              /\ journal' = [s \in Segment |->
                    IF s \in loose
                    THEN [journal[s] EXCEPT !.recs = SubSeq(@, 1, keep[s]),
                                            !.dur = keep[s]]
                    ELSE journal[s]]
    /\ \E gone \in SUBSET {s \in Segment : Sealed(s) /\ s \notin named} :
          manifest' = [s \in Segment |->
                          IF s \in gone THEN NoManifest ELSE manifest[s]]
    /\ named' = {s \in Segment : Sealed(s)'}

Next ==
    \/ Open \/ OpenRefused \/ Resync \/ Accept \/ Sync \/ TimePasses
    \/ Idle \/ StartSeal \/ FlushNote \/ SealSync
    \/ \E flushed \in BOOLEAN : Commit(flushed)
    \/ Roll \/ RollRefused \/ Exit \/ StopAfterSync \/ PowerCut

Spec == Init /\ [][Next]_vars

\* The drain loop never stops turning, the clock moves and a supervisor starts
\* the process again.
Fairness ==
    /\ WF_vars(Open) /\ WF_vars(Resync) /\ WF_vars(TimePasses)
    /\ WF_vars(StartSeal) /\ WF_vars(FlushNote) /\ WF_vars(SealSync)
    /\ WF_vars(\E flushed \in BOOLEAN : Commit(flushed)) /\ WF_vars(Roll)
    /\ WF_vars(RollRefused)

FairSpec == Spec /\ Fairness

(***************************************************************************)
(* Properties.                                                             *)
(***************************************************************************)

\* Every variable has its type, and a plane in use never counts more records
\* as acknowledged than its open segment holds.
PlaneTypeOK ==
    /\ journal \in [Segment -> [recs : Seq(Rec), dur : Nat, start : Seq(Rec)]]
    /\ \A s \in Segment : journal[s].dur <= Len(journal[s].recs)
    /\ \A s \in Segment :
          Sealed(s) => manifest[s] \in [before : Seq(Rec), recs : Seq(Rec)]
    /\ named \subseteq {s \in Segment : Sealed(s)}
    /\ pc \in {"down", "resync", "up", "flush", "commit", "roll"}
    /\ segment \in Segment
    /\ base \in Seq(Rec)
    /\ acked \in Nat
    /\ pc # "down" => acked <= Written
    /\ owed \subseteq Note
    /\ oldest \in {"none", "young", "old"}
    /\ promise \in Seq(Rec)
    /\ cut \subseteq Segment

\* A manifest describes exactly the records of its journal, all of them beyond
\* the reach of a power cut: never records nobody can read, and none stranded
\* in a file that nothing appends to again.
SealedIsWhole ==
    \A s \in Segment : Sealed(s) =>
        /\ manifest[s].recs = journal[s].recs
        /\ journal[s].dur = Len(journal[s].recs)

\* The sealed segments are one chain with no segment missing: each starts from
\* the head the one before it ended on, the first from the genesis.
ChainMeets ==
    \A s \in Segment : Sealed(s) =>
        IF s = 1 THEN manifest[s].before = <<>>
        ELSE Sealed(s - 1) /\ manifest[s].before = ChainAfter(s - 1)

\* seal and open: however often the process ends between two of their steps, the
\* sealed segments are whole, durable and one unbroken chain.
SealedHistoryIsWhole == PlaneTypeOK /\ SealedIsWhole /\ ChainMeets

Noted(s, why, run) ==
    \E i \in 1..Len(journal[s].recs) :
        /\ journal[s].recs[i].kind = "note"
        /\ journal[s].recs[i].why = why
        /\ journal[s].recs[i].run = run

NotesIn(s) ==
    \A i \in 1..Len(journal[s].recs) :
        LET r == journal[s].recs[i]
        IN  r.kind = "unit" => \A why \in r.owes : Noted(s, why, r.run)

\* What the store lost or declined is written down in the segment that holds
\* the records it is about, for every segment one process wrote from its first
\* record to its manifest.
NotesBesideRecords ==
    \A s \in Segment : Sealed(s) /\ s \notin cut => NotesIn(s)

\* The claim without the exception: dropping a payload is never silent.
EveryLossIsNoted ==
    \A s \in Segment : Sealed(s) => NotesIn(s)

\* A shard is one log across all of its files: it grows at its end only, and
\* what a returned sync covered is never lost, reordered or repeated, whatever
\* seals, restarts and power cuts come between, until a directory flush that the
\* code calls best effort did not happen.
Contract == INSTANCE JournalContract
                WITH Id <- Rec, log <- ShardLog, acked <- Len(promise)
ShardIsOneLog ==
    /\ Contract!Init
    /\ [][unnamed' = 0 => Contract!Next]_<<ShardLog, Len(promise)>>

\* No record stays unsealed for ever: once no more come (MaxTaken), every segment
\* with records is sealed for good; what a power cut took was never flushed.
\* (Where a directory flush did not happen, which the code calls best effort, a
\* shard can be left that refuses to open: records are then stranded in the
\* segment after it.)
EverythingIsSealed ==
    <>[](unnamed > 0 \/ \A s \in Segment : journal[s].recs # <<>> => Sealed(s))
=============================================================================
