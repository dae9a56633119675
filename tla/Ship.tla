-------------------------------- MODULE Ship --------------------------------
(***************************************************************************)
(* `trailryx-node events --file`, crates/trailryx-node/src/events.rs and   *)
(* cursor.rs, on the plane of Plane.tla: each run reads what the source    *)
(* file has after the cursor, seals it and moves the cursor behind the     *)
(* seal.  The file grows, is half written and is rotated meanwhile; the    *)
(* run dies, or is handed another trust domain: one that other lines of    *)
(* the file carry, or one that none does.                                  *)
(*                                                                         *)
(* Data abstraction.  A line is its number, so equal prefixes have equal   *)
(* digests and only those; positions count lines instead of bytes.         *)
(***************************************************************************)
EXTENDS Plane

CONSTANTS
    NoCursor,   \* no cursor file, or one that does not read back
    Kinds,      \* the kinds of lines the producer writes: see LineKind
    Batch,      \* BATCH: units handed over at once
    MaxLines,   \* bound: lines the producer writes
    MaxRotate   \* bound: replacements of the file under its name

\* "own": maps under the right trust domain; "norun": carries it but names no
\* usable run; "other": maps under another domain; "none": no domain maps it.
LineKind == {"own", "norun", "other", "none"}

\* The trust domain a run is handed, named for the lines that map under it: the
\* right one, the one of the other lines, or one that no line carries.
Domains == {"own", "other", "unused"}

ASSUME ShipAssumption ==
    /\ Kinds \subseteq LineKind
    /\ Batch \in Nat \ {0}
    /\ MaxLines \in Nat /\ MaxLines <= MaxTaken
    /\ MaxRotate \in Nat
    /\ NoCursor \notin Seq(1..MaxLines)

VARIABLES
    kind,       \* line -> what map_line makes of it
    src,        \* the lines of the source file
    half,       \* whether the last of them has no terminator yet
    cursor,     \* the cursor file: NoCursor or the prefix it commits to
    step,       \* where in ship the run is
    snap,       \* the bytes this run read, up to the last terminator
    domain,     \* the trust domain this run was handed
    todo,       \* batches not handed over yet
    stored,     \* records this run has written
    through,    \* where the cursor goes once the seal under way is done
    made,       \* history: lines written so far
    rotated,    \* history: rotations
    waived      \* history: lines that a run which stored others went past, though
                \* it had refused them for their trust domain

source == <<kind, src, half, made, rotated>>
run == <<snap, domain, todo, stored, through>>
position == <<cursor, waived>>
shipVars == <<vars, source, position, step, run>>

Line == 1..MaxLines

\* Mutant: an unterminated last line is read as if it were whole.
WholeFile == Len(src)

\* complete_prefix: a line counts once its terminator has landed.
CompletePrefix == IF half THEN Len(src) - 1 ELSE Len(src)

\* decide: where to resume in a file, given what is remembered.
ResumeAt(file) ==
    IF /\ cursor # NoCursor
       /\ Len(cursor) <= Len(file)
       /\ SubSeq(file, 1, Len(cursor)) = cursor
    THEN Len(cursor) ELSE 0

\* map_line accepts a line under the domain this run was handed.  An
\* unterminated line does not parse.
Maps(n, d) == kind[n] = d /\ ~ (half /\ n = src[Len(src)])

\* It is refused as ForeignTrustDomain: the domain is compared before the run
\* identifier is looked at.
Foreign(n, d) ==
    \/ kind[n] \in {"own", "norun"} /\ d # "own"
    \/ kind[n] = "other" /\ d # "other"

Smaller(a, b) == IF a < b THEN a ELSE b

\* A batch may not span a seal.
Cut == Smaller(Batch, SealAfter)

\* Mutant: a batch claims the line after its last one.
TakeOneFurther(batches, i) ==
    IF batches # <<>> /\ Len(batches[Len(batches)].units) < Cut
    THEN [batches EXCEPT ![Len(batches)] =
             [units |-> Append(batches[Len(batches)].units, i), through |-> i + 1]]
    ELSE Append(batches, [units |-> <<i>>, through |-> i + 1])

\* A unit goes into the open batch, or into a new one when that is full; the
\* batch reaches as far as the line that put a unit in it.
Take(batches, i) ==
    IF batches # <<>> /\ Len(batches[Len(batches)].units) < Cut
    THEN [batches EXCEPT ![Len(batches)] =
             [units |-> Append(batches[Len(batches)].units, i), through |-> i]]
    ELSE Append(batches, [units |-> <<i>>, through |-> i])

\* frame: the mapped lines after `from`, cut into batches.
Frame(from, to, d) ==
    LET after[i \in from..to] ==
            IF i = from THEN <<>>
            ELSE IF Maps(src[i], d) THEN Take(after[i - 1], i) ELSE after[i - 1]
    IN  after[to]

ShipInit ==
    /\ Init
    /\ kind \in [Line -> Kinds]
    /\ src = <<>> /\ half = FALSE
    /\ cursor = NoCursor
    /\ step = "idle"
    /\ snap = <<>> /\ domain = "own" /\ todo = <<>>
    /\ stored = 0 /\ through = 0
    /\ made = 0 /\ rotated = 0 /\ waived = {}

(***************************************************************************)
(* One run.                                                                *)
(***************************************************************************)

\* Up to Plane::open: read the file, decide where to resume.  With nothing
\* new the plane is not opened and only a changed position is written.
Begin(d) ==
    /\ step = "idle" /\ pc = "down"
    /\ LET to == CompletePrefix
           from == ResumeAt(src)
       IN  IF from >= to
           THEN /\ cursor' = SubSeq(src, 1, from)
                /\ UNCHANGED <<step, run>>
           ELSE /\ step' = "open"
                /\ snap' = SubSeq(src, 1, to)
                /\ domain' = d
                /\ todo' = Frame(from, to, d)
                /\ stored' = 0
                /\ through' = from
                /\ UNCHANGED cursor
    /\ UNCHANGED <<vars, source, waived>>

\* The bound on segments leaves one to write to.
Room == LastSealed < MaxSegs

OpenPlane ==
    /\ step = "open" /\ Room
    /\ Open
    /\ step' = "batch"
    /\ UNCHANGED <<source, position, run>>

\* accept, one unit of the batch at hand.
TakeUnit ==
    /\ step = "batch"
    /\ todo # <<>> /\ todo[1].units # <<>>
    /\ \E r \in Run, owes \in Losses :
          AcceptUnit(r, owes, snap[todo[1].units[1]])
    /\ todo' = [todo EXCEPT ![1].units = Tail(@)]
    /\ stored' = stored + 1
    /\ taken' = taken
    /\ UNCHANGED <<source, position, step, snap, domain, through>>

\* The batch is on the journal: seal if the schedule says so.
BatchDone ==
    /\ step = "batch" /\ pc = "up"
    /\ todo # <<>> /\ todo[1].units = <<>>
    /\ through' = todo[1].through
    /\ todo' = Tail(todo)
    /\ IF SealDue THEN pc' = "flush" /\ step' = "seal"
                  ELSE UNCHANGED <<pc, step>>
    /\ UNCHANGED <<files, plane, past, source, position, snap, domain, stored>>

\* Mutant: the position is left to the end of the run.
CommitCursorLater ==
    /\ step = "seal" /\ pc = "up"
    /\ step' = "batch"
    /\ UNCHANGED <<vars, source, position, run>>

\* What the cursor goes past on its way to a position although this run refused it
\* for its domain.
RefusedUpTo(to) ==
    {snap[i] : i \in {j \in (ResumeAt(snap) + 1)..to : Foreign(snap[j], domain)}}

\* The segment is sealed: now, and only now, the cursor moves.
CommitCursor ==
    /\ step = "seal" /\ pc = "up"
    /\ cursor' = SubSeq(snap, 1, through)
    /\ waived' = waived \cup RefusedUpTo(through)
    /\ step' = "batch"
    /\ UNCHANGED <<vars, source, run>>

\* Everything was handed over; the last seal, if there is anything to seal.
LastSeal ==
    /\ step = "batch" /\ pc = "up"
    /\ todo = <<>>
    /\ step' = "last"
    /\ pc' = IF Written > 0 THEN "flush" ELSE "up"
    /\ UNCHANGED <<files, plane, past, source, position, run>>

\* Mutant: the run is finished with whatever it refused.
NeverHeld(from) == FALSE

\* Stored nothing, and a line was refused for its trust domain.
HeldForTrustDomain(from) ==
    /\ stored = 0
    /\ \E i \in (from + 1)..Len(snap) : Foreign(snap[i], domain)

\* The position moves past everything read, unless it is held: also past what was
\* refused for its domain, when the run stored anything at all.
Finish ==
    /\ step = "last" /\ pc = "up"
    /\ cursor' = IF HeldForTrustDomain(through) THEN cursor ELSE snap
    /\ waived' = IF stored = 0 THEN waived ELSE waived \cup RefusedUpTo(Len(snap))
    /\ step' = "idle"
    /\ pc' = "down"
    /\ UNCHANGED <<files, plane, past, source, run>>

\* The steps of Plane's seal and of its restart.
PlaneStep ==
    /\ Resync \/ FlushNote \/ SealSync \/ Commit(TRUE) \/ (Room /\ Roll)
    /\ UNCHANGED <<source, position, step, run>>

\* The run dies with its process, on an error, or in a power cut.
Die ==
    /\ Exit \/ PowerCut
    /\ step' = "idle"
    /\ UNCHANGED <<source, position, run>>

(***************************************************************************)
(* The producer.                                                           *)
(***************************************************************************)
StartLine ==
    /\ ~ half /\ made < MaxLines
    /\ src' = Append(src, made + 1)
    /\ half' = TRUE
    /\ made' = made + 1
    /\ UNCHANGED <<vars, kind, rotated, position, step, run>>

EndLine ==
    /\ half
    /\ half' = FALSE
    /\ UNCHANGED <<vars, kind, src, made, rotated, position, step, run>>

Rotate ==
    /\ rotated < MaxRotate
    /\ src # <<>>
    /\ src' = <<>> /\ half' = FALSE
    /\ rotated' = rotated + 1
    /\ UNCHANGED <<vars, kind, made, position, step, run>>

\* The next step of a run under way; there is one at a time.
RunStep ==
    \/ OpenPlane \/ TakeUnit \/ BatchDone \/ CommitCursor \/ LastSeal
    \/ Finish \/ PlaneStep

ShipNext ==
    \/ \E d \in Domains : Begin(d)
    \/ RunStep \/ Die
    \/ StartLine \/ EndLine \/ Rotate

ShipSpec == ShipInit /\ [][ShipNext]_shipVars

\* A run that started goes on, and the timer keeps starting runs with the right
\* trust domain, whatever other runs come between.
ShipFairness ==
    /\ SF_shipVars(Begin("own"))
    /\ WF_shipVars(RunStep)

FairShipSpec == ShipSpec /\ ShipFairness

(***************************************************************************)
(* Properties.                                                             *)
(***************************************************************************)

IsSealed(n) ==
    \E s \in Segment : Sealed(s) /\
        \E i \in 1..Len(manifest[s].recs) :
            manifest[s].recs[i].kind = "unit" /\ manifest[s].recs[i].src = n

IsStored(n) ==
    \E s \in Segment : \E i \in 1..Len(journal[s].recs) :
        /\ journal[s].recs[i].kind = "unit"
        /\ journal[s].recs[i].src = n

\* Every variable of the importer has its type.
ShipTypeOK ==
    /\ src \in Seq(Line) /\ half \in BOOLEAN
    /\ cursor # NoCursor => cursor \in Seq(Line)
    /\ step \in {"idle", "open", "batch", "seal", "last"}
    /\ snap \in Seq(Line) /\ domain \in Domains /\ waived \subseteq Line
    /\ through \in 0..Len(snap) /\ stored \in 0..Len(snap)

\* A line that carries a domain: under that one a run would store it.
SomeDomainMaps(n) == kind[n] \in {"own", "other"}

\* The cursor is never ahead of the evidence: every line it has passed that some
\* domain maps is in a sealed segment, or was refused for its domain by a run that
\* stored other lines, which is what ship is to do in a file of two domains.  A run
\* that stored nothing passes no such line, though runs die anywhere, are handed any
\* domain and meet rotated or half-written files.
CursorBehindEvidence ==
    cursor # NoCursor =>
        \A i \in 1..Len(cursor) :
            SomeDomainMaps(cursor[i]) => IsSealed(cursor[i]) \/ cursor[i] \in waived

\* How far behind it may be: the lines a next run would store a second time under
\* its domain are at most what one segment and the batch that closed it can hold.
ReimportWindow ==
    \A d \in Domains :
        LET again == {i \in (ResumeAt(src) + 1)..Len(src) :
                         kind[src[i]] = d /\ IsStored(src[i])}
        IN  Cardinality(again) <= SealAfter - 1 + Cut

\* ship and its cursor: never ahead of what is sealed, and never further behind
\* than one segment, wherever a run dies and whatever domain it was handed.
CursorIsInBounds == ShipTypeOK /\ CursorBehindEvidence /\ ReimportWindow

\* A line of the right domain that stays in the file is sealed in the end, or a run
\* handed the domain of other lines stored those and went past it: the producer
\* stops at MaxLines, and from some time on nothing whole is left over.
EveryLineIsSealed ==
    <>[](\A i \in 1..CompletePrefix :
            kind[src[i]] = "own" => IsSealed(src[i]) \/ src[i] \in waived)
=============================================================================
