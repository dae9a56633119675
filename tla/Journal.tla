------------------------------ MODULE Journal ------------------------------
(***************************************************************************)
(* The hash-chained journal of crates/trailryx-journal on the storage its  *)
(* Io trait promises: append, fsync and a durable truncate, with short     *)
(* writes, refused writes, failing and lying flushes, process exits and    *)
(* power cuts between any two I/O calls.                                   *)
(*                                                                         *)
(* Data abstraction.  A file is a sequence of cells: the segment header    *)
(* and every frame take two, so "some but not all of the bytes are there"  *)
(* is exactly one state.  A record is its id; a chain link is taken to be  *)
(* injective, so the chain head is the sequence of ids it commits to and   *)
(* the genesis is the empty sequence.  A rotten cell fails every checksum. *)
(***************************************************************************)
EXTENDS Integers, Sequences

CONSTANTS
    Id,           \* record ids
    NoId,         \* no record: the id of an answer that is about none
    Header,       \* content of this journal's own segment header
    OtherOwner,   \* content of a valid header of another shard or segment
    NotJournal,   \* content of a file of another kind or a newer version
    Junk,         \* content of a cell whose bytes rotted
    DedupCap,     \* ids the DedupWindow holds (65_536 in the code)
    MaxSeq,       \* bound: records on the file
    MaxLies,      \* bound: flushes reported and not performed
    MaxRot,       \* bound: cells that rot
    LiveRecovery  \* whether recover is also called on a handle in use

\* A frame, and the content of a cell that is not part of one.
Frame == [seq : Nat, prev : Seq(Id), id : Id]
NoFrame(x) == [seq |-> 0, prev |-> <<>>, id |-> x]
Special == {Header, OtherOwner, NotJournal, Junk}
Cell == [what : [seq : Nat, prev : Seq(Id), id : Id \cup Special],
         part : {1, 2}]

ASSUME SentinelAssumption ==
    /\ NoId \notin Id
    /\ Special \cap Id = {}
    /\ Header \notin {OtherOwner, NotJournal, Junk}
    /\ Junk \notin {OtherOwner, NotJournal}
ASSUME BoundAssumption ==
    /\ DedupCap \in Nat \ {0}
    /\ MaxSeq \in Nat
    /\ MaxLies \in Nat
    /\ MaxRot \in Nat
    /\ LiveRecovery \in BOOLEAN

VARIABLES
    file,       \* the journal file: what a read returns now
    durable,    \* how many of its cells a power cut cannot take
    wm,         \* the ".ack" file: value, cells present, cells durable
    pc,         \* which I/O call the process is about to make
    head,       \* Journal.chain
    written,    \* Journal.written
    acked,      \* Journal.acked
    pending,    \* Journal.pending: <<>> or <<the frame and cells done>>
    seen,       \* DedupWindow.seen: position of an id, 0 for none
    order,      \* DedupWindow.order
    degraded,   \* Journal.degraded
    ret,        \* the last answer given to the caller
    promise,    \* history: the records a sync that returned has promised
    recorded,   \* history: how many of them the ".ack" file has named
    lies,       \* history: flushes that lied
    rots        \* history: cells that rotted

disk == <<file, durable, wm>>
window == <<seen, order>>
counters == <<written, acked>>
memory == <<head, counters, pending, window, degraded>>
history == <<promise, recorded, lies, rots>>
vars == <<disk, pc, memory, ret, history>>

(***************************************************************************)
(* What is on a file.                                                      *)
(***************************************************************************)

\* Frame k occupies cells 2k+1 and 2k+2, after the two cells of the header.
TwoCells(x) == <<[what |-> x, part |-> 1], [what |-> x, part |-> 2]>>

HeaderCells == TwoCells(NoFrame(Header))

EndOf(k) == 2 * k + 2

\* decode_frame and decode_record_at succeed at cell i.
ParsesAt(cells, i) ==
    /\ i + 1 <= Len(cells)
    /\ cells[i].what \in Frame
    /\ cells[i].part = 1
    /\ cells[i + 1] = [what |-> cells[i].what, part |-> 2]

\* The ids of the first k frames: the chain head after them.
Ids(cells, k) == [i \in 1..k |-> cells[2 * i + 1].what.id]

\* The rules of walk for the k-th frame: it parses, its sequence follows and
\* its previous head is the running one.
Follows(cells, k) ==
    /\ ParsesAt(cells, 2 * k + 1)
    /\ cells[2 * k + 1].what.seq = k
    /\ cells[2 * k + 1].what.prev = Ids(cells, k - 1)

\* walk: the longest prefix that verifies has n records.
WalkStopsAfter(cells, n) ==
    /\ \A k \in 1..n : Follows(cells, k)
    /\ ~ Follows(cells, n + 1)

\* Mutant: looks only right behind the prefix that verified.
NextParsableAtOnce(cells, from) == ParsesAt(cells, from)

\* next_parsable_frame: a whole frame at or after cell `from`.
NextParsable(cells, from) == \E i \in from..Len(cells) : ParsesAt(cells, i)

\* The answers decode_segment_header may give.  Rotten bytes can read as a
\* short header, a failed checksum or a magic that is not ours.
DecodeHeader(cells) ==
    CASE Len(cells) < 2 -> {"Torn"}
      [] Len(cells) >= 2 /\ \E i \in 1..2 : cells[i].what.id = Junk
           -> {"Torn", "NotAJournal"}
      [] Len(cells) >= 2 /\ SubSeq(cells, 1, 2) = HeaderCells -> {"Ours"}
      [] Len(cells) >= 2 /\ cells[1].what.id = OtherOwner -> {"WrongOwner"}
      [] OTHER -> {"NotAJournal"}

\* A file no longer than MAX_SEGMENT_HEADER_LEN.  A header is shorter than
\* that maximum, so the first bytes of one frame may fit behind it or not.
HeaderIsAllItCouldHold(cells) ==
    IF Len(cells) <= 2 THEN {TRUE}
    ELSE IF Len(cells) = 3 THEN {TRUE, FALSE} ELSE {FALSE}

(***************************************************************************)
(* DedupWindow.                                                            *)
(***************************************************************************)
EmptySeen == [i \in Id |-> 0]

\* Mutant: the id that falls out of the queue stays in the map.
RememberForever(w, id, seq) ==
    LET o == IF w.seen[id] = 0 THEN Append(w.order, id) ELSE w.order
    IN  [seen |-> [w.seen EXCEPT ![id] = seq],
         order |-> IF Len(o) > DedupCap THEN Tail(o) ELSE o]

\* Mutant: an id that is already there is queued again.
RememberTwice(w, id, seq) ==
    LET s == [w.seen EXCEPT ![id] = seq]
        o == Append(w.order, id)
    IN  IF Len(o) > DedupCap
        THEN [seen |-> [s EXCEPT ![o[1]] = 0], order |-> Tail(o)]
        ELSE [seen |-> s, order |-> o]

\* remember: an id already there only changes its position; a new one may
\* push the oldest out.
Remember(w, id, seq) ==
    LET s == [w.seen EXCEPT ![id] = seq]
        o == IF w.seen[id] = 0 THEN Append(w.order, id) ELSE w.order
    IN  IF Len(o) > DedupCap
        THEN [seen |-> [s EXCEPT ![o[1]] = 0], order |-> Tail(o)]
        ELSE [seen |-> s, order |-> o]

\* Mutant: the window is not rebuilt from the file.
RememberNone(w, ids) == w

\* Mutant: positions counted from zero.
RememberFromZero(w, ids) ==
    LET f[n \in 0..Len(ids)] ==
            IF n = 0 THEN w ELSE Remember(f[n - 1], ids[n], n - 1)
    IN  f[Len(ids)]

\* The loop of recover over the walked records, into the window w.
RememberAll(w, ids) ==
    LET f[n \in 0..Len(ids)] ==
            IF n = 0 THEN w ELSE Remember(f[n - 1], ids[n], n)
    IN  f[Len(ids)]

(***************************************************************************)
(* Answers.                                                                *)
(***************************************************************************)
Answer(kind, id, seq) ==
    [kind |-> kind, id |-> id, seq |-> seq, alarm |-> FALSE]
NoAnswer == Answer("none", NoId, 0)

\* What read_watermark returns: a short or torn file promises nothing.
ReadWatermark == IF wm.len = 2 THEN wm.val ELSE 0

FreshMemory ==
    /\ head' = <<>>
    /\ written' = 0 /\ acked' = 0
    /\ pending' = <<>>
    /\ seen' = EmptySeen /\ order' = <<>>
    /\ degraded' = FALSE

(***************************************************************************)
(* Init: nothing there yet, or a file that belongs to somebody else.       *)
(***************************************************************************)
Foreign(x) == TwoCells(NoFrame(x))

Init ==
    /\ file \in {<<>>, Foreign(OtherOwner), Foreign(NotJournal)}
    /\ durable = Len(file)
    /\ wm = [val |-> 0, len |-> 0, dur |-> 0]
    /\ pc = "down"
    /\ head = <<>>
    /\ written = 0 /\ acked = 0
    /\ pending = <<>>
    /\ seen = EmptySeen /\ order = <<>>
    /\ degraded = FALSE
    /\ ret = NoAnswer
    /\ promise = <<>> /\ recorded = 0
    /\ lies = 0 /\ rots = 0

(***************************************************************************)
(* Opening and recovering.                                                 *)
(***************************************************************************)

\* Journal::open: a fresh handle, which recovers before it is returned.
Open ==
    /\ pc = "down"
    /\ pc' = "boot"
    /\ ret' = NoAnswer
    /\ UNCHANGED <<disk, memory, history>>

\* recover on a handle that is in use: what it remembers stays.
Recover ==
    /\ LiveRecovery
    /\ pc = "up"
    /\ pc' = "boot"
    /\ ret' = NoAnswer
    /\ UNCHANGED <<disk, memory, history>>

\* open returns an error and there is no handle.  Of recover on a handle in use the
\* code leaves one behind: whoever gets the error is taken to drop it.
Refuse(why) ==
    /\ pc' = "down"
    /\ ret' = Answer(why, NoId, 0)
    /\ FreshMemory
    /\ UNCHANGED <<disk, history>>

\* Mutant: the shorter file is still believed durable at its old length.
TruncateKeepsMark(n) ==
    /\ file' = SubSeq(file, 1, n)
    /\ UNCHANGED durable

\* Mutant: the torn tail is left in place.
TruncateNothing(n) == UNCHANGED <<file, durable>>

TruncateFile(n) ==
    /\ file' = SubSeq(file, 1, n)
    /\ durable' = IF durable < n THEN durable ELSE n

\* ensure_header up to and including its truncate.
EnsureHeader ==
    /\ pc = "boot"
    /\ \E h \in DecodeHeader(file), short \in HeaderIsAllItCouldHold(file) :
          \/ /\ h = "Ours"
             /\ pc' = "adopt"
             /\ UNCHANGED <<disk, memory, ret, history>>
          \/ /\ h \in {"WrongOwner", "NotAJournal"}
             /\ Refuse(h)
          \/ /\ h = "Torn" /\ ~ short
             /\ Refuse("CorruptHeader")
          \/ /\ h = "Torn" /\ short
             /\ TruncateFile(0)
             /\ pc' = "header"
             /\ UNCHANGED <<wm, memory, ret, history>>

\* One turn of the loop that writes the header; it is not flushed.
WriteHeader ==
    /\ pc = "header"
    /\ \E n \in (Len(file) + 1)..2 :
          /\ file' = file \o SubSeq(HeaderCells, Len(file) + 1, n)
          /\ pc' = IF n = 2 THEN "adopt" ELSE "header"
    /\ UNCHANGED <<durable, wm, memory, ret, history>>

\* A read, a truncate or an append fails, or the header loop gives up.
OpenFails ==
    /\ pc \in {"boot", "header", "adopt"}
    /\ Refuse("Io")

\* Mutant: what came back is compared with this process's memory only.
PromisedInMemory == acked

\* Mutant: everything that was ever written counts as promised.
PromisedIfWritten == IF written > ReadWatermark THEN written ELSE ReadWatermark

\* What recovery holds the disk to: the watermark file or, on a live handle,
\* the count in memory when that is higher.
Promised == IF acked > ReadWatermark THEN acked ELSE ReadWatermark

\* Mutant: the acknowledged count is reloaded from the watermark file.
AckedFromWatermark(n) == IF ReadWatermark < n THEN ReadWatermark ELSE n

\* acked after a recovery that found n records.
AckedAfter(n) == IF acked < n THEN acked ELSE n

\* The rest of recover: the first n records are what this journal holds.
AdoptPrefix(n) ==
    LET ids == Ids(file, n)
        w == RememberAll([seen |-> seen, order |-> order], ids)
    IN  /\ TruncateFile(EndOf(n))
        /\ seen' = w.seen /\ order' = w.order
        /\ head' = ids
        /\ written' = n
        /\ acked' = AckedAfter(n)
        /\ pending' = <<>>
        /\ degraded' = FALSE
        /\ pc' = "up"
        /\ ret' = [Answer("Recovered", NoId, n) EXCEPT !.alarm = n < Promised]
        /\ promise' = SubSeq(promise, 1, IF Len(promise) < n
                                        THEN Len(promise) ELSE n)
        /\ recorded' = IF recorded < n THEN recorded ELSE n
        /\ UNCHANGED <<wm, lies, rots>>

\* recover from its walk on: adopt the longest prefix that verifies, cut off
\* a torn tail, refuse when something whole follows it, rebuild the window
\* and compare what came back with what had been promised.
Adopt ==
    /\ pc = "adopt"
    /\ \E n \in 0..Len(file) :
          /\ WalkStopsAfter(file, n)
          /\ IF NextParsable(file, EndOf(n) + 1)
             THEN Refuse("CorruptMidFile")
             ELSE AdoptPrefix(n)

(***************************************************************************)
(* append and push_pending.                                                *)
(***************************************************************************)

\* Mutant: another record may be stamped while one is outstanding.
AppendOverOutstanding(id) ==
    /\ pc = "up"
    /\ seen[id] = 0
    /\ written < MaxSeq
    /\ pending' = <<[frame |-> [seq |-> written + 1, prev |-> head, id |-> id],
                     done |-> 0]>>
    /\ pc' = "push"
    /\ ret' = NoAnswer
    /\ UNCHANGED <<disk, head, counters, window, degraded, history>>

\* append: finish the outstanding record, or answer, or stamp a new one.
AppendRecord(id) ==
    /\ pc = "up"
    /\ UNCHANGED <<disk, head, counters, window, degraded, history>>
    /\ \/ /\ pending # <<>> /\ pending[1].frame.id # id
          /\ ret' = Answer("Busy", id, pending[1].frame.seq)
          /\ UNCHANGED <<pc, pending>>
       \/ /\ pending # <<>> /\ pending[1].frame.id = id
          /\ pc' = "push"
          /\ ret' = NoAnswer
          /\ UNCHANGED pending
       \/ /\ pending = <<>> /\ seen[id] # 0
          /\ ret' = Answer("Duplicate", id, seen[id])
          /\ UNCHANGED <<pc, pending>>
       \/ /\ pending = <<>> /\ seen[id] = 0
          /\ written < MaxSeq
          /\ pending' = <<[frame |-> [seq |-> written + 1, prev |-> head,
                                      id |-> id],
                           done |-> 0]>>
          /\ pc' = "push"
          /\ ret' = NoAnswer

\* The device took the next part of the frame and not the rest.
PushSome ==
    /\ pc = "push"
    /\ pending[1].done = 0
    /\ file' = Append(file, TwoCells(pending[1].frame)[1])
    /\ pending' = <<[pending[1] EXCEPT !.done = 1]>>
    /\ UNCHANGED <<durable, wm, pc, head, counters, window, degraded, ret,
                   history>>

\* Mutant: a resumed write starts again at the first byte of the frame.
PushAllAgain ==
    /\ pc = "push"
    /\ LET f == pending[1].frame
           w == Remember([seen |-> seen, order |-> order], f.id, f.seq)
       IN  /\ file' = file \o TwoCells(f)
           /\ head' = Append(f.prev, f.id)
           /\ written' = f.seq
           /\ seen' = w.seen /\ order' = w.order
           /\ ret' = Answer("Written", f.id, f.seq)
    /\ degraded' = FALSE
    /\ pending' = <<>>
    /\ pc' = "up"
    /\ UNCHANGED <<durable, wm, acked, history>>

\* The device took all that was left: the record is written.
PushRest ==
    /\ pc = "push"
    /\ LET f == pending[1].frame
           w == Remember([seen |-> seen, order |-> order], f.id, f.seq)
       IN  /\ file' = file \o SubSeq(TwoCells(f), pending[1].done + 1, 2)
           /\ head' = Append(f.prev, f.id)
           /\ written' = f.seq
           /\ seen' = w.seen /\ order' = w.order
           /\ ret' = Answer("Written", f.id, f.seq)
    /\ degraded' = FALSE
    /\ pending' = <<>>
    /\ pc' = "up"
    /\ UNCHANGED <<durable, wm, acked, history>>

\* No progress, no space or another error: the record stays outstanding.
PushStops ==
    /\ pc = "push"
    /\ \E why \in {"Stalled", "NoSpace", "Io"} :
          /\ degraded' = (degraded \/ why = "NoSpace")
          /\ ret' = Answer(IF why = "Io" THEN "Io" ELSE "Stalled",
                           pending[1].frame.id, pending[1].frame.seq)
    /\ pc' = "up"
    /\ UNCHANGED <<disk, head, counters, pending, window, history>>

(***************************************************************************)
(* sync and write_watermark.                                               *)
(***************************************************************************)

\* Mutant: acknowledges what was written without flushing it.
SyncWithoutFlush(lie) ==
    /\ pc = "up"
    /\ ~ lie
    /\ acked' = written
    /\ degraded' = FALSE
    /\ pc' = "ack_truncate"
    /\ ret' = NoAnswer
    /\ UNCHANGED <<disk, head, written, pending, window, history>>

\* The fsync of the journal file succeeds, or says so.
SyncOk(lie) ==
    /\ pc = "up"
    /\ lie => lies < MaxLies
    /\ lies' = lies + IF lie THEN 1 ELSE 0
    /\ durable' = IF lie THEN durable ELSE Len(file)
    /\ acked' = written
    /\ degraded' = FALSE
    /\ pc' = "ack_truncate"
    /\ ret' = NoAnswer
    /\ UNCHANGED <<file, wm, head, written, pending, window, promise,
                   recorded, rots>>

\* Mutant: a failed flush goes on to the watermark.
SyncFailsAndAcks ==
    /\ pc = "up"
    /\ acked' = written
    /\ degraded' = TRUE
    /\ pc' = "ack_truncate"
    /\ ret' = NoAnswer
    /\ UNCHANGED <<disk, head, written, pending, window, history>>

\* It fails: nothing is promised and nothing moves.
SyncFails ==
    /\ pc = "up"
    /\ degraded' = TRUE
    /\ ret' = Answer("SyncFailed", NoId, acked)
    /\ UNCHANGED <<disk, pc, head, counters, pending, window, history>>

\* sync returns Ok(acked): from here on the caller counts on those records.
SyncReturns ==
    /\ pc' = "up"
    /\ ret' = Answer("Synced", NoId, acked)
    /\ promise' = SubSeq(head, 1, acked)

AckTruncate ==
    /\ pc = "ack_truncate"
    /\ wm' = [val |-> 0, len |-> 0, dur |-> 0]
    /\ pc' = "ack_append"
    /\ UNCHANGED <<file, durable, memory, ret, history>>

AckAppend ==
    /\ pc = "ack_append"
    /\ \E n \in (wm.len + 1)..2 :
          /\ wm' = [val |-> acked, len |-> n, dur |-> wm.dur]
          /\ pc' = IF n = 2 THEN "ack_fsync" ELSE "ack_append"
    /\ UNCHANGED <<file, durable, memory, ret, history>>

AckFsync(lie) ==
    /\ pc = "ack_fsync"
    /\ lie => lies < MaxLies
    /\ lies' = lies + IF lie THEN 1 ELSE 0
    /\ wm' = IF lie THEN wm ELSE [wm EXCEPT !.dur = wm.len]
    /\ recorded' = IF lie THEN recorded ELSE acked
    /\ SyncReturns
    /\ UNCHANGED <<file, durable, memory, rots>>

\* Any of its I/O calls fails: not a failure to sync.
AckFails ==
    /\ pc \in {"ack_truncate", "ack_append", "ack_fsync"}
    /\ SyncReturns
    /\ UNCHANGED <<disk, memory, recorded, lies, rots>>

(***************************************************************************)
(* The environment.                                                        *)
(***************************************************************************)

\* The process ends; what it wrote stays in the operating system's cache.
Exit ==
    /\ pc # "down"
    /\ pc' = "down"
    /\ ret' = NoAnswer
    /\ FreshMemory
    /\ UNCHANGED <<disk, history>>

\* SimIo::crash on both files: a prefix of what was not flushed survives.
LoseTails ==
    \E n \in durable..Len(file), m \in wm.dur..wm.len :
        /\ file' = SubSeq(file, 1, n)
        /\ durable' = n
        /\ wm' = [val |-> wm.val, len |-> m, dur |-> m]

PowerCut ==
    /\ LoseTails
    /\ pc' = "down"
    /\ ret' = NoAnswer
    /\ FreshMemory
    /\ UNCHANGED history

\* The crash of the repository's simulations: the disk forgets, the handle
\* survives and recover is called on it next.
PowerCutThenRecover ==
    /\ LiveRecovery
    /\ pc = "up"
    /\ LoseTails
    /\ pc' = "boot"
    /\ ret' = NoAnswer
    /\ UNCHANGED <<memory, history>>

\* One cell of the file rots while no process has it open.
Rot ==
    /\ pc = "down"
    /\ rots < MaxRot
    /\ \E i \in 1..Len(file) :
          /\ file[i].what.id # Junk
          /\ file' = [file EXCEPT ![i].what = NoFrame(Junk)]
    /\ rots' = rots + 1
    /\ UNCHANGED <<durable, wm, pc, memory, ret, promise, recorded,
                   lies>>

Next ==
    \/ Open \/ Recover \/ EnsureHeader \/ WriteHeader \/ OpenFails \/ Adopt
    \/ \E id \in Id : AppendRecord(id)
    \/ PushSome \/ PushRest \/ PushStops
    \/ \E lie \in BOOLEAN : SyncOk(lie) \/ AckFsync(lie)
    \/ SyncFails \/ AckTruncate \/ AckAppend \/ AckFails
    \/ Exit \/ PowerCut \/ PowerCutThenRecover \/ Rot

Spec == Init /\ [][Next]_vars

(***************************************************************************)
(* Properties.                                                             *)
(***************************************************************************)

Running == pc \in {"up", "push", "ack_truncate", "ack_append", "ack_fsync"}

DiskType ==
    /\ file \in Seq(Cell)
    /\ durable \in 0..Len(file)
    /\ wm \in [val : Nat, len : 0..2, dur : 0..2]
    /\ wm.dur <= wm.len

ProcessType ==
    /\ pc \in {"down", "boot", "header", "adopt", "up", "push",
               "ack_truncate", "ack_append", "ack_fsync"}
    /\ head \in Seq(Id)
    /\ written \in Nat /\ acked \in Nat
    /\ pending \in Seq([frame : Frame, done : 0..1])
    /\ Len(pending) <= 1
    /\ degraded \in BOOLEAN

HistoryType ==
    /\ promise \in Seq(Id)
    /\ recorded \in Nat
    /\ lies \in 0..MaxLies
    /\ rots \in 0..MaxRot

\* Every variable outside the DedupWindow has its type.
TypeOK == DiskType /\ ProcessType /\ HistoryType

\* The DedupWindow never outgrows its capacity, and its map and its queue hold
\* the same ids, each once, whatever mix of appends and recoveries filled it.
WindowAgrees ==
    /\ seen \in [Id -> Nat]
    /\ order \in Seq(Id)
    /\ Len(order) <= DedupCap
    /\ \A i, k \in 1..Len(order) : order[i] = order[k] => i = k
    /\ \A id \in Id : seen[id] # 0 <=> \E i \in 1..Len(order) : order[i] = id

HonestDisk == lies = 0 /\ rots = 0

\* The durability contract: on a disk that does what it reports, every record
\* a returned sync has promised is whole, in its place and beyond the reach of
\* a power cut, in every state of the process, recovery included.
AckedSurvives ==
    HonestDisk /\ promise # <<>> =>
        /\ EndOf(Len(promise)) <= durable
        /\ \A k \in 1..Len(promise) : Follows(file, k)
        /\ Ids(file, Len(promise)) = promise

\* On such a disk recovery never cries wolf: it reports no durability
\* violation and never finds a corrupt file, whatever was torn by a crash.
NoFalseAlarm ==
    HonestDisk => /\ ~ ret.alarm
                  /\ ret.kind \notin {"CorruptHeader", "CorruptMidFile"}

\* A running journal's memory is what its file says: the chain head and count
\* are those of the whole frames, and an outstanding record's bytes are the
\* only thing after them, so nothing is ever orphaned in mid-stream.
MemoryMatchesFile ==
    Running =>
        /\ WalkStopsAfter(file, written)
        /\ head = Ids(file, written)
        /\ Len(file) = EndOf(written)
                        + IF pending = <<>> THEN 0 ELSE pending[1].done

\* A Duplicate answer names the position the record really has: every id in
\* the window is the id of the frame at the position remembered for it.
DuplicateIsOnFile ==
    Running => \A id \in Id : seen[id] # 0 =>
                  seen[id] <= written /\ head[seen[id]] = id

\* Accepting a record is idempotent within the window, across restarts too:
\* two frames with one id are more than DedupCap positions apart.
DuplicatesFarApart ==
    Running => \A i, k \in 1..written :
                  i < k /\ head[i] = head[k] => k - i > DedupCap

\* DedupWindow: whatever mix of appends, crashes and recoveries filled it, the
\* window is within its capacity, names only positions the records really have,
\* and lets no record on file twice within its reach.
WindowIsExact == WindowAgrees /\ DuplicateIsOnFile /\ DuplicatesFarApart

\* Journal::recover and append on a disk that may lie and rot: as long as it has
\* done neither the contract holds, and the window agrees with itself always.
RecoveredIsSound == WindowAgrees /\ AckedSurvives /\ NoFalseAlarm

Recovering == pc \in {"boot", "header", "adopt"}

KeepsEvidence ==
    /\ \A i \in 1..Len(file) : ParsesAt(file, i) => ParsesAt(file', i)
    /\ \A x \in {OtherOwner, NotJournal} : file = Foreign(x) => UNCHANGED file

\* Recovery, in all of its steps, keeps every frame that still parses and
\* leaves a file of somebody else alone: what it cannot repair it refuses.
RecoveryDestroysNoEvidence ==
    [][Recovering /\ pc' # "down" => KeepsEvidence]_vars

\* acked never decreases while the process lives, recovery on a live handle
\* after a crash of the disk included, provided the disk is honest.
AckedOnlyGrows ==
    [][HonestDisk /\ pc # "down" /\ pc' # "down" => acked' >= acked]_vars

\* If less comes back than a watermark that reached the disk had promised,
\* recovery says so: after one flush that lied the promise never drops in
\* silence.  (With two, the watermark's own flush may be the other one.)
OneLieIsReported ==
    [][pc = "adopt" /\ pc' = "up" /\ written' < recorded
       /\ rots = 0 /\ lies <= 1 => ret'.alarm]_vars

\* The records a reader of the file would find.
LogOf(cells) ==
    Ids(cells, CHOOSE n \in 0..Len(cells) : WalkStopsAfter(cells, n))

Contract == INSTANCE JournalContract
                WITH log <- LogOf(file), acked <- Len(promise)

\* On an honest disk the journal, with its torn writes, recoveries and
\* watermark file, implements the contract: every step appends one record,
\* acknowledges, loses an unacknowledged tail or changes nothing a reader of
\* the log can see.
ImplementsContract == Contract!Spec
=============================================================================
