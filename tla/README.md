# A TLA+ verification of trailryx

trailryx keeps evidence of what AI agents did: records go into an append-only,
hash-chained journal, are sealed into segments with a manifest, published to an
object store, queried with proofs, and erased by destroying keys. Almost
everything it promises is a promise about **order across failures**: what was
acknowledged survives a power cut, what is sealed is whole, a cursor never runs
ahead of the evidence, a manifest never appears without its body. Those promises
need several steps, several actors and a crash in the wrong place to break,
which is what these modules explore.

## 1. The system

| Part | State it keeps | Operations | Talks to |
|---|---|---|---|
| Journal (`trailryx-journal`) | segment file, `.ack` watermark file, chain head, written and acked counts, one outstanding frame, deduplication window | open, recover, append, push, sync, write the watermark | a disk behind the `Io` trait (`trailryx-sim` has the faulty one) |
| Plane (`trailryx-node/plane.rs`) | one journal per segment, one manifest per sealed segment, what it owes as notes, the age of the oldest unsealed record | open, accept, sync, tick, seal | Journal, Assembler, `seal_segment`; driven by the drain loop of `main.rs` or by `events.rs` |
| Event shipping (`events.rs`, `cursor.rs`) | the cursor file beside the data | ship a file: read, frame, hand over, seal, commit the cursor | Plane; a producer that writes and rotates the file |
| Publication and tier (`trailryx-publish`, `store/cold.rs`, `store/tier.rs`) | objects in a bucket, segments held in memory | publish, retry, read back; query, warm, evict | `ObjectStore` (S3, Azure, fakes), rival publishers |
| Assembler (`trailryx-assemble`) | a bounded window of source names, lost edges per run | adopt a batch, resolve its edges, give up its losses as notes | sources, Plane, readers |
| Ingest server (`trailryx-ingest`) | connections, bytes in flight, replay cache of the agent door, a buffer per connection | accept, shed, read a head and a body, admit, submit, answer | exporters, the source |
| OTLP and GenAI sources (`trailryx-otlp`) | a queue of mapped spans, loss counters | decode, map, queue, poll, note | the server, files of lines, the drain loop |
| Signing queue (`node/signing.rs`, `keyryx.rs`) | pending and signed directories | enqueue, drain oldest first, reconcile | a key service |
| Erasure (`trailryx-erasure`, `crypto-aws/persisted.rs`) | a ledger of keys per subject, in memory; a file or a key service entry per key; envelopes and erasure manifests in the object store | seal, open, attribute, forget; wrap, unwrap, destroy | a custodian (`KeyProvider`), `ObjectStore` |
| Read surface and index (`trailryx-store`, `trailryx-index`) | derived from sealed segments | query, reconstruct, prove inclusion, growth and completeness, write packs | readers, the verifier |
| Verifier and anchoring (`trailryx-verify`, `trailryx-anchor`) | the last request sent to an authority | check a pack; obtain and check a time stamp | an authority, an auditor |
| Federation and replication | none; the head of a replica | ask peers and merge; take a run of records | other nodes |
| Simulated shards (`trailryx-core`, `trailryx-sim`) | a journal per shard, a bus | tick, send, crash, recover | the simulated disk |
| Record and codecs (`record`, `journal/wire.rs`, `json`, `asn1`) | none that outlives a call | encode, decode, walk | everything |
| Adapters, ciphers, SQL, reports | none of their own logic's | call out, evaluate, render | |

How the parts meet: a source hands a batch to the Plane, the Plane appends it to
the open segment's Journal and syncs; when the segment is full or old enough the
Plane seals it, which writes a manifest and opens the next journal at the head
the last one ended on; sealed segments are published and later fetched back.
`events` runs move their cursor only behind a seal, and queue the new root for a
signature. Hand-overs are synchronous calls in one process, but for the OTLP
server, whose threads and the drain loop share one source behind a mutex. The
other concurrency comes from other processes (producers, rival publishers,
exporters, peers), from the disk, and from processes that end between any two
calls.

What is hard, and what each part must guarantee, is listed with its line under
`hazards` in `PROJECT.json`, the forty that matter most. In short:

* **Journal**: torn and short writes, a full disk, flushes that fail or lie, bits
  that rot, a crash inside recovery, recovery on a handle in use. Acknowledged
  records survive; losses are reported; nothing that still parses is destroyed;
  the same id is not stored twice within the window.
* **Plane**: a crash between note, sync, manifest, rename and roll. Sealed
  segments are whole and chained, every record is sealed in the end, a loss is
  noted beside its record.
* **Shipping**: a crash between seal and cursor, half lines, rotation, a wrong
  trust domain. The cursor stays behind the evidence, and not too far behind.
* **Publication**: lost answers, rivals, expiry, an administrator. One manifest
  per segment, never without its body; success is told only to its owner.
* **Erasure**: a crash between a rename and its flush, a failure in the middle of
  a subject's keys, services that only schedule, operators who cancel. What was
  reported as erased never opens again; what was stored opens until then; a
  retry sees every key that could still be used.
* **Ingest**: connections, the accept loop and the drain loop in any order, a full
  queue, a panic under the lock, a peer that never finishes. Budgets are given
  back on every way out, answers are true, losses are written down; a proof of
  possession opens the door once; requests are what was sent.
* **Signing**: a crash between two directories, a key that rotates, a service that
  is away. One signature per root, under the pinned key, in the end.
* **Assembler, files of lines**: bounded windows and queues, any chunking. Nothing is
  lost without a note.
* **Readers**: boundaries of ranges, trees of odd sizes, packs cut between segments,
  streams without their end. An answer says what is proved of it.
* **Codecs**: several readers of one format. They agree, at the limits too.

## 2. Modules

| Module | Models | Uses |
|---|---|---|
| `JournalContract` | the promise of `docs/durability.md`: a log that grows at its end and loses at most an unacknowledged suffix | |
| `Journal` | `journal.rs`, `wire.rs`, `chain.rs`, the disk of `sim/io.rs` | implements `JournalContract` |
| `JournalProofs`, `ContractProofs` | TLAPS proofs about `Journal`: durability; the window, the action properties and the refinement | extend `Journal`, the second the first |
| `Plane` | `plane.rs`, the drain loop, `seal_segment` | implements `JournalContract` across segments |
| `Ship` | `events.rs`, `cursor.rs`, `map_line` | extends `Plane` |
| `Publish` | `publish/lib.rs`, `cold.rs`, `tier.rs` | |
| `Vault` | `erasure/vault.rs`, `subject.rs`, `crypto-aws/persisted.rs`, `SchedulingKeyProvider` of `contracts/fakes.rs` | |
| `VaultProofs`, `PlaneProofs`, `ShipProofs`, `PublishProofs` | TLAPS proofs | each extends the module it is about; `ShipProofs` also `PlaneProofs` |
| `IntakeProofs`, `EdgeProofs` | TLAPS proofs: `Ingest` and `Signing`; `Door`, `Replica`, `Shard` and `Head` | extend the modules they are about, which share no state |
| `Ingest` | `server.rs`, `handler.rs`, `response.rs`, `otlp/source.rs`, start, stop and drain loop of `node/main.rs` | |
| `Door` | `agent_door.rs`, `agent_token.rs`, `auth.rs`, `bearer.rs`, `jose.rs` | |
| `Head`, `RequestForms` | the buffer and scanner of `request.rs`; its rules on the parts of a head, and `inflate.rs` | |
| `Signing` | `signing.rs`, `keyryx.rs`, their callers in `main.rs` and `events.rs` | |
| `Assembler` | `assemble/lib.rs`, `correlation.rs` | `Query` for what a reader sees |
| `Query` | `store/query.rs`, `causal.rs` | |
| `Index` | `index/merkle.rs`, `completeness.rs`, `segment.rs` | |
| `Verify` | `verify/verify.rs`, `pack.rs`, the pack writer of `store/evidence.rs` | extends `Index` |
| `Otlp` | `otlp.rs`, `protobuf.rs`, `otlpjson.rs` | |
| `Semconv`, `Envelope` | `semconv.rs`; `agentevent/lib.rs` | |
| `Json`, `Jsonl` | `json/{lex,number,reader}.rs`; `json/frame.rs`, `otlp/jsonl.rs` | |
| `Record` | `record/{ids,schema,record}.rs`, `journal/wire.rs`, `verify/record.rs` | |
| `Der`, `Montgomery`, `Timestamp` | `asn1/lib.rs`; `anchor/{bignum,rsa}.rs`; `anchor/tsp.rs`, `verify/tsp.rs` | |
| `Anchor` | `anchor/lib.rs` | `Timestamp` |
| `Federation`, `Replica` | `federation/lib.rs`, `federation-grpc`; `replication.rs` | |
| `Shard` | `core/{shard,sim,record}.rs`, `sim/{bus,io}.rs` | |
| `Questions` | one state per question, for pure algorithms | |
| `MCJournal`, `MCVault`; `MCIntake`, `MCEdge`; `MCForms`, `MCRecords`, `MCAttest` | values for TLC; compositions; the questions | |

**How the parts are composed.** Plane and Ship share state and are one
specification. The components of `MCIntake` and of `MCEdge` share none: a variable
`part` chooses one component per behaviour and leaves the others where they start,
so that one run checks them all without multiplying their states. A property of
one part is trivially true of the behaviours of the others, and liveness is
stated per part.

**Pure algorithms** are operators. `Questions` makes one state per input, and a
property evaluates the code's algorithm and a reference definition on it, as an
action property on the step that goes on to the next question: a
parser against its grammar, a bit-serial product against `*` and `%`, a proof
verifier against the set of answers that are really complete, a decoder against
its encoder, one transport against the other. Altered inputs are enumerated too:
every pack, token, frame or stream with one thing changed.

**Journal.** One action per I/O call: between two of them a process may exit and
power may fail. A file is a sequence of *cells*, two per frame and two for the
header, so that a torn header, a torn frame and a short write are different
states; a checksum holds exactly when both cells of one frame follow each other.
Hashes are injective: a chain head is the sequence of ids it commits to.
`durable` is how many cells a power cut cannot take, and `LoseTails` keeps any
prefix between it and the end, as `SimIo::crash` does. `pc` names the call the
process is about to make: `boot`, `header`, `adopt` are `open`/`recover`; `up`,
`push` are `append`; the `ack_*` steps are `write_watermark`. `promise` and
`recorded` are history: what a returned sync covered, and what the `.ack` file
has named.

**Plane.** A segment's journal is reduced to what `JournalContract` says: records,
how many are durable, the head it started from. `Open`/`Resync` are `Plane::open`,
`Accept`, `Sync`, `Idle`, `TimePasses` and `StartSeal` are turns of the drain
loop, `FlushNote`, `SealSync`, `Commit`, `Roll` the steps of `seal`. A rename that
was not followed by a directory flush (`Commit(FALSE)`) may be undone by the next
power cut. Time is whether the oldest unsealed record is past the limit.

**Ship.** Replaces the drain loop by one run of `trailryx-node events` after the
other. A line is its number; what `map_line` does with it is one of four kinds.
The producer starts and ends lines and rotates the file at any moment; `Die` ends
the run anywhere. A run may be handed the lines' own trust domain, the one the
`other` lines carry, or one no line carries: under the second it stores those lines
and its cursor goes past the own ones it refused, under the third it stores nothing
and the cursor is held. `waived` is history: the mappable lines that a run which
stored others went past. The properties of `Ship` except exactly these.

**Publish.** Each node's call to the store is one step; the store's writes may be
performed and their answer lost (`PutBodyLost`, `PutManifestLost`), not performed
(`Unreachable`) or impossible (`Unsupported`). `Change` is somebody else with
access to the bucket, `Expire` a lifecycle rule. One shard is modelled: segments
of different shards have different keys and are evicted separately.

**Vault.** One action per call that leaves the process. `StartSeal` to `PutPayload`
are `Vault::seal` with `PersistedKeyProvider::wrap` inside it; `StartForget` to
`PutManifest` are `Vault::forget` with the loop over the row's keys, `Destroy` and
`DestroyFlush` being the two halves of `commit` (rename, then directory flush).
The key of a payload is named after its record, so a record stands for its key;
`gen` numbers the pairs made under one id and an envelope opens under the pair it
was wrapped for. `key` is what the custodian answers, `durable` what it would
answer after a power cut. A commit whose flush failed, or whose process ended
before it, puts its key into `missed`: the constant `MayMiss` bounds which keys
that may happen to, and the properties except exactly those, while the run
`VaultUndone` shows what happens to them. Over the scheduling custodian `due` is
how far away a destruction is; dates are kept as distances, so that time is one
bounded action (`Tick`), and `told` is the date a controller was given. `About`
says whose data each record may hold, so that a key shared by two subjects is in
the instance without every assignment being tried. An end of the process takes
the call and the ledger, which the code keeps only in memory.

**Ingest.** One action per step of `serve_connection`: between two of them any other
thread, the accept loop (`AcceptConnection`, `SpawnFails`, `Shed`, `Stop`) and the drain loop
(`Poll`, `NoteAnomalies`, `PlaneAccepts`, `PlaneRefuses`) run. What happens under
one `with_source` is one step; `PanicUnderLock` poisons the mutex, after which the
node reports itself degraded and the drain loop exits. A request is what its head
says and what its body turns out to hold. A deadline is a step that may be taken
whenever a thread waits for its peer. Whether the source can name the record it
reports its anomalies in (`canName`) is chosen at the start: the trust domain was
validated with a shorter agent name than that record's. Where it cannot, a report is
marked as made and is lost. Values that are not UTF-8 are counted apart (`garbled`),
outside the total that makes a report due, as in the code.

**Door, Head.** A token and a proof name the key that signed them and what they were
made for; the replay cache has its two generations and its cap. The clock is the
wall clock and `ClockMoves` sets it to any time, ahead or back. A byte is one of
the four the scanner tells apart, and arrives in any portions.

**Signing.** Root *n* is the root after the *n*-th seal, a signature the key and the
statement it was made over. The service is away, answers, answers wrongly or has
rotated its key, and changes its mood at any moment.

**Jsonl.** The framer and the source, byte by byte over small alphabets, with every
chunking, partial marks included, and a consumer that drains and acknowledges when
it likes.

**Assembler.** Names used twice, parents before and after their children, in the
same batch and in another run; the window and the map of losses are at their
limits after two names.

**Anchor, Replica, Shard.** The network between a caller and an authority, or a
sender and a receiver, loses, repeats, reorders and damages; the simulated disk
writes short, fills up, fails to flush or lies, and the bus drops, repeats and
delays.

**Scaled numbers.** Where a width matters it is a constant: `Der` has bytes of eight
values, `Montgomery` limbs of two bits, `Record` varint groups of two bits and
numbers of five, `RequestForms` inflate codes of up to three bits, `Federation` instants up to
`ExpHalf`. The carries, overflows and limits of the code happen at these widths.

## 3. What is checked

Passing runs (TLC, exhaustive within the bounds):

| Run | Properties | Bounds |
|---|---|---|
| `JournalHonest` | `TypeOK`, `WindowIsExact`, `AckedSurvives`, `NoFalseAlarm`, `ImplementsContract` | 3 ids, window of 2, 4 records |
| `JournalFaults` | `MemoryMatchesFile`, `RecoveredIsSound`, `RecoveryDestroysNoEvidence`, `OneLieIsReported`, `AckedOnlyGrows` | 2 ids, window of 1, 3 records, one lying flush, 2 rotten cells, `recover` on a live handle |
| `PlaneRuns` | `SealedHistoryIsWhole`, `NotesBesideRecords`, `ShardIsOneLog`, `EverythingIsSealed` | 2 runs, 3 units, 4 segments, 2 ends of a process, one directory flush that did not happen |
| `IntakeRuns` | Ship: `CursorIsInBounds`, `LinesAreSealed`; Ingest: `IntakeIsAccounted`, `IngestComesToItsEnd`; Signing: `QueueIsKept`, `RootsAreSigned` | 3 lines of 2 kinds, runs under any of 3 domains, 1 rotation, 1 end; 3 connections for 2 places, 3 visits, 3 requests, queue of 2, a source that can name its report and one that cannot; 2 seals, 2 keys, 1 failed write |
| `PublishRace` | `PublishedIsReadable`, `OneRivalWins` | 2 nodes, 2 values, 2 segments, 2 tries |
| `PublishChange` | `AnswersAreCommitted`, `EveryCallReturns` | 1 node, 2 segments, 2 tries, 2 changes, expiry |
| `VaultRuns` | `VaultTypeOK`, `ErasedStaysErased`, `SealedOpens`, `RowOutlivesKeys`, `NoEarlyDate`, `AskedIsForgotten` | 2 records, 2 subjects who share one, window 1, 1 end, 1 fault, 1 key that may miss a flush; both custodians |
| `EdgeRuns` | `DoorIsSound`, `RequestsAreWhatWasSent`, `SourcesAreAccounted`, `AnchorsAreOurs`, `ReplicaIsTheLog`, `ShardKeepsItsPromise`, `ReadsAreProved`, `ParsersAgree`, `RecordsAgree`, `AttestationsAgree` | given in `MCEdge` beside each component |

`SealedHistoryIsWhole`, `CursorIsInBounds`, `PublishedIsReadable`, `OneRivalWins`,
`RecoveredIsSound` and `WindowIsExact` are conjunctions of named parts, each with a
comment of its own; where a part can fail on its own, a further mutant shows it.
What the properties of `EdgeRuns` say:

* `DoorIsSound`: a proof lets somebody in at most once, however the clock is set and
  the generations of the replay cache turn, except a proof the cache has outlived
  before the clock was set back (`Outlived`, see the limits below); only proofs that verified are remembered, only agents of
  the domain come in.
* `RequestsAreWhatWasSent`: the requests taken off a connection and what is left in
  the buffer are, byte for byte, what has arrived, and a head is the first clean run
  of lines up to an empty one.
* `SourcesAreAccounted` is `Jsonl`'s `JsonlIsFaithful` (lines, their numbers, records,
  cursors and losses are those of the file and not of how it was chunked and drained)
  and `Assembler`'s `EdgesAreToldOrNoted` (an edge leads to a record of the parent's
  name; a run that lost one is never reconstructed as complete, unless the map of
  losses was full).
* `AnchorsAreOurs`: a receipt answers the call that returned it; an attestation is
  about the root asked for, under a pinned key.
* `ReplicaIsTheLog`: what was adopted is a stretch of the sender's log, but for a
  last record nothing has been hashed over yet.
* `ShardKeepsItsPromise`: promised records survive on an honest disk, a recovery
  meets no gap, and no message speaks of a record its sender lost.
* `ReadsAreProved`: queries and reconstructions against their definitions, every
  claimed completeness, inclusion or consistency proof against the tree, every
  altered pack against its root.
* `ParsersAgree`, `RecordsAgree`, `AttestationsAgree`: the codecs, mappers, the
  federation stream and the arithmetic against their references.

Why the bounds are enough. A window of two with four records and three ids lets an
id fall out of the window and come back, on both sides of the boundary. Three
records leave one before and one after a rotten frame. `SealAfter = 2` with three
units gives a segment sealed by size, one sealed by age and one inherited from a
dead process; two ends put a crash into the recovery of the first. Three lines and
a batch of one let a commit fall between two lines of one segment. Two tries are
one lost answer and the retry that meets its own write. Two subjects who share a
record let one be forgotten while the other's row still names the key; a window of
one separates a destruction scheduled, due and done; one end with one fault puts a
damaged file, a failed write or a cancellation before or after the restart.
Three connections for two places make one of them shed; a queue of two and batches
of up to two spans put two connections on both sides of its limit, and a byte budget
of four has room for some pairs of bodies and not for others. Two
generations of the replay cache and a clock that is set to any of eleven times, with a
window of two, carry a proof through both rotations, one by one and in one leap, and
back again. A window of two names and four events evict a parent
before its child. Files of five bytes and lines of three reach every state of the
framer. Trees of up to six leaves have every shape of a proof that is not a power
of two. One altered thing at a time is what each single check is there to see.

Deadlock is checked in `Journal`, `Plane`, `Publish` and `Vault`: nobody waits for
anybody there, and the bounds leave a restart or a new call possible. It is not in
`IntakeRuns` and `EdgeRuns`, where peers stop coming, files end and processes stop
for good; that nothing hangs before is what the liveness properties say.

Runs that show a disagreement between the code and its own documentation
(`expect: violation`; each quotes the line under `findings`):

| Run | What TLC shows |
|---|---|
| `PlaneNotes` | a process that ends before the seal leaves losses without a note |
| `PublishLostAck` | `Unavailable` after a lost answer although the manifest is committed |
| `VaultUndone` | a retry answers Already for a tombstone whose rename was never flushed; the erasure is reported complete and a power cut undoes it |
| `VaultEvidence` | the row is dropped, the manifest's write fails, and the retry finds nothing to name: no stored manifest mentions the destroyed keys |

Some limits of the code show when a passing run's bounds are widened, or lie
outside what it promises; where a property meets one, it names it:

* with **two** lying flushes, or a lying flush and rot, `OneLieIsReported` would not
  hold: `write_watermark` truncates before it rewrites, so the promise and the
  records can go together;
* with a directory flush lost (`MaxUnnamed = 1`), a re-sealed segment can end on
  another head than the next journal started from; `Plane::open` then refuses, and
  the records in that journal stay unsealed (`EverythingIsSealed` excepts it);
* with `Expiry = TRUE` and two publishers, a lifecycle rule that removes bodies
  without a manifest can act between the two writes of one publisher, and
  `ManifestHasBody` (in `PublishedIsReadable`) fails. The rule has to spare young objects;
* `recover` on a handle in use keeps the deduplication window of before
  (`LiveRecovery = TRUE`): that a duplicate is on file is checked, as a part of
  `WindowIsExact`, in the run without it, and proved under the same condition. Where
  such a call answers with an error, the caller is taken to drop the handle, which the
  code leaves usable (journal.rs:560-591);
* a commit inside an `events` run passes refused lines that precede the batch's
  last record, and a foreign line without a run id holds the cursor although no
  trust domain would map it. No evidence is lost by either;
* an `events` run under the trust domain of *other* lines of the file stores those, and
  its cursor passes the own lines it refused, which no later run reads again
  (events.rs:316-334, by design). `CursorIsInBounds` and `LinesAreSealed` name these
  lines (`waived`);
* the vault's ledger is not persisted: after a restart `forget` finds no row until
  the caller attributes the keys again. `RowOutlivesKeys` is about one process;
* each segment starts with an empty deduplication window, so a retry just after a
  roll is stored again, which section 6 of `docs/durability.md` allows;
* the cursor and the manifest are renamed one after the other, each followed by a
  directory flush whose error is ignored. `PlaneRuns` loses the manifest's name;
  that the older rename is lost and the newer kept is not modelled.

Differences between the code and its comments that were met while modelling, and
that the properties name or except rather than refute:

* `agentevent`: of a partial `delegation_proof` the payload keeps `{}`, where the
  comment says it goes there whole (lib.rs:1382-1384), and one whose thumbprint or
  identifiers do not parse goes to neither plane (lib.rs:1247-1249 says to the
  payload); an unknown `severity` lands in neither plane;
  `Report::lost` omits `claimed_subject`; a line of a foreign domain is refused as
  such before its run id and time are looked at.
* `signing.rs:3` queues "the root a seal makes"; an `events` run that seals several
  segments queues only the root after the last of them (main.rs:531-535), and a node
  that dies between a seal and the queue only what the next start finds.
* `agent_token.rs`: "nothing is forgotten while a proof carrying it could still be
  fresh" (lines 585-586), and a clock nudged forwards and back must not empty the cache
  (595-597). `started` never goes back, but the leap ahead alone turns the generations,
  or drops both (620-623); if the clock is then set back to where the proof is fresh,
  the proof lets somebody in twice. `DoorIsSound` excepts this case only (`Outlived`).
* `otlp/source.rs`: `note_anomalies` "returns `None` when nothing has gone wrong since
  the last call" (286), but also when the record's identifiers do not parse, after the
  total was marked as reported (290-297); the report is then lost. A batch whose only
  fault was invalid UTF-8 is never reported. `src/README.md` records both as defects of
  this source (1774-1782). `IntakeIsAccounted` and `IngestComesToItsEnd` speak of
  written reports only where the record can be named, and say that none is written
  where it cannot.
* `store/cold.rs` explains `BodyMissing` as "a publication interrupted between its two
  writes" (58-60, 76-79). The order of `publish/lib.rs` (10-15) leaves a body without a
  manifest there, never the reverse, which is what `PublishedIsReadable` checks; a body
  that is missing was removed from the bucket afterwards.
* `anchor`: after a second `submit` of the same root, `verify` of the first receipt
  answers false, because only the last nonce is kept; the reader of `TSTInfo` there
  is looser than the verifier's.
* `federation-grpc`: a trailer may say Full and carry reasons (transport.rs:206-211),
  a second trailer replaces the first, an expiry at or past 2^63 ns arrives as 0, and
  a peer listed twice doubles its rows; a node whose agent ids are laxer than the
  strict form cannot be read by a peer.
* `replication.rs`: a damaged last record of a run is taken, since nothing has been
  hashed over it, and sequence numbers are not compared across a run's boundary.
* `core/shard.rs`: `acked` is said never to decrease; recovery takes the smaller of
  two counts, which matters only after a flush that lied.
* `semconv.rs`: a temperature is rounded to thousandths although the header says
  nothing is; resource attributes other than `service.name` are not kept.

Every property of a passing run has a mutant of the code's step in
`PROJECT.json` (a dropped flush, a missing reset, an order swapped) under which
TLC finds it violated. Mutants are the definitions commented `Mutant:`.

## 4. Fairness

* `Plane!FairSpec`: weak fairness of opening, of the steps of a seal and of the
  clock. The drain loop of `main.rs` ticks every turn, ends only with the
  process, and a supervisor starts the process again; ends are bounded.
* `Ship!FairShipSpec`: weak fairness of the steps of a run (`RunStep`), strong
  fairness of starting a run with the right trust domain (`Begin("own")`). Runs are started by a timer, and
  eventually with the right configuration; other runs may come in between, which
  is why the start needs the strong form.
* `Ingest!IngestFairness`: weak fairness of every thread and of the drain loop. Every
  wait for a peer has a deadline (`Config`'s timeouts), so a thread always comes to
  its next step; the drain loop sleeps and turns. Nothing is assumed of peers.
* `Signing!SigningFairness`: weak fairness of the drain, of the retry interval and of
  the timer that starts `events`. `RootsAreSigned` is conditional on a service that
  answers from some time on and a process that stays up.
* `Publish!FairSpec`: weak fairness of a call that was made. `publish` has no
  clock and waits for nobody. Nothing is assumed of the store: it may fail for
  ever.
* `Vault!FairSpec`: weak fairness of a call that was made, and of the key service's
  clock and shredding, which is its contract. Strong fairness of asking again to
  forget a subject while keys it was asked for are in the row: the vault has no
  timer, so a retry is the caller's ("the retry every erasure job performs", as
  `forget` has it); other calls may come in between. Faults, ends and
  cancellations are bounded.

Producers, visits and ends are bounded, so what has to happen to every item in turn
is stated as `<>[]`: from some time on nothing is left over. In `MCIntake` each
component has its own fairness, on its own variables and only while it is the part
the behaviour is of. The parts of `EdgeRuns` are checked for safety only.

## 5. What is proved

`JournalProofs` proves, for every set of ids, every window capacity and every
bound, under the assumptions named in `Journal` (the sentinels are distinct and
not ids; the bounds are natural numbers):

* `TypeCorrect`: `Spec => []TypeOK`;
* `MemoryCorrect`: `Spec => []MemoryMatchesFile`, on any disk;
* `Durability`: `Spec => []AckedSurvives`;
* `Calm`: `Spec => []NoFalseAlarm`.

`MemoryMatchesFile` says nothing of a process that is still recovering, so it is
not inductive. `RunInv` adds what `ensure_header` has established at each step,
and states the file's shape as `Well`: a prefix of a header followed by frames
that each continue the chain of the ones before, cut at any cell. `Well` is
closed under what `push_pending` and recovery do to the file, and determines
where the walk stops (`WalkedIsWell`, `WellFollows`). `IndRun` is `TypeOK` with
`RunInv`, one lemma per action.

For the two properties of an honest disk, `HonestInv` says in every state,
process or none, that the file is either somebody else's or `Well` with every
promise, the watermark, the acked count and the positions the watermark steps
are about to record inside the durable prefix (`OursInv`). That a promise lies in
the *durable* part, and not merely on file, is what makes it inductive over a
power cut. `WellPrefix` closes it over the cut itself.

`VaultProofs` proves, for every set of records and subjects, every assignment of
one to the other, every window and every bound (`VaultAssumption`):

* `VaultTypeCorrect`: `Spec => []VaultTypeOK`;
* `ErasureIsFinal`: `Spec => []ErasedStaysErased`;
* `PayloadsOpen`: `Spec => []SealedOpens`;
* `RowsOutliveKeys`: `Spec => []RowOutlivesKeys`;
* `DatesAreKept`: `Spec => []NoEarlyDate`.

All five follow from one invariant, `Inv`, with one lemma per action. `GenInv`
counts the pairs of an id by the ends of the process: only a power cut makes an id
absent again. `DiskInv` says that the disk differs from what is seen only for the
commit under way and for keys that missed a flush. `CallInv` is what a call under
way has established, above all that `forget` has dealt with, or still has to do,
everything in its row. `GoneInv` needs an erased key to be gone *durably*, which is
what carries `ErasedStaysErased` over a power cut; `PayloadInv` needs the same of
the pair of a stored envelope. `DateInv` adds that a key with a date is no longer
live, so that no later call gives it a later one.

`ContractProofs` builds on the invariants of `JournalProofs`:

* `Recovery`: `Spec => []RecoveredIsSound`, on any disk and with `recover` called on
  a handle in use or not. `Agrees` is the inductive form of the window's shape: the
  map and the queue hold the same ids, each once, within the capacity;
* `WindowExact`: `Spec => []WindowIsExact`, **assuming `LiveRecovery = FALSE`**, which
  is the limit named in section 3. `ExactInv` says that the window *mirrors* the last
  records of the chain (`Mirrors`) and that equal ids on file are further apart than
  its capacity (`Apart`), also in a file nobody has open;
* `AckedGrows`, `EvidenceKept`, `LossIsTold`: the three action properties. The last
  needs `TellInv`: with at most one lie, what a watermark had named is still named by
  a durable watermark, or the records are still there;
* `KeepsContract`: `Spec => ImplementsContract`, the refinement, **assuming an honest
  disk (`MaxLies = MaxRot = 0`)**: initial states map to initial states, and each step
  to one of the contract's actions or to a stutter (`Same`, `WritesOne`,
  `Acknowledges`, `LosesTail`).

`PlaneProofs` proves, for every policy, number of segments and of runs, and every
order of ends of the process:

* `SealsAreWhole`: `Spec => [](PlaneTypeOK /\ SealedIsWhole)`. `SealInv` ties each
  manifest to its journal and places the open segment after the sealed ones;
* `OneChain`: `Spec => [](unnamed <= 1 => SealedHistoryIsWhole)`. The chain is stated
  up to the last sealed segment (`ChainTo`), because after a lost rename the manifests
  have a hole. With two lost renames it does not hold; the run has the same bound;
* `LossesAreNoted`: `Spec => []NotesBesideRecords`, from `NotesInv`: what the store
  owes is noted in the segment or still owed by the process that has it open; a segment
  that held records when its process ended is the exception (`cut`), which the run
  `PlaneNotes` is about;
* `ShardKeepsOneLog`: `Spec => ShardIsOneLog`, the refinement of `JournalContract`
  across files. `LogInv` says that the promise is a prefix of the concatenated
  journals; the property speaks of steps after which no rename is lost (`unnamed' = 0`).

`ShipProofs`: `CursorKept`, `ShipSpec => []CursorIsInBounds`, for every file of every kind
of lines, every batch and seal policy, any number of rotations and whichever domain each
run is handed (`ShipAssumption`): what the cursor has passed is sealed, or was refused by
a run that stored other lines (`waived`).
Neither half of the property is inductive, for a cursor is written from what a run
remembers and not from what is sealed. `Progress(lo)` says how far a run has come: every
line of the right domain up to `lo` is sealed or in the open segment, the batches still
to do are exactly the mapped lines after it, in order (`Ahead`), and since the cursor was
last moved they are no more than the segment's records, which with the rest of the batch
under way stay within one segment and one batch. The seal then turns the open segment into evidence before the
cursor moves. `RunInv` and `CursorInv` say that what was read is a start of the file or of
one that has been replaced, so that `decide` never takes one for the other; `WindowInv`
is the bound between runs; `FlushedInv` is the write path's invariant under an importer,
where every rename is flushed. `FrameIs` is what `frame` computes for every file.

`PublishProofs`, for every number of nodes, values and segments, every budget of tries
and every policy of eviction: `PublishTypes` (`PublishTypeOK`), `RivalsAgree`
(`OneRivalWins`, from `RaceInv`), `AnswersAreTrue` (`AnswersAreCommitted`, from
`TruthInv`, whatever is changed in the bucket) and `BodyBeforeManifest`
(`PublishedIsReadable`, from `BodyInv`, **assuming `Expiry = FALSE`**, the limit of
section 3). An invariant about a call under way says what it has already established
in the bucket, which is what a retry after a lost answer rests on.

`IntakeProofs`: `QueueKept`, `SigningSpec => []QueueIsKept`, for every set of keys,
clock and bound. `SignInv` adds what a drain under way holds: the roots it has read are
in the queue or signed already, and a signature at hand was checked under the pin.

In the same module: `Accounted`, `IngestSpec => []IntakeIsAccounted`, for any finite set of
connections and requests and every limit (`IngestAssumption`). The counters of places and bytes are sums over threads
(`CountersAreHeld`); that a sum over a finite set changes by what one thread changes is
proved from its definition (`SumsOf`). `ThreadsTidy` is what a thread at each of its
steps holds: among others that one which is about to reserve bytes has a declared
length, since `inspect` answers 411 otherwise. `Ledger` balances the anomalies: those
reported are written or in the hands of the drain loop where the source can name its
record, and none is written where it cannot; the others are still with the source.

`EdgeProofs` has four theorems about parts that share no state.

* `DoorHolds`, `DoorSpec => []DoorIsSound`, for every set of keys and of what may be
  presented, every window, leeway and cap (`DoorAssumption`: numbers, and a window of at
  least one), with the clock set to any time at any moment. That a proof lets nobody in
  twice is not inductive: it rests on the cache. `DoorInv` says when each generation
  forgets. A proof that let somebody in is in the current generation and expires before
  that one has been turned twice, or in the previous one and expires before the next
  turn, or the cache was turned at a time past its last fresh one (`Remembers`). In the
  third case the proof is stale, unless the clock has been set back, which is `Outlived`.
  This is where a generation must last two windows, as a proof may be dated a window
  ahead: `RotatedIs` shows that one turn, or two at once after a quiet time, drops only
  proofs that are stale at the time of the turn.
* `ReplicaHolds`, `ReplicaSpec => []ReplicaIsTheLog`, for any bodies and lengths, with no
  assumption. A link of the chain gives away everything hashed into it (section 6), so
  equal heads have equal histories (`HeadOf` is injective). `ReplicaInv`: the logs are
  in order, every record under way or adopted names as its predecessor a head that some
  log really had, and the copy is linked record to record with `head` at its end. That
  a damaged field can only name a head of the logs, and not a future one, is what keeps
  a damaged record from being continued. What `walk` accepts is derived from its fold
  (`Walks`, `GoodSoFar`).
* `ShardHolds`, `ShardSpec => []ShardKeepsItsPromise`, for any shards, record length,
  flush interval and delays (`ShardAssumption`: a record has at least one byte).
  `ShardInv`: durable and other bytes together are the records one to the last written
  and a part of the one under way (`InOrder`), what was acknowledged lies within the
  durable bytes unless a flush lied (`Durable`), and every message names a record its
  speaker has (`Messages`). `RecoveredIs` is what recovery finds in any cut of such a
  file: the whole records and no gap.
* `WireHolds`, `WireSpec => []RequestsAreWhatWasSent`, for anything a peer may send,
  every cap, buffer room and declared length (`WireAssumption`: bytes are the four the
  scanner tells apart, limits are numbers). The statement about the heads is not
  inductive, because a head is found over several reads. `WireInv` adds where the
  scanner stands between them (`ScanHolds`: the bytes before the line it is in are
  whole lines, none of them empty, and the line so far has no CR or LF), and that
  a head found ends in the first empty line (`HeadFound`). More bytes leave what was
  scanned as it is (`ScanGoesOn`), every turn of the loop keeps it (`ScanStepIs`), and
  a body that grows by a read takes from the buffer exactly what it adds
  (`TakingIs`, `Regrouped`).

Facts about recursive functions (`Turns`, `Adds`, `Cuts`, `SumsOf`, `Heads`, `Walks`,
`Takes`, `Joins`, `Scans`) are proved by taking the least number for which they would
fail (`LeastNumber`, from the well-foundedness of `<`), because the induction rules
that take a formula as a parameter cannot be used.

## 6. Only model-checked, and not modelled

Liveness under fairness (`EverythingIsSealed`, `LinesAreSealed`,
`IngestComesToItsEnd`, `RootsAreSigned`, `EveryCallReturns`, `AskedIsForgotten`) is
beyond the prover and stays with TLC. So does what a recursive algorithm computes
(`Index`, `Otlp`, `Json`, `Semconv` and the other modules of questions),
whose operators are `RECURSIVE`. Two invariants of `EdgeRuns` are model-checked only,
because their modules use such operators: `SourcesAreAccounted` (framing and scanning
in `Jsonl`, `Query`'s reconstruction behind `Assembler`) and `AnchorsAreOurs` (`Der`'s
numbers and the altered tokens of `Timestamp`).

Not modelled, and why:

* two processes over one data directory: the code takes no lock; it is an
  operational rule;
* two vaults over one custodian, and the hybrid custodian, which keeps its keys in
  memory;
* the SQL surface, whose evaluation is DataFusion's, and the Parquet writer;
* the HTTP, S3 and Azure adapters: `Publish` has the contract they implement;
* ciphers, hashes and signatures: taken as injective and unforgeable;
* compliance reports, the demo and fuzz targets: they render and drive.

`PROJECT.json` gives the reason for each component, and for the partly modelled
ones what is left out.

## 7. Plan

Done: Journal, its contract and proofs; Plane, Ship, Publish, Vault, Ingest and Signing
and their proofs; Door, Head and RequestForms; Assembler; Query, Index and Verify;
Otlp, Semconv, Envelope, Json, Jsonl and Record; Anchor, Timestamp, Der and Montgomery;
Federation and Replica; Shard; the proofs about Door, Head, Replica and Shard.

Theorems still open: the two invariants named in section 6, which need the recursive
operators of `Jsonl`, `Query`, `Der` and `Timestamp` written as functions.

Compositions still open: ids across segment rolls (Journal's window with Plane);
the cursor's and the manifest's renames lost separately; the source's queue with
Plane's crashes.
