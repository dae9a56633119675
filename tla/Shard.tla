-------------------------------- MODULE Shard --------------------------------
(***************************************************************************)
(* The simulated shards: each single threaded, with a journal of its own   *)
(* on a disk that writes short, fills up, fails to flush or lies about it, *)
(* talking over a bus that drops, repeats and delays.  One step of the     *)
(* simulator is one tick of one shard, the messages due to it, and perhaps *)
(* a power cut.  A byte is <<the number of its record, its place in it>>.  *)
(***************************************************************************)
EXTENDS Integers, Sequences, FiniteSets, SequencesExt

CONSTANTS
    ShardIds,      \* the shards of the simulation
    RecordLen,     \* bytes of a record
    SyncEvery,     \* records between two flushes
    MaxDelay,      \* longest delay of a message, in steps
    MaxQueue,      \* bound: messages on the bus at once
    MaxSteps       \* bound: steps of the simulation

\* What the simulation's settings must be for it to run at all.
ShardConstants == RecordLen \in Nat \ {0} /\ MaxDelay \in Nat
ASSUME ShardAssumption == ShardConstants

VARIABLES
    shard,         \* per shard, what it keeps in memory
    disk,          \* per shard, the durable bytes of its file and the others
    queue,         \* the bus: messages in the order they were sent
    step,          \* the simulator's step, which is also the bus's time
    lied,          \* whether the disk ever called a flush done that was not
    gap,           \* whether a recovery ever met a sequence gap
    lost           \* whether a recovery ever missed a promised record

shardVars == <<shard, disk, queue, step, lied, gap, lost>>

-----------------------------------------------------------------------------
(* The bytes.                                                              *)

Encode(seq) == [i \in 1..RecordLen |-> <<seq, i>>]
ReadAll(file) == file.durable \o file.dirty
RecordAt(bytes, k) == SubSeq(bytes, (k - 1) * RecordLen + 1, k * RecordLen)
Verifies(record) == Len(record) = RecordLen /\ record = Encode(record[1][1])

\* The longest prefix that verifies and counts up from one.
Recovered(bytes) ==
    LET whole == Len(bytes) \div RecordLen
        good(n) == \A k \in 1..n : Verifies(RecordAt(bytes, k)) /\ RecordAt(bytes, k)[1][1] = k
        count == CHOOSE n \in 0..whole : good(n) /\ (n < whole => ~good(n + 1))
    IN  [count |-> count,
         discarded |-> Len(bytes) - count * RecordLen,
         outOfOrder |-> count < whole /\ Verifies(RecordAt(bytes, count + 1))]

Truncate(file, len) ==
    IF len <= Len(file.durable)
    THEN [durable |-> SubSeq(file.durable, 1, len), dirty |-> <<>>]
    ELSE [file EXCEPT !.dirty = SubSeq(@, 1, len - Len(file.durable))]

-----------------------------------------------------------------------------
(* Opening and recovering a shard.                                         *)

Fresh == [written |-> 0, acked |-> 0, degraded |-> FALSE, sinceSync |-> 0,
          pendingSeq |-> 0, pendingDone |-> 0]
SmallerOf(a, b) == IF a < b THEN a ELSE b
Recover(s, file) ==
    LET r == Recovered(ReadAll(file))
    IN  [Fresh EXCEPT !.written = r.count, !.acked = SmallerOf(s.acked, r.count)]
RecoveredFile(file) ==
    LET r == Recovered(ReadAll(file))
    IN  IF r.discarded > 0 THEN Truncate(file, r.count * RecordLen) ELSE file

ShardInit ==
    /\ shard = [s \in ShardIds |-> Recover(Fresh, [durable |-> <<>>, dirty |-> <<>>])]
    /\ disk = [s \in ShardIds |-> [durable |-> <<>>, dirty |-> <<>>]]
    /\ queue = <<>>
    /\ step = 0
    /\ lied = FALSE /\ gap = FALSE /\ lost = FALSE

-----------------------------------------------------------------------------
(* A tick: finish the record under way or start the next, flush when due.  *)

\* Nothing new is started while a record is half on disk.
Pending_Restarts(s) == [s EXCEPT !.pendingSeq = s.written + 1, !.pendingDone = 0]
Pending(s) ==
    IF s.pendingSeq = 0
    THEN [s EXCEPT !.pendingSeq = s.written + 1, !.pendingDone = 0]
    ELSE s

\* How many more bytes the file took, and whether it was full at the end: it goes
\* on until the record is whole, there is no space, or nothing was taken of two
\* bytes or more.
Pushes(s) ==
    LET left == RecordLen - s.pendingDone
    IN  {<<left, FALSE>>} \cup ({0} \cup 1..left - 1) \X {TRUE} \cup (0..left - 2) \X {FALSE}
Pushed(s, push) ==
    IF s.pendingDone + push[1] < RecordLen
    THEN [s EXCEPT !.pendingDone = @ + push[1], !.degraded = push[2] \/ @]
    ELSE [s EXCEPT !.written = s.pendingSeq, !.sinceSync = @ + 1, !.degraded = FALSE,
                   !.pendingSeq = 0, !.pendingDone = 0]
Append_(file, s, push) ==
    [file EXCEPT !.dirty = @ \o SubSeq(Encode(s.pendingSeq), s.pendingDone + 1,
                                       s.pendingDone + push[1])]

SyncDue(s) == s.sinceSync >= SyncEvery
Synced(s) == [s EXCEPT !.acked = s.written, !.sinceSync = 0, !.degraded = FALSE]
Fsync(file) == [durable |-> ReadAll(file), dirty |-> <<>>]

\* The outcomes of a tick: the shard and the file after it, and whether it was lied to.
TickOutcomes(s, file) ==
    LET begun == Pending(s)
        after(push) == [s |-> Pushed(begun, push), file |-> Append_(file, begun, push)]
        flushed(o) ==
            IF ~SyncDue(o.s) THEN {<<o.s, o.file, FALSE>>}
            ELSE {<<Synced(o.s), Fsync(o.file), FALSE>>,
                  <<Synced(o.s), o.file, TRUE>>,
                  <<[o.s EXCEPT !.degraded = TRUE], o.file, FALSE>>}
    IN  UNION {flushed(after(push)) : push \in Pushes(begun)}

-----------------------------------------------------------------------------
(* The bus.                                                                *)

\* A send is dropped, kept or kept twice, each copy with a delay of its own.
SendFates == UNION {[1..n -> 0..MaxDelay] : n \in 0..2}
Send(q, now, fate, from, to, kind, nonce) ==
    q \o [i \in DOMAIN fate |-> [due |-> now + fate[i], from |-> from, to |-> to,
                                 kind |-> kind, nonce |-> nonce]]

\* Of the messages due to a shard the one that fell due first is taken, and of those
\* due together the first sent.
Deliverable(q, now, me) == {i \in DOMAIN q : q[i].to = me /\ q[i].due <= now}
Recv(q, now, me) ==
    CHOOSE i \in Deliverable(q, now, me) :
        \A j \in Deliverable(q, now, me) :
            q[i].due < q[j].due \/ (q[i].due = q[j].due /\ i <= j)

\* A ping is answered, a pong is only counted.
OnMsg(q, now, me, fate) ==
    LET i == Recv(q, now, me)
    IN  IF Deliverable(q, now, me) = {} THEN q
        ELSE IF q[i].kind = "ping"
        THEN Send(RemoveAt(q, i), now, fate, me, q[i].from, "pong", q[i].nonce)
        ELSE RemoveAt(q, i)

\* One after another until nothing is due, each answer with a fate of its own; no
\* answer is to the shard itself, so there are as many as were due at first.
OnMsgs(q, now, me, fates) ==
    LET after[n \in 0..Len(fates)] ==
            IF n = 0 THEN q ELSE OnMsg(after[n - 1], now, me, fates[n])
    IN  after[Len(fates)]

-----------------------------------------------------------------------------
(* The simulator.                                                          *)

AnswerFates(me) == [1..Cardinality(Deliverable(queue, step + 1, me)) -> SendFates]
PingFates(me) == {<<>>} \cup {<<to, fate>> : to \in ShardIds \ {me}, fate \in SendFates}
Pinged(q, now, me, ping, nonce) ==
    IF ping = <<>> THEN q ELSE Send(q, now, ping[2], me, ping[1], "ping", nonce)

StepOf(me) ==
    /\ step < MaxSteps
    /\ step' = step + 1
    /\ \E o \in TickOutcomes(shard[me], disk[me]), ping \in PingFates(me),
          fates \in AnswerFates(me) :
          /\ shard' = [shard EXCEPT ![me] = o[1]]
          /\ disk' = [disk EXCEPT ![me] = o[2]]
          /\ lied' = (lied \/ o[3])
          /\ queue' = OnMsgs(Pinged(queue, step + 1, me, ping, o[1].written), step + 1, me, fates)
    /\ Len(queue') <= MaxQueue
    /\ UNCHANGED <<gap, lost>>

\* Of each file the durable bytes stay and some prefix of the others.
CrashedFiles(file) ==
    {[durable |-> file.durable \o SubSeq(file.dirty, 1, keep), dirty |-> <<>>] :
        keep \in 0..Len(file.dirty)}
BusCleared_Kept(q) == q
BusCleared(q) == <<>>
PowerCut ==
    /\ \E files \in [ShardIds -> UNION {CrashedFiles(disk[s]) : s \in ShardIds}] :
          /\ \A s \in ShardIds : files[s] \in CrashedFiles(disk[s])
          /\ shard' = [s \in ShardIds |-> Recover(shard[s], files[s])]
          /\ disk' = [s \in ShardIds |-> RecoveredFile(files[s])]
          /\ gap' = (gap \/ \E s \in ShardIds : Recovered(files[s].durable).outOfOrder)
          /\ lost' = (lost \/ \E s \in ShardIds : Recovered(files[s].durable).count < shard[s].acked)
    /\ queue' = BusCleared(queue)
    /\ UNCHANGED <<step, lied>>

ShardNext == PowerCut \/ \E me \in ShardIds : StepOf(me)
ShardSpec == ShardInit /\ [][ShardNext]_shardVars

-----------------------------------------------------------------------------
(* What the simulation is there to find out.                               *)

\* The records one to the last written, and then part of the one under way.
FileIsInOrder(s, bytes) ==
    /\ Len(bytes) = s.written * RecordLen + s.pendingDone
    /\ \A k \in 1..s.written : RecordAt(bytes, k) = Encode(k)
    /\ SubSeq(bytes, s.written * RecordLen + 1, Len(bytes))
       = SubSeq(Encode(s.pendingSeq), 1, s.pendingDone)

\* The durability contract of a shard: on a disk that does not lie, no power cut
\* takes a record a shard has called durable.  On any disk a recovery never meets
\* a gap or an orphan between two records, since the file is always the records one
\* to the last written and then part of the one under way.  And no message from
\* before a power cut is still under way after it: none speaks of a record that its
\* sender no longer has.
ShardKeepsItsPromise ==
    /\ lost => lied
    /\ ~gap
    /\ \A s \in ShardIds : FileIsInOrder(shard[s], ReadAll(disk[s]))
    /\ \A i \in DOMAIN queue :
          queue[i].nonce <= shard[IF queue[i].kind = "ping" THEN queue[i].from
                                  ELSE queue[i].to].written

=============================================================================
