------------------------------- MODULE Replica -------------------------------
(***************************************************************************)
(* Verified replication: what a receiver checks before it takes a run of   *)
(* records a peer sent it into the history it holds for a shard.  A hash   *)
(* stands for everything hashed into it, so a chain head is the sequence   *)
(* of records behind it.  The network loses, repeats, reorders and damages *)
(* what the sender's log holds; a sender that makes up a whole history is  *)
(* outside what these checks can see.                                      *)
(***************************************************************************)
EXTENDS Integers, Sequences, FiniteSets, SequencesExt

CONSTANTS
    Ours,          \* the shard this receiver follows
    Theirs,        \* another shard of the same sender
    Bodies,        \* what a record can say
    MaxLog         \* bound: records of each log

VARIABLES
    logs,          \* per shard, the records the sender wrote
    run,           \* the run of records under way, as it arrives: <<>> for none
    head,          \* the chain head the receiver holds, <<>> for none yet
    adopted        \* the records the receiver took, in order

replicaVars == <<logs, run, head, adopted>>

-----------------------------------------------------------------------------
(* The chain.                                                              *)

Genesis(s) == <<"genesis", s>>
ChainStep(link, record) == <<"link", link, record.seq, record.shard, record.body>>
HeadOf(log, s) ==
    LET after[n \in 0..Len(log)] == IF n = 0 THEN Genesis(s) ELSE ChainStep(after[n - 1], log[n])
    IN  after[Len(log)]

Stands(link) == [ok |-> TRUE, head |-> link, why |-> "none"]
Rejected(why) == [ok |-> FALSE, head |-> <<>>, why |-> why]

\* One chain, one shard, contiguous, and the arithmetic reproducing: the first
\* record that will not do decides.
WalkStep(s, first, state, record) ==
    IF ~state.ok THEN state
    ELSE IF record.shard # s THEN Rejected("ShardChanged")
    ELSE IF record.seq # first.seq + state.count THEN Rejected("NotContiguous")
    ELSE IF record.prev # state.head THEN Rejected("LinkBroken")
    ELSE [state EXCEPT !.head = ChainStep(@, record), !.count = @ + 1]
Walk(s, records) ==
    LET start == [ok |-> TRUE, head |-> records[1].prev, why |-> "none", count |-> 0]
        after[n \in 0..Len(records)] ==
            IF n = 0 THEN start ELSE WalkStep(s, records[1], after[n - 1], records[n])
        end == after[Len(records)]
    IN  IF end.ok THEN Stands(end.head) ELSE end

AcceptFrom_AnyStart(held, s, records) ==
    IF records = <<>> THEN Rejected("Empty") ELSE Walk(s, records)
AcceptFrom(held, s, records) ==
    IF records = <<>> THEN Rejected("Empty")
    ELSE IF records[1].prev # held THEN Rejected("NotAContinuation")
    ELSE Walk(s, records)
AcceptUnanchored(s, records) ==
    IF records = <<>> THEN Rejected("Empty") ELSE Walk(s, records)

-----------------------------------------------------------------------------
(* The sender, the network and the receiver.                               *)

ReplicaInit ==
    /\ logs = [s \in {Ours, Theirs} |-> <<>>]
    /\ run = <<>>
    /\ head = <<>> /\ adopted = <<>>

Write(s) ==
    /\ Len(logs[s]) < MaxLog[s]
    /\ \E body \in Bodies :
          logs' = [logs EXCEPT ![s] = Append(@, [shard |-> s, seq |-> Len(@) + 1, body |-> body,
                                                 prev |-> HeadOf(@, s)])]
    /\ UNCHANGED <<run, head, adopted>>

\* What can happen to a run under way: a record is lost, repeated, swapped with the
\* next, or one of its fields changes.
Damaged(records) ==
    LET places == DOMAIN records
        prevs == {HeadOf(SubSeq(logs[Ours], 1, n), Ours) : n \in 0..Len(logs[Ours])}
    IN  {RemoveAt(records, i) : i \in places}
        \cup {InsertAt(records, i, records[i]) : i \in places}
        \cup {[records EXCEPT ![i] = records[i + 1], ![i + 1] = records[i]] :
                i \in places \ {Len(records)}}
        \cup {[records EXCEPT ![i].body = b] : i \in places, b \in Bodies}
        \cup {[records EXCEPT ![i].seq = n] : i \in places, n \in 1..MaxLog[Ours]}
        \cup {[records EXCEPT ![i].shard = s] : i \in places, s \in {Ours, Theirs}}
        \cup {[records EXCEPT ![i].prev = p] : i \in places, p \in prevs}

\* Any stretch of either log, again and again, in any order, whole or damaged once.
SendRun ==
    /\ run = <<>>
    /\ \E s \in {Ours, Theirs} : \E i, j \in DOMAIN logs[s] :
          /\ i <= j
          /\ \E arrives \in {SubSeq(logs[s], i, j)} \cup Damaged(SubSeq(logs[s], i, j)) :
                run' = <<arrives>>
    /\ UNCHANGED <<logs, head, adopted>>

\* The receiver: the strong check when it holds a head, the weak one when it does
\* not; only an accepted run moves the head.
Answer(records) ==
    IF head = <<>> THEN AcceptUnanchored(Ours, records) ELSE AcceptFrom(head, Ours, records)
Receive ==
    /\ run # <<>>
    /\ run' = <<>>
    /\ IF Answer(run[1]).ok
       THEN head' = Answer(run[1]).head /\ adopted' = adopted \o run[1]
       ELSE UNCHANGED <<head, adopted>>
    /\ UNCHANGED logs

ReplicaNext == SendRun \/ Receive \/ \E s \in {Ours, Theirs} : Write(s)
ReplicaSpec == ReplicaInit /\ [][ReplicaNext]_replicaVars

-----------------------------------------------------------------------------
(* What replication promises.                                              *)

\* Whatever was lost, repeated, reordered or damaged on the way, what the receiver
\* holds is a stretch of the sender's log, every record once and in its place, but
\* for the very last: nothing after it has been hashed over it yet, so a damaged
\* last record is taken, and then nothing the sender really wrote continues it.
ReplicaIsTheLog ==
    \A n \in {Len(adopted)} : n > 0 =>
        LET from == IF n = 1 THEN 1 ELSE adopted[1].seq
            True(i) == from + i - 1 \in DOMAIN logs[Ours]
                       /\ adopted[i] = logs[Ours][from + i - 1]
        IN  /\ \A i \in 1..n - 1 : True(i)
            /\ n > 1 /\ True(n) => head = HeadOf(SubSeq(logs[Ours], 1, from + n - 1), Ours)
            /\ n > 1 /\ ~True(n) =>
                  \A s \in {Ours, Theirs} : \A i \in DOMAIN logs[s] : logs[s][i].prev # head

=============================================================================
