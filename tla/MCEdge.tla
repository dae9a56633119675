------------------------------- MODULE MCEdge -------------------------------
(***************************************************************************)
(* The parts round the write path, one of them in each behaviour: the door *)
(* and the wire of a connection, the reader of JSONL files, the assembler  *)
(* with its graph, anchoring, replication and the simulated shards; and    *)
(* the pure algorithms, asked one question after another.  They share no   *)
(* state, so a behaviour of one leaves the others where they start.        *)
(***************************************************************************)
EXTENDS Door, Head, Replica, Shard, Questions

VARIABLES
    part,        \* the part this behaviour is of
    file, read, source, handed, drained, noted, closed,
    minted, names, named, unresolved, lostEdges, journal, segments, told, dropped,
    trust, lastSent, receipts, issued, asked, said

jsonlVars == <<file, read, source, handed, drained, noted, closed>>
assemblerVars == <<minted, names, named, unresolved, lostEdges, journal, segments,
                   told, dropped>>
anchorVars == <<trust, lastSent, receipts, issued, asked, said>>

-----------------------------------------------------------------------------
(* The door: key sets of which one only is accepted, a token with proofs   *)
(* that are fresh, repeated, stale, of another key, and a stray domain.    *)

Jwk(kid, usable, private) == [kid |-> kid, usable |-> usable, private |-> private]
SomeJwkSets ==
    { <<Jwk("k1", TRUE, FALSE), Jwk("no kid", TRUE, FALSE), Jwk("k2", FALSE, FALSE)>>,
      <<Jwk("k1", TRUE, FALSE), Jwk("k1", TRUE, FALSE)>>,
      <<Jwk("k1", TRUE, TRUE)>> }

Token(id, inDomain, jkt) ==
    [id |-> id, typed |-> TRUE, kid |-> "k1", signer |-> "k1", ours |-> TRUE,
     forUs |-> TRUE, exp |-> 9, iat |-> 0, whole |-> TRUE, jkt |-> jkt,
     sub |-> [kind |-> "agent", inDomain |-> inDomain]]
Proof(jti, key, ath, iat) ==
    [jti |-> jti, key |-> key, ath |-> ath, iat |-> iat, typed |-> TRUE,
     signed |-> TRUE, sameRequest |-> TRUE, short |-> TRUE]
With(token, proof) == [scheme |-> "DPoP", token |-> token, proof |-> proof]
Own == Token("t1", TRUE, "ka")
SomeCredentials ==
    { With(Own, Proof("p1", "ka", "t1", 2)), With(Own, Proof("p2", "ka", "t1", 4)),
      With(Own, Proof("p1", "ka", "t1", 7)), With(Own, Proof("p3", "kb", "t1", 2)),
      With(Token("t2", FALSE, "kb"), Proof("p4", "kb", "t2", 3)),
      [With(Own, Proof("p2", "ka", "t1", 4)) EXCEPT !.scheme = "Bearer"] }

-----------------------------------------------------------------------------
(* The wire: every short stream of bytes, and two requests in one stream.  *)

SomeStreams ==
    SeqOf({"cr", "lf", "nul", "x"}, 4)
      \cup {<<"x", "cr", "lf", "cr", "lf", "x", "cr", "lf", "cr", "lf">>,
            <<"x", "cr", "lf", "x", "cr", "lf", "cr", "lf", "x">>}

-----------------------------------------------------------------------------
(* JSONL: short files, and files that start with a mark or a part of one.  *)

Files ==
    SeqOf({"x", "y", "z", "LF", "CR"}, 4) \cup SeqOf({"y", "sp", "LF"}, 5)
      \cup SeqOf({"y", "n", "x", "LF"}, 4)
      \cup {m \o t : t \in SeqOf({"y", "LF"}, 2),
                     m \in {<<"EF", "BB", "BF">>, <<"EF", "BB">>, <<"FF", "FE">>,
                            <<"FF", "FE", "00", "00">>, <<"FE", "FF">>, <<"FF">>,
                            <<"00", "00", "FE", "FF">>, <<"00", "00", "FE">>}}

J == INSTANCE Jsonl WITH MaxLine <- 3, MaxQueued <- 1, Mode <- "tail"

-----------------------------------------------------------------------------
(* The assembler: names used twice, parents before and after, no name.     *)

Event(n, p, r, q) == [name |-> n, parent |-> p, run |-> r, parentRun |-> q]
SomeEvents ==
    {Event(1, 0, 1, 0), Event(2, 1, 1, 0), Event(3, 2, 2, 1), Event(1, 1, 2, 0),
     Event(2, 3, 3, 2), Event(0, 3, 1, 0)}
Batches == {<<a>> : a \in SomeEvents} \cup (SomeEvents \X SomeEvents)

A == INSTANCE Assembler WITH NameWindow <- 2, MaxEvents <- 4

-----------------------------------------------------------------------------
(* Anchors over two roots, replicas of two shards, two simulated shards.   *)

T == INSTANCE Anchor WITH Roots <- {"rootA", "rootB"}, Nonces <- {"n1", "n2"},
                          Times <- <<"t1", "t2">>

ThreeAndOne == [s \in {Ours, Theirs} |-> IF s = Ours THEN 3 ELSE 1]

-----------------------------------------------------------------------------
(* The questions.                                                          *)

F == INSTANCE MCForms WITH MaxCodeLength <- 3
QRecord == INSTANCE MCRecords
QAttest == INSTANCE MCAttest WITH Half <- 4, WordBytes <- 2, HighTag <- 3,
                                  LimbBits <- 2, MaxLimbs <- 3, ExpHalf <- 4

AskQuestion ==
    /\ probe = NoQuestion
    /\ \/ F!PackQuestions
       \/ F!HeadQuestions
       \/ F!InflateQuestions
       \/ F!QueryQuestions
       \/ F!IndexQuestions
       \/ QRecord!OtlpQuestions
       \/ QRecord!JsonQuestions
       \/ QRecord!RecordQuestions
       \/ QRecord!SpanQuestions
       \/ QRecord!EnvelopeQuestions
       \/ QAttest!FederationQuestions
       \/ QAttest!DerQuestions
       \/ QAttest!MontgomeryQuestions
       \/ QAttest!TimestampQuestions

NextQuestion == probe # NoQuestion /\ probe' = NoQuestion

-----------------------------------------------------------------------------
Parts == {"door", "wire", "jsonl", "assembler", "anchor", "replica", "shard", "form"}

EdgeInit ==
    /\ part \in Parts
    /\ probe = NoQuestion
    /\ DoorInit /\ A!AssemblerInit /\ ReplicaInit /\ ShardInit
    /\ WireInit /\ (part = "wire" \/ sent = <<>>)
    /\ J!JsonlInit /\ (part = "jsonl" \/ file = <<>>)
    /\ T!AnchorInit /\ (part = "anchor" \/ trust = "pinned")

EdgeNext ==
    /\ UNCHANGED part
    /\ \/ /\ part = "door" /\ DoorNext
          /\ UNCHANGED <<wireVars, jsonlVars, assemblerVars, anchorVars, replicaVars, shardVars, probe>>
       \/ /\ part = "wire" /\ WireNext
          /\ UNCHANGED <<doorVars, jsonlVars, assemblerVars, anchorVars, replicaVars, shardVars, probe>>
       \/ /\ part = "jsonl" /\ J!JsonlNext
          /\ UNCHANGED <<doorVars, wireVars, assemblerVars, anchorVars, replicaVars, shardVars, probe>>
       \/ /\ part = "assembler" /\ A!AssemblerNext
          /\ UNCHANGED <<doorVars, wireVars, jsonlVars, anchorVars, replicaVars, shardVars, probe>>
       \/ /\ part = "anchor" /\ T!AnchorNext
          /\ UNCHANGED <<doorVars, wireVars, jsonlVars, assemblerVars, replicaVars, shardVars, probe>>
       \/ /\ part = "replica" /\ ReplicaNext
          /\ UNCHANGED <<doorVars, wireVars, jsonlVars, assemblerVars, anchorVars, shardVars, probe>>
       \/ /\ part = "shard" /\ ShardNext
          /\ UNCHANGED <<doorVars, wireVars, jsonlVars, assemblerVars, anchorVars, replicaVars, probe>>
       \/ /\ part = "form" /\ (AskQuestion \/ NextQuestion)
          /\ UNCHANGED <<doorVars, wireVars, jsonlVars, assemblerVars, anchorVars, replicaVars, shardVars>>

EdgeSpec == EdgeInit /\ [][EdgeNext]_<<part, doorVars, wireVars, jsonlVars, assemblerVars,
                                       anchorVars, replicaVars, shardVars, probe>>

-----------------------------------------------------------------------------
\* What sources told of is there or noted: however a JSONL file is chunked and
\* drained every line of it is a record, waits to be one or is counted in a note,
\* and an edge is in the graph or a note says that one was lost, also when its
\* parent has left the window of names.
SourcesAreAccounted == J!JsonlIsFaithful /\ A!EdgesAreToldOrNoted

\* Anchors: a receipt that verifies is for our root, from our authority, and was
\* issued for the request it answers.
AnchorsAreOurs == T!AnchorsAreOurs

\* The questions: each has its answer before the next one is asked.

\* What is read back: answers are what was asked for and say what is proved of
\* them, proofs of inclusion, growth and completeness prove only what is so, and
\* a verified pack is bound to its root.
ReadsAreProved == [][F!QueriesAgree /\ F!IndexAgrees /\ F!PacksAgree]_probe

\* What is parsed on the way in: heads two readers cannot disagree on, bodies
\* inflated within their bounds, one meaning for a batch in either transport, and
\* JSON by its grammar.
ParsersAgree ==
    [][F!HeadFormsAgree /\ F!InflateAgrees /\ QRecord!OtlpAgrees /\ QRecord!JsonAgrees]_probe

\* What is made of it: every attribute and member in one plane, and records that
\* come back as they went, from the journal and from a peer.
RecordsAgree ==
    [][/\ QRecord!RecordAgrees /\ QRecord!SpanAgrees /\ QRecord!EnvelopeAgrees
       /\ QAttest!FederationAgrees]_probe

\* The verifier's arithmetic: one spelling for a DER value, Montgomery's products
\* and powers those of the numbers, and no altered timestamp accepted.
AttestationsAgree ==
    [][QAttest!DerAgrees /\ QAttest!MontgomeryAgrees /\ QAttest!TimestampAgrees]_probe
=============================================================================
