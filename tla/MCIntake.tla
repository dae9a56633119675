------------------------------ MODULE MCIntake ------------------------------
(***************************************************************************)
(* What comes in and must come to its end: the file importer of Ship, the  *)
(* OTLP write path of Ingest and the signing queue of Signing, one of them *)
(* in each behaviour.  They share no state, so a behaviour of one leaves   *)
(* the other two where they start.                                         *)
(***************************************************************************)
EXTENDS Ship, Ingest, Signing, TLC

VARIABLE part   \* the component this behaviour is of

Export(declared, coding, decodes, spans, close) ==
    [path |-> "traces", method |-> "POST", declared |-> declared,
     type |-> "protobuf", coding |-> coding, inflates |-> "fits",
     decodes |-> decodes, spans |-> spans, close |-> close]
Count(mine, other, unmapped, dropped, blemishes) ==
    [mine |-> mine, other |-> other, unmapped |-> unmapped, dropped |-> dropped,
     blemishes |-> blemishes, garbled |-> 0]

\* A batch with a blemish and a garbled value, a compressed one with a loss, one
\* that does not decode.
ThreeRequests ==
    { Export(2, "identity", TRUE, [Count(2, 0, 0, 0, 1) EXCEPT !.garbled = 1], FALSE),
      Export(1, "gzip", TRUE, Count(0, 1, 0, 1, 0), TRUE),
      Export(1, "identity", FALSE, Count(0, 0, 0, 0, 0), FALSE) }

intakeVars == <<part, shipVars, ingestVars, signingVars>>

IntakeInit ==
    \/ /\ part = "ship"
       /\ ShipInit /\ IngestInit /\ otlp.canName
       /\ SigningInit /\ proc = Process("run")
    \/ /\ part = "ingest"
       /\ ShipInit /\ kind = [n \in Line |-> "own"]
       /\ IngestInit
       /\ SigningInit /\ proc = Process("run")
    \/ /\ part = "signing"
       /\ ShipInit /\ kind = [n \in Line |-> "own"]
       /\ IngestInit /\ otlp.canName
       /\ SigningInit

IntakeNext ==
    \/ part = "ship" /\ ShipNext /\ UNCHANGED <<part, ingestVars, signingVars>>
    \/ part = "ingest" /\ IngestNext /\ UNCHANGED <<part, shipVars, signingVars>>
    \/ part = "signing" /\ SigningNext /\ UNCHANGED <<part, shipVars, ingestVars>>

\* The fairness of each component: see ShipFairness, IngestFairness and
\* SigningFairness for why the code's scheduling gives it.
IntakeFairness ==
    /\ SF_shipVars(part = "ship" /\ Begin("own"))
    /\ WF_shipVars(part = "ship" /\ RunStep)
    /\ \A c \in Conn : WF_ingestVars(part = "ingest" /\ (ThreadStep(c) \/ Shed(c)))
    /\ WF_ingestVars(part = "ingest" /\ DrainStep)
    /\ WF_signingVars(part = "signing" /\ DrainQueue)
    /\ WF_signingVars(part = "signing" /\ Attempts)
    /\ WF_signingVars(part = "signing" /\ proc.at = "done" /\ SignerStarts)

IntakeSpec == IntakeInit /\ [][IntakeNext]_intakeVars /\ IntakeFairness

-----------------------------------------------------------------------------
\* ship and the timer that starts it: a line of the right trust domain that
\* stays in the file is sealed in the end, whatever died meanwhile, unless a run
\* under the domain of other lines stored those and went past it.
LinesAreSealed == part = "ship" => EveryLineIsSealed

\* serve_connection and anomaly_event: every connection ends, and what anomaly_total
\* counted is written down where its record can be named, unless the process ends
\* first.
IngestComesToItsEnd == part = "ingest" => ConnectionsEndAndLossesAreNoted

\* drain and its retries: a queued root is signed once Keyryx answers for good
\* and the process stays up.
RootsAreSigned == part = "signing" => QueuedRootsAreSigned
=============================================================================
