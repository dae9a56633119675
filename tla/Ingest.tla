------------------------------- MODULE Ingest -------------------------------
(***************************************************************************)
(* The OTLP write path of a node: the start of the process, the server     *)
(* with a thread per connection, the handler that decides what a request   *)
(* is answered, the source that turns a batch of spans into records, and   *)
(* the drain loop that hands the records to the plane.                     *)
(*                                                                         *)
(* Every thread runs serve_connection; between two of its steps any other  *)
(* thread, the accept loop and the drain loop may run.  The source is      *)
(* behind one mutex, so what happens under one with_source is one step.    *)
(* A request is what the head parser accepted (module Head) with what its  *)
(* body turns out to hold; times are left out, and a deadline is a step    *)
(* that may be taken whenever the thread waits for the peer.               *)
(***************************************************************************)
EXTENDS Integers, FiniteSets, FiniteSetsExt

CONSTANTS
    Conn,            \* names for connections that are open at one time
    Requests,        \* the requests a peer may send
    MaxConnections,  \* Config::max_connections
    MaxRequests,     \* Config::max_requests_per_connection
    MaxBody,         \* Config::max_body
    MaxInflight,     \* Config::max_inflight_body
    MaxPending,      \* Config::max_pending
    Routable,        \* Config::is_routable: the network can reach the port
    PollBudget,      \* what one poll of the source takes at most
    MaxVisits        \* bound: connections accepted in a behaviour

NoLength == -1
NoRequest == [path |-> "none"]

\* What a request holds once its head is read and its body known.
RequestForm ==
    [path : {"traces", "healthz", "other"}, method : STRING, declared : Nat \cup {NoLength},
     type : STRING, coding : STRING, inflates : {"fits", "large", "broken"}, decodes : BOOLEAN,
     spans : [mine : Nat, other : Nat, unmapped : Nat, dropped : Nat, blemishes : Nat,
              garbled : Nat],
     close : BOOLEAN]

\* What is assumed of a configuration: limits are numbers, and the decoder's own
\* limits leave finitely many sizes of a batch.
IngestConstants ==
    /\ IsFiniteSet(Conn) /\ IsFiniteSet(Requests) /\ Requests # {}
    /\ Requests \subseteq RequestForm
    /\ {MaxConnections, MaxRequests, MaxBody, MaxInflight, MaxPending, PollBudget, MaxVisits}
          \subseteq Nat

ASSUME IngestAssumption == IngestConstants

VARIABLES
    node,      \* the process: "down", "up" or "exited"
    gate,      \* the gate the operator configured: "none", "secret" or "agent"
    thread,    \* what serve_connection of each connection is doing
    live,      \* Server::live
    inflight,  \* Server::inflight
    lock,      \* the mutex of the source: "sound" or "poisoned"
    degraded,  \* Ingest::degraded
    otlp,    \* OtlpSource: the queue's length and its counters
    drain,     \* what the drain loop has in its hands
    written,   \* anomalies that records in the plane tell of
    visits     \* connections accepted so far

ingestVars == <<node, gate, thread, live, inflight, lock, degraded, otlp,
                drain, written, visits>>
serving == <<node, gate, visits>>
store == <<lock, degraded, otlp, drain, written>>

-----------------------------------------------------------------------------
(* Answers.                                                                *)

\* Status::is_retryable: the client keeps the batch and sends it again.
Retryable(status) == status \in {429, 502, 503, 504}

\* Response::error closes the connection whatever it was; an export that was
\* taken leaves it open.
Closes(status) == status \notin {200, 206}

\* 206 stands for a 200 whose body is a partial success: encode_export_response
\* with the number of spans that were refused.
Partial == 206

-----------------------------------------------------------------------------
(* The handler.                                                            *)

\* Ingest::readiness, never behind the gate.
Readiness(r) ==
    IF r.method # "GET" THEN 405
    ELSE IF degraded \/ lock = "poisoned" THEN 503 ELSE 299

\* Ingest::inspect up to the gate: 0 when the gate is to be asked.
Routed(r) ==
    CASE r.path = "other" -> 404
      [] r.path = "healthz" -> Readiness(r)
      [] r.path = "traces" /\ r.method # "POST" -> 405
      [] r.path = "traces" /\ r.method = "POST" /\ degraded -> 503
      [] OTHER -> 0

\* What the gate can answer a request: module Door says which, here it is
\* any answer of the gate that was configured.  0 lets the request in.
GateAnswers ==
    CASE gate = "none"   -> {[status |-> 0, bound |-> FALSE]}
      [] gate = "secret" -> {[status |-> 0, bound |-> FALSE],
                                  [status |-> 401, bound |-> FALSE]}
      [] gate = "agent"  -> {[status |-> 0, bound |-> TRUE],
                                  [status |-> 403, bound |-> FALSE]}

\* A body nobody described is empty and needs no further checks.
SaysEmpty(r) == r.declared = 0 \/ (r.declared = NoLength /\ r.type = "none")

\* Ingest::inspect after the gate: 0 when the body is to be read.
Described(r) ==
    CASE SaysEmpty(r) -> 0
      [] ~SaysEmpty(r) /\ r.declared = NoLength -> 411
      [] ~SaysEmpty(r) /\ r.declared # NoLength /\ r.type # "protobuf" -> 415
      [] ~SaysEmpty(r) /\ r.declared # NoLength /\ r.type = "protobuf" ->
            IF r.coding \notin {"identity", "gzip"} THEN 415
            ELSE IF r.declared > MaxBody THEN 413
            ELSE IF lock = "poisoned" \/ otlp.pending >= MaxPending THEN 503
            ELSE 0

\* What Budget::reserve is asked for: a compressed body is charged the most
\* it may inflate to.
Want(r) ==
    IF SaysEmpty(r) THEN 0
    ELSE IF r.coding = "gzip" THEN MaxBody ELSE r.declared

\* What the spans of a batch come to: those that map and name the caller or
\* another agent, those that do not map, those the decode limits drop; and the
\* blemishes of spans that are kept (a clock too far off, an attribute, event
\* or value dropped at the limits), and the values that were not UTF-8 and were
\* garbled.  A batch that says it is empty has none.
Spans(r) ==
    IF SaysEmpty(r) THEN [mine |-> 0, other |-> 0, unmapped |-> 0, dropped |-> 0,
                           blemishes |-> 0, garbled |-> 0]
    ELSE r.spans

\* gunzip under its bounds: 0 when the batch can be handed to the source.
Inflated(r) ==
    IF SaysEmpty(r) \/ r.coding # "gzip" THEN 0
    ELSE CASE r.inflates = "fits" -> 0
           [] r.inflates = "large" -> 413
           [] r.inflates = "broken" -> 400

-----------------------------------------------------------------------------
(* The source.                                                             *)

\* Spans that name somebody else are refused at a door that knows its caller.
NotTheCaller(r, bound) == IF bound THEN Spans(r).other ELSE 0
Mapped(r, bound) == Spans(r).mine + Spans(r).other - NotTheCaller(r, bound)

\* OtlpSource::refusal_note: one more record when anything was refused.
Notes(r, bound) == IF NotTheCaller(r, bound) > 0 THEN 1 ELSE 0

\* OtlpSource::accept_as
AcceptAs(r, bound) ==
    IF ~SaysEmpty(r) /\ ~r.decodes
    THEN [otlp EXCEPT !.malformed = @ + 1]
    ELSE [otlp EXCEPT
            !.pending = @ + Mapped(r, bound) + Notes(r, bound),
            !.lost    = @ + Spans(r).unmapped + NotTheCaller(r, bound),
            !.dropped = @ + Spans(r).dropped,
            !.blemishes = @ + Spans(r).blemishes,
            !.garbled = @ + Spans(r).garbled]

\* Ingest::submit answers from what the counters moved by, read before and
\* after under the one lock.
AnswerFor(before, after) ==
    CASE after.malformed > before.malformed -> 400
      [] after.malformed = before.malformed
         /\ (after.lost - before.lost) + (after.dropped - before.dropped) > 0
            -> Partial
      [] OTHER -> 200

\* OtlpSource::anomaly_total: everything but the garbled values, which merge_dropped
\* counts and no report tells of.
AnomalyTotal(s) == s.lost + s.malformed + s.dropped + s.blemishes

-----------------------------------------------------------------------------
(* Threads.                                                                *)

\* OtlpSource::new, and a drain loop between two turns.  A trust domain was validated
\* with a shorter name than anomaly_event gives the agent of its record: canName says
\* whether it leaves room for that one too.
NewSource(canName) ==
    [pending |-> 0, lost |-> 0, dropped |-> 0, malformed |-> 0, blemishes |-> 0,
     garbled |-> 0, reported |-> 0, canName |-> canName]
Asleep == [at |-> "asleep", anomalies |-> 0]

Gone == [at |-> "gone", served |-> 0, req |-> NoRequest, bound |-> FALSE,
         held |-> 0, status |-> 0, queued |-> 0]

\* The handler made its answer; it is written by WriteAnswer.
Answering(c, status) ==
    [thread[c] EXCEPT !.at = "answering", !.status = status, !.held = 0]

\* The thread leaves its loop: everything a request held is dropped.
Leaving(c) ==
    [thread[c] EXCEPT !.at = "closing", !.held = 0, !.req = NoRequest]

\* Drop for Budget: what the request held is given back.
Release(c) == inflight' = inflight - thread[c].held

\* Config::default and the counters of a process that has just started.
IngestInit ==
    /\ node = "down"
    /\ gate = "none"
    /\ thread = [c \in Conn |-> Gone]
    /\ live = 0
    /\ inflight = 0
    /\ lock = "sound"
    /\ degraded = FALSE
    /\ \E canName \in BOOLEAN : otlp = NewSource(canName)
    /\ drain = Asleep
    /\ written = 0
    /\ visits = 0

\* run up to the open port.  A door takes one way in, a partial set of agent
\* flags is refused, and Server::bind refuses a port the network can reach
\* with no gate behind it.  Whatever is refused exits before the port opens.
Start(secret, agentFlags) ==
    /\ node = "down"
    /\ gate' = IF agentFlags = 4 THEN "agent"
               ELSE IF secret THEN "secret" ELSE "none"
    /\ LET refused == \/ agentFlags > 0 /\ secret
                      \/ agentFlags \in 1..3
                      \/ Routable /\ gate' = "none"
       IN node' = IF refused THEN "exited" ELSE "up"
    /\ UNCHANGED <<thread, live, inflight, visits, store>>

\* The plane that will not open, a signer that is not configured and a port
\* in use end the start as well.
StartFails ==
    /\ node = "down"
    /\ node' = "exited"
    /\ UNCHANGED <<gate, thread, live, inflight, visits, store>>

\* A connection is given a name nobody has; which one makes no difference.
FreeName == CHOOSE c \in Conn : thread[c].at = "gone"

\* Server::serve takes a connection.  The loop is one thread: while it tells
\* a connection to go away it accepts no other.
AcceptConnection(c) ==
    /\ node = "up"
    /\ visits < MaxVisits
    /\ thread[c].at = "gone"
    /\ c = FreeName
    /\ \A d \in Conn : thread[d].at # "shed"
    /\ visits' = visits + 1
    /\ live' = live + 1
    /\ thread' = [thread EXCEPT ![c].at =
                    IF live + 1 > MaxConnections THEN "shed" ELSE "idle"]
    /\ UNCHANGED <<node, gate, inflight, store>>

\* A connection whose thread could not be spawned: the closure is dropped and
\* the guard with it.
SpawnFails(c) ==
    /\ node = "up"
    /\ visits < MaxVisits
    /\ thread[c].at = "gone"
    /\ c = FreeName
    /\ live + 1 <= MaxConnections
    /\ \A d \in Conn : thread[d].at # "shed"
    /\ visits' = visits + 1
    /\ UNCHANGED <<node, gate, thread, live, inflight, store>>

\* shed: say 503, close, and only then give the place back.
Shed(c) ==
    /\ thread[c].at = "shed"
    /\ thread' = [thread EXCEPT ![c] = Gone]
    /\ live' = live - 1
    /\ UNCHANGED <<inflight, serving, store>>

\* Stopper::stop: the accept loop takes no more connections, threads go on.
Stop ==
    /\ node = "up"
    /\ visits < MaxVisits
    /\ visits' = MaxVisits
    /\ UNCHANGED <<node, gate, thread, live, inflight, store>>

\* read_head brings a request.
ReadHead(c) ==
    /\ thread[c].at = "idle"
    /\ thread[c].served < MaxRequests
    /\ \E r \in Requests :
          thread' = [thread EXCEPT ![c].at = "inspecting", ![c].req = r]
    /\ UNCHANGED <<live, inflight, serving, store>>

\* The peer says goodbye or stays silent, the connection is too old, or it
\* has had all the requests it may have.
LeaveLoop(c) ==
    /\ thread[c].at = "idle"
    /\ thread' = [thread EXCEPT ![c] = Leaving(c)]
    /\ UNCHANGED <<live, inflight, serving, store>>

\* A head that is refused is answered and the connection left, uncounted.
RefuseHead(c) ==
    /\ thread[c].at = "idle"
    /\ thread[c].served < MaxRequests
    /\ thread' = [thread EXCEPT ![c] = Leaving(c)]
    /\ UNCHANGED <<live, inflight, serving, store>>

\* Ingest::inspect.  The look at the queue takes the lock, and a lock found
\* poisoned is remembered.
Inspect(c) ==
    /\ thread[c].at = "inspecting"
    /\ \E g \in GateAnswers :
          LET r == thread[c].req
              status == IF Routed(r) # 0 THEN Routed(r)
                        ELSE IF g.status # 0 THEN g.status ELSE Described(r)
              looked == Routed(r) = 0 /\ g.status = 0 /\ ~SaysEmpty(r)
                        /\ (Described(r) \in {0, 503})
          IN /\ thread' = [thread EXCEPT ![c] =
                             IF status = 0
                             THEN [@ EXCEPT !.at = "reserving", !.bound = g.bound]
                             ELSE Answering(c, status)]
             /\ degraded' = (degraded \/ (looked /\ lock = "poisoned"))
    /\ UNCHANGED <<live, inflight, serving, lock, otlp, drain, written>>

\* Budget::reserve, and 503 and a closed connection when it does not fit.
Reserve(c) ==
    /\ thread[c].at = "reserving"
    /\ LET want == Want(thread[c].req)
       IN IF inflight + want <= MaxInflight
          THEN /\ inflight' = inflight + want
               /\ thread' = [thread EXCEPT ![c].at = "reading", ![c].held = want]
          ELSE /\ thread' = [thread EXCEPT ![c] = Leaving(c)]
               /\ UNCHANGED inflight
    /\ UNCHANGED <<live, serving, store>>

\* read_body has it all.
ReadBody(c) ==
    /\ thread[c].at = "reading"
    /\ thread' = [thread EXCEPT ![c].at = "submitting"]
    /\ UNCHANGED <<live, inflight, serving, store>>

\* The path that forgets what it reserved.
BodyFails_KeepsBudget(c) ==
    /\ thread[c].at = "reading"
    /\ thread' = [thread EXCEPT ![c] = Leaving(c)]
    /\ UNCHANGED <<live, inflight, serving, store>>

\* A 100-continue that cannot be written, a peer that stops in the middle of
\* a body, a body too slow or too late: nothing goes on to the source, and
\* the budget goes back.
BodyFails(c) ==
    /\ thread[c].at = "reading"
    /\ thread' = [thread EXCEPT ![c] = Leaving(c)]
    /\ Release(c)
    /\ UNCHANGED <<live, serving, store>>

\* The look at the queue in inspect is the only one.
Submit_NoSecondLook(c) ==
    /\ thread[c].at = "submitting"
    /\ LET r == thread[c].req
           after == AcceptAs(r, thread[c].bound)
           taken == Inflated(r) = 0 /\ lock = "sound"
           status == IF Inflated(r) # 0 THEN Inflated(r)
                     ELSE IF ~taken THEN 503 ELSE AnswerFor(otlp, after)
       IN /\ thread' = [thread EXCEPT ![c] =
                          [Answering(c, status) EXCEPT !.queued =
                             IF taken THEN after.pending - otlp.pending ELSE 0]]
          /\ otlp' = IF taken THEN after ELSE otlp
          /\ degraded' = (degraded \/ (Inflated(r) = 0 /\ lock = "poisoned"))
    /\ Release(c)
    /\ UNCHANGED <<live, serving, lock, drain, written>>

\* Ingest::submit.  The decisive look at the queue is under the lock that
\* also pushes.  The budget is dropped before the answer is written.
Submit(c) ==
    /\ thread[c].at = "submitting"
    /\ LET r == thread[c].req
           after == AcceptAs(r, thread[c].bound)
           taken == Inflated(r) = 0 /\ lock = "sound"
                    /\ otlp.pending < MaxPending
           status == IF Inflated(r) # 0 THEN Inflated(r)
                     ELSE IF ~taken THEN 503 ELSE AnswerFor(otlp, after)
       IN /\ thread' = [thread EXCEPT ![c] =
                          [Answering(c, status) EXCEPT !.queued =
                             IF taken THEN after.pending - otlp.pending ELSE 0]]
          /\ otlp' = IF taken THEN after ELSE otlp
          /\ degraded' = (degraded \/ (Inflated(r) = 0 /\ lock = "poisoned"))
    /\ Release(c)
    /\ UNCHANGED <<live, serving, lock, drain, written>>

\* A thread that panics with the lock in its hands poisons it; unwinding
\* drops the budget and the place among the connections.
PanicUnderLock(c) ==
    /\ thread[c].at = "submitting"
    /\ lock = "sound"
    /\ lock' = "poisoned"
    /\ thread' = [thread EXCEPT ![c] = Gone]
    /\ Release(c)
    /\ live' = live - 1
    /\ UNCHANGED <<serving, degraded, otlp, drain, written>>

\* The answer is written; the connection stays open only for an export that
\* was taken, from a peer that neither asked to close nor sent more.
WriteAnswer(c) ==
    /\ thread[c].at = "answering"
    /\ LET ends == Closes(thread[c].status) \/ thread[c].req.close
       IN thread' = [thread EXCEPT ![c] =
            IF ends THEN Leaving(c)
            ELSE [Gone EXCEPT !.at = "idle", !.served = thread[c].served + 1]]
    /\ UNCHANGED <<live, inflight, serving, store>>

\* The peer is gone before it could read the answer.
WriteFails(c) ==
    /\ thread[c].at = "answering"
    /\ thread' = [thread EXCEPT ![c] = Leaving(c)]
    /\ UNCHANGED <<live, inflight, serving, store>>

\* The close in stages, and Drop for Live at the end of the thread.
Close(c) ==
    /\ thread[c].at = "closing"
    /\ thread' = [thread EXCEPT ![c] = Gone]
    /\ live' = live - 1
    /\ UNCHANGED <<inflight, serving, store>>

-----------------------------------------------------------------------------
(* The drain loop of run.                                                  *)

\* Every way out of run takes the threads and what is in memory with it.
Exits ==
    /\ node' = "exited"
    /\ thread' = [c \in Conn |-> Gone]
    /\ live' = 0
    /\ inflight' = 0
    /\ drain' = Asleep
    /\ otlp' = NewSource(otlp.canName)
    /\ written' = 0
    /\ UNCHANGED <<gate, lock, degraded, visits>>

\* A turn that finds the queue empty goes back to sleep.
Poll_OnlyWhenPending ==
    /\ node = "up"
    /\ lock = "sound"
    /\ drain.at = "asleep"
    /\ otlp.pending > 0
    /\ LET take == IF otlp.pending < PollBudget THEN otlp.pending ELSE PollBudget
       IN /\ otlp' = [otlp EXCEPT !.pending = @ - take]
          /\ drain' = [drain EXCEPT !.at = "polled"]
    /\ UNCHANGED <<serving, thread, live, inflight, lock, degraded, written>>

\* The first with_source of a turn polls the queue.
Poll ==
    /\ node = "up"
    /\ lock = "sound"
    /\ drain.at = "asleep"
    /\ LET take == IF otlp.pending < PollBudget THEN otlp.pending ELSE PollBudget
       IN /\ otlp' = [otlp EXCEPT !.pending = @ - take]
          /\ drain' = [drain EXCEPT !.at = "polled"]
    /\ UNCHANGED <<serving, thread, live, inflight, lock, degraded, written>>

\* A poisoned lock is found by the poll: the plane is synced and run ends.
PollPoisoned ==
    /\ node = "up"
    /\ lock = "poisoned"
    /\ drain.at = "asleep"
    /\ Exits

\* The second with_source: OtlpSource::anomaly_event.  A lock poisoned since
\* the poll yields no event, and what was polled is still written.  The total
\* counts as reported before the record is named, and a name that does not parse
\* ends in no record.
NoteAnomalies ==
    /\ drain.at = "polled"
    /\ LET since == AnomalyTotal(otlp) - otlp.reported
       IN IF lock = "sound"
          THEN /\ otlp' = [otlp EXCEPT !.reported = AnomalyTotal(otlp)]
               /\ drain' = [drain EXCEPT !.at = "noted",
                                         !.anomalies = IF otlp.canName THEN since ELSE 0]
               /\ UNCHANGED degraded
          ELSE /\ drain' = [drain EXCEPT !.at = "noted"]
               /\ degraded' = TRUE
               /\ UNCHANGED otlp
    /\ UNCHANGED <<serving, thread, live, inflight, lock, written>>

\* Plane::accept takes them all, with the one record about what was lost.
PlaneAccepts ==
    /\ drain.at = "noted"
    /\ written' = written + drain.anomalies
    /\ drain' = Asleep
    /\ UNCHANGED <<serving, thread, live, inflight, lock, degraded, otlp>>

\* The journal refuses, or the seal after it fails: run ends.
PlaneRefuses ==
    /\ drain.at = "noted"
    /\ Exits

-----------------------------------------------------------------------------
ThreadStep(c) ==
    \/ ReadHead(c) \/ LeaveLoop(c) \/ RefuseHead(c) \/ Inspect(c)
    \/ Reserve(c) \/ ReadBody(c) \/ BodyFails(c) \/ Submit(c)
    \/ PanicUnderLock(c) \/ WriteAnswer(c) \/ WriteFails(c) \/ Close(c)

DrainStep == Poll \/ PollPoisoned \/ NoteAnomalies \/ PlaneAccepts \/ PlaneRefuses

IngestNext ==
    \/ \E secret \in BOOLEAN, flags \in {0, 2, 4} : Start(secret, flags)
    \/ StartFails
    \/ Stop
    \/ \E c \in Conn : AcceptConnection(c) \/ SpawnFails(c) \/ Shed(c) \/ ThreadStep(c)
    \/ DrainStep

\* Threads run on: every wait for a peer has a deadline (Config's read, write,
\* header, body and idle timeouts), so each thread that can take a step does.
\* The drain loop sleeps and turns.
IngestFairness ==
    /\ \A c \in Conn : WF_ingestVars(ThreadStep(c) \/ Shed(c))
    /\ WF_ingestVars(DrainStep)

IngestSpec == IngestInit /\ [][IngestNext]_ingestVars /\ IngestFairness

-----------------------------------------------------------------------------
(* Properties.                                                             *)

HoldsPlace(c) == thread[c].at # "gone"

\* The counters are what the threads hold, on every way out of a request or a
\* connection, panics included: nothing leaks until the server refuses all.
CountersAreHeld ==
    /\ live = Cardinality({c \in Conn : HoldsPlace(c)})
    /\ inflight = MapThenSumSet(LAMBDA c : thread[c].held, Conn)

\* At most MaxConnections threads serve, and bodies in memory fit their budget.
LimitsHold ==
    /\ Cardinality({c \in Conn : HoldsPlace(c) /\ thread[c].at # "shed"})
          <= MaxConnections
    /\ inflight <= MaxInflight

\* A port the network can reach has a gate.
OpenPortIsGuarded ==
    node = "up" /\ Routable => gate # "none"

\* Server and Ingest: budgets are exact and kept by any number of connections
\* at once, and no port is served to the network without a gate.
BudgetsAreExact == CountersAreHeld /\ LimitsHold /\ OpenPortIsGuarded

\* What one batch may put in the queue at most, its refusal note included.
LargestBatch ==
    Max({0} \cup {r.spans.mine + r.spans.other + 1 : r \in Requests})

\* Ingest::submit: the queue passes its limit by less than one batch, however
\* many connections saw room for theirs.
QueueIsBounded == otlp.pending < MaxPending + LargestBatch

\* OtlpSource::anomaly_event: every anomaly that counts as reported is told of by a
\* record in the plane or in the drain loop's hands, none is told of twice, and the
\* count never overtakes anomaly_total.  It takes a trust domain that leaves room for
\* the record's name: in one that does not, no record ever tells of any.
LossesAreWritten ==
    node = "up" =>
        /\ otlp.reported <= AnomalyTotal(otlp)
        /\ written + drain.anomalies = IF otlp.canName THEN otlp.reported ELSE 0

\* What the peer is told is what happened: an answer it will retry left nothing
\* in the queue, a plain 200 left every span of the batch there, and spans were
\* refused or dropped only behind a 200 that says so.
AnswersAreTrue ==
    \A c \in Conn : thread[c].at = "answering" =>
        LET r == thread[c].req
            all == Spans(r).mine + Spans(r).other
        IN /\ Retryable(thread[c].status) => thread[c].queued = 0
           /\ thread[c].status = 200 /\ r.path = "traces" =>
                 /\ thread[c].queued = all
                 /\ Spans(r).unmapped + Spans(r).dropped = 0
           /\ thread[c].queued > 0 => thread[c].status \in {200, Partial}

\* Server, Ingest and OtlpSource: whatever order threads, the accept loop and
\* the drain loop run in, connections and bytes are counted exactly, the queue
\* is bounded, what a peer is told is true, and what counts as reported has its
\* record, or none has where the record cannot be named.
IntakeIsAccounted ==
    BudgetsAreExact /\ QueueIsBounded /\ LossesAreWritten /\ AnswersAreTrue

\* serve_connection: every connection ends and gives its place back; and
\* anomaly_event: what anomaly_total counted is written down where the record can be
\* named, unless the process ends first.  Peers stop coming at MaxVisits, so both are
\* true for good.
ConnectionsEndAndLossesAreNoted ==
    <>[](/\ \A c \in Conn : ~HoldsPlace(c)
         /\ \/ otlp.reported = AnomalyTotal(otlp) /\ (otlp.canName => written = otlp.reported)
            \/ node = "exited")
=============================================================================
