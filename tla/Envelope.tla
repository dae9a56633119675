------------------------------ MODULE Envelope ------------------------------
(***************************************************************************)
(* The mapper from an agent event, one line of JSON, to a record: the order *)
(* of its refusals, what each type of event means, which members become     *)
(* typed metadata and which go to the payload; and the instant a line       *)
(* carries, by its civil date.  A line is a sequence of members [n, v]; a   *)
(* value is [t, v], its JSON type and what is in it, all sequences.         *)
(***************************************************************************)
EXTENDS Integers, Sequences, FiniteSets, SequencesExt, TLC

None == <<>>
SCHEMAS == {"v0.1", "v0.2", "v0.3", "v1.0"}

-----------------------------------------------------------------------------
(* What one type of event means: <<type, event, verdict, error, band>>.     *)

Means(event, verdict, error, band) ==
    [event |-> event, verdict |-> verdict, error |-> error, severity |-> band]
MoneyReadings ==
    [budget_exhausted  |-> Means("budget_check", <<"denied">>, <<"budget_exceeded">>, "critical"),
     unit_cap_exceeded |-> Means("budget_check", <<"denied">>, <<"budget_exceeded">>, "error"),
     budget_threshold  |-> Means("budget_check", None, None, "warning"),
     spend_spike       |-> Means("budget_check", None, None, "warning"),
     call_retained     |-> Means("budget_check", <<"held">>, None, "warning"),
     retained_closed   |-> Means("budget_check", <<"not_applicable">>, None, "error")]
PolicyReadings ==
    [policy_allow      |-> Means("policy_decision", <<"allowed">>, None, "info"),
     policy_deny       |-> Means("policy_decision", <<"denied">>, <<"policy_denied">>, "error"),
     breaker_tripped   |-> Means("policy_decision", <<"denied">>, <<"policy_denied">>, "warning"),
     breaker_shadow    |-> Means("policy_decision", <<"allowed">>, None, "warning"),
     dlp_shadow        |-> Means("policy_decision", <<"allowed">>, None, "warning"),
     dlp_block         |-> Means("policy_decision", <<"denied">>, <<"policy_denied">>, "error"),
     taint_block       |-> Means("policy_decision", <<"denied">>, <<"policy_denied">>, "error"),
     identity_mismatch |-> Means("policy_decision", <<"denied">>, <<"unauthorized">>, "error")]
RunReadings ==
    [approval_requested |-> Means("policy_decision", <<"held">>, None, "warning"),
     approval_granted   |-> Means("policy_decision", <<"allowed">>, None, "info"),
     approval_denied    |-> Means("policy_decision", <<"denied">>, <<"policy_denied">>, "error"),
     approval_timeout   |-> Means("policy_decision", <<"failed">>, <<"timeout">>, "error"),
     approval_unanswered |-> Means("policy_decision", <<"failed">>, <<"timeout">>, "error"),
     tool_call          |-> Means("tool_call", None, None, "info"),
     run_killed         |-> Means("run_completed", <<"failed">>, <<"policy_denied">>, "error")]
SignalReadings ==
    [memory_written      |-> Means("memory_access", None, None, "info"),
     memory_forgotten    |-> Means("memory_access", None, None, "info"),
     reflection_run      |-> Means("memory_access", None, None, "info"),
     contradiction_found |-> Means("memory_access", None, None, "info"),
     identity_finding    |-> Means("identity_finding", None, None, "warning"),
     web_fetch           |-> Means("tool_call", None, None, "notice"),
     web_blocked         |-> Means("policy_decision", <<"denied">>, None, "error"),
     alert_sent          |-> Means("notification_dispatched", None, None, "info")]
FailureReadings ==
    [dependency_failed |-> Means("model_call", <<"failed">>, <<"upstream_error">>, "error"),
     taint_shadow      |-> Means("policy_decision", <<"allowed">>, None, "warning"),
     taint_cleared     |-> Means("policy_decision", <<"not_applicable">>, None, "error")]
Tables == <<MoneyReadings, PolicyReadings, RunReadings, SignalReadings, FailureReadings>>
MappingFor(kind) ==
    LET i == SelectInSeq(Tables, LAMBDA t : kind \in DOMAIN t) IN
    IF i = 0 THEN None ELSE <<Tables[i][kind]>>

SeverityFor(raw) ==
    LET bands == [info |-> "info", low |-> "notice", medium |-> "warning", high |-> "error",
                  critical |-> "critical"]
    IN  IF raw \in DOMAIN bands THEN <<bands[raw]>> ELSE None

-----------------------------------------------------------------------------
(* One line, read into strings.                                             *)

Names == {"schema", "ts", "type", "severity", "agent_id", "run_id"}
Refuse(why) == [ok |-> FALSE, why |-> why]
Blank ==
    [text |-> [n \in Names |-> None], chain |-> <<>>, proof |-> None, rest |-> <<>>]

\* A value rendered so that two spellings of one event give one string.
Canonical(v) == IF v.t = "object" THEN [v EXCEPT !.v = Range(@)] ELSE v
ToRest(p, m) == [p EXCEPT !.rest = Append(@, [n |-> m.n, v |-> Canonical(m.v)])]
TakeText(p, m) ==
    IF m.v.t = "string" THEN [p EXCEPT !.text[m.n] = m.v.v] ELSE ToRest(p, m)
\* A link that is not a string is kept as what it was written as, which no
\* principal is.
TakeChain(p, m) ==
    IF m.v.t = "array" THEN [p EXCEPT !.chain = m.v.v] ELSE ToRest(p, m)
\* All four or none.  Of the ones it cannot read it keeps the name, and an empty
\* object.
ProofMember(m, name, type) ==
    LET i == SelectInSeq(m.v.v, LAMBDA x : x.n = name /\ x.t = type) IN
    IF i = 0 THEN None ELSE <<m.v.v[i].v>>
TakeProof(p, m) ==
    IF m.v.t # "object" THEN ToRest(p, m)
    ELSE LET four == <<ProofMember(m, "jti", "string"), ProofMember(m, "jkt", "string"),
                       ProofMember(m, "iss", "string"), ProofMember(m, "exp", "u64")>>
         IN  IF \A i \in 1..4 : four[i] # None THEN [p EXCEPT !.proof = <<four>>]
             ELSE ToRest(p, [m EXCEPT !.v.v = <<>>])
ReadLine(line) ==
    LET repeated == \E i, j \in DOMAIN line.members :
                       i # j /\ line.members[i].n = line.members[j].n
    IN  IF ~line.object \/ repeated THEN Refuse("not_an_envelope")
        ELSE [ok |-> TRUE,
              p |-> FoldLeft(LAMBDA p, m :
                               CASE m.n \in Names -> TakeText(p, m)
                                 [] m.n = "on_behalf_of" -> TakeChain(p, m)
                                 [] m.n = "delegation_proof" -> TakeProof(p, m)
                                 [] OTHER -> ToRest(p, m),
                             Blank, line.members)]

-----------------------------------------------------------------------------
(* The refusals, in their order.  An agent is <<form, domain>>.             *)

Claimed(agent) == agent # None /\ agent[1] = "claimed"
Unidentified(agent) == agent # None /\ agent[1] = "unidentified"
StrictAgent(agent) == IF agent # None /\ agent[1] = "agent" THEN <<agent[2]>> ELSE None
IsPrincipal(link) == link[1] = "principal"

\* The identifiers of a proof are parsed as any other: a character outside the set
\* is not repaired.
TypedProof(proof) ==
    IF proof # None /\ \A i \in 1..3 : proof[1][i][1][2] = "segment" THEN proof ELSE None

Sorted(rest) ==
    LET order == <<"data", "delegation_proof", "on_behalf_of", "severity", "source", "ts", "type">>
        rank(n) == SelectInSeq(order, LAMBDA x : x = n)
    IN  SortSeq(rest, LAMBDA a, b : rank(a.n) < rank(b.n))
Payload(p, chainKept) ==
    Sorted(p.rest) \o
    (IF chainKept THEN <<>>
     ELSE [i \in DOMAIN p.chain |-> [n |-> "on_behalf_of", v |-> [t |-> "string", v |-> p.chain[i]]]])

Mapped(p, mapping) ==
    LET chainKept == \A i \in DOMAIN p.chain : IsPrincipal(p.chain[i])
        band      == IF p.text.severity = None THEN None ELSE SeverityFor(p.text.severity[1])
    IN  [ok |-> TRUE,
         meta |-> [agent |-> p.text.agent_id, run |-> p.text.run_id, at |-> p.text.ts,
                   chain |-> IF chainKept THEN p.chain ELSE <<>>,
                   event |-> mapping.event, verdict |-> mapping.verdict, error |-> mapping.error,
                   severity |-> IF band = None THEN mapping.severity ELSE band[1],
                   proof |-> TypedProof(p.proof)],
         payload |-> Payload(p, chainKept)]

MapLine_DomainFirst(domain, line) ==
    LET read == ReadLine(line) IN
    IF ~read.ok THEN read
    ELSE LET p       == read.p
             agent   == StrictAgent(p.text.agent_id)
             mapping == IF p.text.type = None THEN None ELSE MappingFor(p.text.type[1])
         IN  IF p.text.schema = None \/ p.text.schema[1] \notin SCHEMAS THEN Refuse("unknown_schema")
             ELSE IF Claimed(p.text.agent_id) THEN Refuse("claimed_subject")
             ELSE IF Unidentified(p.text.agent_id) THEN Refuse("no_agent")
             ELSE IF agent = None THEN Refuse("no_agent")
             ELSE IF agent[1] # domain THEN Refuse("foreign")
             ELSE IF mapping = None THEN Refuse("unknown_type")
             ELSE IF p.text.run_id = None \/ p.text.run_id[1] = "bad" THEN Refuse("no_run_id")
             ELSE IF p.text.ts = None \/ p.text.ts[1] = "bad" THEN Refuse("bad_time")
             ELSE Mapped(p, mapping[1])
MapLine(domain, line) ==
    LET read == ReadLine(line) IN
    IF ~read.ok THEN read
    ELSE LET p       == read.p
             agent   == StrictAgent(p.text.agent_id)
             mapping == IF p.text.type = None THEN None ELSE MappingFor(p.text.type[1])
         IN  IF p.text.schema = None \/ p.text.schema[1] \notin SCHEMAS THEN Refuse("unknown_schema")
             ELSE IF Claimed(p.text.agent_id) THEN Refuse("claimed_subject")
             ELSE IF Unidentified(p.text.agent_id) THEN Refuse("no_agent")
             ELSE IF agent = None THEN Refuse("no_agent")
             ELSE IF mapping = None THEN Refuse("unknown_type")
             ELSE IF agent[1] # domain THEN Refuse("foreign")
             ELSE IF p.text.run_id = None \/ p.text.run_id[1] = "bad" THEN Refuse("no_run_id")
             ELSE IF p.text.ts = None \/ p.text.ts[1] = "bad" THEN Refuse("bad_time")
             ELSE Mapped(p, mapping[1])

-----------------------------------------------------------------------------
(* Instants.  A field of digits is a number, or -1 when a byte is no digit. *)

IsLeap(year) == (year % 4 = 0 /\ year % 100 # 0) \/ year % 400 = 0
DaysInMonth(year, month) ==
    CASE month \in {1, 3, 5, 7, 8, 10, 12} -> 31
      [] month \in {4, 6, 9, 11} -> 30
      [] month = 2 -> IF IsLeap(year) THEN 29 ELSE 28
      [] OTHER -> 0
\* Division in the code truncates: the era of a year below zero is rounded down by
\* hand.  Here \div rounds down already.
DaysFromCivil(year, month, day) ==
    LET y   == IF month <= 2 THEN year - 1 ELSE year
        era == y \div 400
        yoe == y - era * 400
        mp  == (month + 9) % 12
        doy == (153 * mp + 2) \div 5 + day - 1
        doe == yoe * 365 + yoe \div 4 - yoe \div 100 + doy
    IN  era * 146097 + doe - 719468
\* The other way, as the object store clients stamp their requests with it.
CivilFromDays(days) ==
    LET z   == days + 719468
        era == z \div 146097
        doe == z - era * 146097
        yoe == (doe - doe \div 1460 + doe \div 36524 - doe \div 146096) \div 365
        doy == doe - (365 * yoe + yoe \div 4 - yoe \div 100)
        mp  == (5 * doy + 2) \div 153
        m   == IF mp < 10 THEN mp + 3 ELSE mp - 9
    IN  <<yoe + era * 400 + (IF m <= 2 THEN 1 ELSE 0), m, doy - (153 * mp + 2) \div 5 + 1>>

\* A time of day and its offset, in seconds; the fraction to three digits, cut.
Fraction(digits) ==
    LET taken == SubSeq(digits, 1, IF Len(digits) < 3 THEN Len(digits) ELSE 3) IN
    FoldLeft(LAMBDA a, d : a * 10 + d, 0, taken) * 10 ^ (3 - Len(taken))
ParseInstant(t) ==
    IF \/ t.month \notin 1..12
       \/ t.day \notin 1..DaysInMonth(t.year, t.month)
       \/ t.hour \notin 0..23 \/ t.minute \notin 0..59 \/ t.second \notin 0..59
       \/ t.dot /\ t.fraction = <<>>
       \/ t.zone \notin {"Z", "+", "-"}
       \/ t.zone # "Z" /\ (t.oh \notin 0..23 \/ t.om \notin 0..59)
    THEN None
    ELSE LET off == IF t.zone = "Z" THEN 0
                    ELSE (IF t.zone = "+" THEN 1 ELSE -1) * (t.oh * 3600 + t.om * 60)
             day == DaysFromCivil(t.year, t.month, t.day)
             sec == t.hour * 3600 + t.minute * 60 + t.second - off
             whole == [days |-> day + sec \div 86400, seconds |-> sec % 86400,
                       thousandths |-> IF t.dot THEN Fraction(t.fraction) ELSE 0]
         IN  IF whole.days < 0 THEN None ELSE <<whole>>

-----------------------------------------------------------------------------
(* What has to hold.                                                        *)

\* Whether a member of a mapped line is in a typed field, or in the payload.
TypedMember(r, m) ==
    CASE m.n \in {"schema", "ts", "type", "agent_id", "run_id"} -> m.v.t = "string"
      [] m.n = "severity" -> m.v.t = "string" /\ SeverityFor(m.v.v[1]) = <<r.meta.severity>>
      [] m.n = "on_behalf_of" -> m.v.t = "array" /\ r.meta.chain = m.v.v
      [] m.n = "delegation_proof" -> r.meta.proof # None
      [] OTHER -> FALSE
InPayload(r, m) ==
    IF m.n = "on_behalf_of" /\ m.v.t = "array"
    THEN \A i \in DOMAIN m.v.v : \E k \in DOMAIN r.payload :
            r.payload[k] = [n |-> m.n, v |-> [t |-> "string", v |-> m.v.v[i]]]
    ELSE \E k \in DOMAIN r.payload : r.payload[k] = [n |-> m.n, v |-> Canonical(m.v)]

\* A member is consumed or it is in the payload, never both and never neither: true
\* of every member but a proof that is not typed and a band that is not known.
MembersAreKept(domain, line) ==
    LET r == MapLine(domain, line)
        plain == SelectSeq(line.members, LAMBDA m :
                    ~(m.n = "delegation_proof" /\ m.v.t = "object")
                    /\ ~(m.n = "severity" /\ m.v.t = "string" /\ SeverityFor(m.v.v[1]) = None))
    IN  r.ok => /\ \A m \in Range(plain) :
                      (m.n = "on_behalf_of" /\ m.v.v = <<>>) \/ (TypedMember(r, m) # InPayload(r, m))
                /\ r.meta.proof # None => ~\E k \in DOMAIN r.payload : r.payload[k].n = "delegation_proof"

\* A refusal says what is wrong with the line: the domain is blamed only when
\* nothing that no domain can mend is wrong with its subject or its type, a claim
\* is a claim whoever is asked, and the order of the members changes nothing.
RefusalsAreTrue(domains, line) ==
    LET r(d) == MapLine(d, line)
        mirror == [line EXCEPT !.members = Reverse(@)]
    IN  \A d \in domains :
          /\ ~r(d).ok => /\ r(d).why = "foreign" =>
                              \E e \in domains : r(e).ok \/ r(e).why \in {"no_run_id", "bad_time"}
                         /\ r(d).why # "foreign" => \A e \in domains :
                              ~r(e).ok /\ r(e).why \in {r(d).why, "foreign"}
          /\ MapLine(d, mirror) = r(d)

\* What a type is read as says no more than happened: only a refusal or a failure
\* carries the code of an error, and what was permitted carries none.
ReadingsAreSober ==
    \A i \in DOMAIN Tables : \A kind \in DOMAIN Tables[i] :
        LET m == Tables[i][kind] IN
        /\ m.error # None => m.verdict \in {<<"denied">>, <<"failed">>}
        /\ m.verdict \in {<<"denied">>, <<"failed">>} => m.severity \in {"warning", "error", "critical"}
        /\ \A j \in DOMAIN Tables : i # j => kind \notin DOMAIN Tables[j]

\* One day is one more than the day before it, the epoch is day zero, and the two
\* conversions undo each other.
CivilAgrees(year, month, day) ==
    LET n == DaysFromCivil(year, month, day)
        next == IF day < DaysInMonth(year, month) THEN <<year, month, day + 1>>
                ELSE IF month < 12 THEN <<year, month + 1, 1>> ELSE <<year + 1, 1, 1>>
    IN  day <= DaysInMonth(year, month) =>
          /\ DaysFromCivil(next[1], next[2], next[3]) = n + 1
          /\ CivilFromDays(n) = <<year, month, day>>
          /\ (year = 1970 /\ month = 1) => n = day - 1
\* An instant and the same instant written in another zone are one time.
ZonesAgree(t, minutes) ==
    LET here == ParseInstant(t)
        far  == ParseInstant([t EXCEPT !.zone = "+", !.oh = minutes \div 60, !.om = minutes % 60])
    IN  (here # None /\ t.zone = "Z" /\ far # None) =>
          LET s(x) == x[1].days * 1440 + x[1].seconds \div 60 IN
          s(here) = s(far) + minutes /\ far[1].thousandths = here[1].thousandths
=============================================================================
