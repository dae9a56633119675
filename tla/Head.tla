-------------------------------- MODULE Head --------------------------------
(***************************************************************************)
(* How the ingest server reads requests off a connection: the buffer and   *)
(* the scanner that finds the end of a head, the body that follows it,     *)
(* and the forms a head is made of.                                        *)
(*                                                                         *)
(* A byte is what the scanner tells apart: "cr", "lf", "nul" or "x".  The  *)
(* peer's bytes arrive in any portions; a deadline may pass at any read.   *)
(***************************************************************************)
EXTENDS Integers, Sequences, FiniteSets, SequencesExt

CONSTANTS
    Sent,              \* what a peer may send, in all
    Lengths,           \* the Content-Length values a head may declare
    MaxHeaderSection,  \* Config::max_header_section
    ReadChunk,         \* READ_CHUNK: the room behind the largest head
    MaxBodyLength      \* Config::max_body

\* A byte is what the scanner tells apart, and the limits are numbers.
WireByte == {"cr", "lf", "nul", "x"}
WireConstants ==
    /\ Sent \subseteq Seq(WireByte) /\ Lengths \subseteq Nat
    /\ MaxHeaderSection \in Nat /\ ReadChunk \in Nat /\ MaxBodyLength \in Nat
ASSUME WireAssumption == WireConstants

VARIABLES
    sent,     \* all the peer sends on this connection
    arrived,  \* how many bytes of it the server has read
    buf,      \* Wire::buf up to Wire::filled
    at,       \* Wire::at
    wire,     \* what is being read, and how far the scanner is
    took      \* the requests read so far: head and body of each

wireVars == <<sent, arrived, buf, at, wire, took>>

-----------------------------------------------------------------------------
(* The scanner.                                                            *)

Scan(found, scan, line) == [found |-> found, scan |-> scan, line |-> line]

\* One turn of find_head_end's loop over the bytes there are; it stays where it is
\* when more bytes are needed.
ScanStep(b, s) ==
    IF s.found # "more" \/ s.scan >= Len(b) THEN s
    ELSE IF s.scan >= MaxHeaderSection THEN Scan("431", s.scan, s.line)
    ELSE IF b[s.scan + 1] \in {"lf", "nul"} THEN Scan("400", s.scan, s.line)
    ELSE IF b[s.scan + 1] # "cr" THEN Scan("more", s.scan + 1, s.line)
    ELSE IF s.scan + 1 >= Len(b) THEN s
    ELSE IF b[s.scan + 2] # "lf" THEN Scan("400", s.scan, s.line)
    ELSE IF s.scan = s.line THEN Scan("end", s.scan + 2, s.line)
    ELSE Scan("more", s.scan + 2, s.scan + 2)

\* The end of the head, a refusal, or the place to go on from when more bytes come.
Scanned(b, scan, line) ==
    LET after[n \in 0..Len(b)] == IF n = 0 THEN Scan("more", scan, line) ELSE ScanStep(b, after[n - 1])
    IN  after[Len(b)]

-----------------------------------------------------------------------------
(* The connection.                                                         *)

Reading(kind, scan, line, want) ==
    [at |-> kind, scan |-> scan, line |-> line, want |-> want]

Refuse(status) == wire' = [wire EXCEPT !.at = status]

\* Whether a whole head is in the buffer.
AfterScan(b, scan, line) ==
    LET s == Scanned(b, scan, line)
    IN IF s.found = "more" THEN Reading("head", s.scan, s.line, 0)
       ELSE IF s.found = "end" THEN Reading("parsed", s.scan, 0, 0)
       ELSE Reading(s.found, 0, 0, 0)

\* Wire::new
WireInit ==
    /\ sent \in Sent
    /\ arrived = 0
    /\ buf = <<>>
    /\ at = 0
    /\ wire = Reading("head", 0, 0, 0)
    /\ took = <<>>

\* How many bytes one read may bring into a buffer that holds b.
Portions(b) == 1..Min({Len(sent) - arrived,
                       MaxHeaderSection + ReadChunk - Len(b)})

\* fill brings a portion while a head is read, and the scanner goes on.
HeadBytes ==
    /\ wire.at = "head"
    /\ \E n \in Portions(buf) :
          /\ buf' = buf \o SubSeq(sent, arrived + 1, arrived + n)
          /\ arrived' = arrived + n
    /\ wire' = AfterScan(buf', wire.scan, wire.line)
    /\ UNCHANGED <<sent, at, took>>

\* The peer closes: a goodbye when nothing of a request has come.
HeadEof ==
    /\ wire.at = "head"
    /\ arrived = Len(sent)
    /\ Refuse(IF buf = <<>> THEN "goodbye" ELSE "400")
    /\ UNCHANGED <<sent, arrived, buf, at, took>>

\* A read timed out and the deadline has passed: silence is a goodbye too.
HeadSilent ==
    /\ wire.at = "head"
    /\ Refuse(IF buf = <<>> THEN "goodbye" ELSE "408")
    /\ UNCHANGED <<sent, arrived, buf, at, took>>

\* The deadline passes between the look at the clock that let the read go on
\* and the one at the top of fill.
HeadLate ==
    /\ wire.at = "head"
    /\ Refuse("408")
    /\ UNCHANGED <<sent, arrived, buf, at, took>>

\* read_body takes what is there of the bytes it wants.
Taking(length, body, b, from) ==
    LET n == Min({length - Len(body), Len(b) - from})
    IN [body |-> body \o SubSeq(b, from + 1, from + n), at |-> from + n]

\* The head is parsed; what came with it is the beginning of the body.
TakeHead(length) ==
    /\ wire.at = "parsed"
    /\ IF length > MaxBodyLength
       THEN /\ Refuse("413")
            /\ UNCHANGED <<buf, at, took>>
       ELSE LET ready == Taking(length, <<>>, buf, wire.scan)
            IN /\ took' = Append(took, [head |-> SubSeq(buf, 1, wire.scan),
                                        body |-> ready.body])
               /\ at' = ready.at
               /\ wire' = Reading("body", 0, 0, length)
               /\ UNCHANGED buf
    /\ UNCHANGED <<sent, arrived>>

BodyMissing == wire.at = "body" /\ Len(Last(took).body) < wire.want

\* One more read of the body: compact, fill, take.
BodyBytes ==
    /\ BodyMissing
    /\ LET rest == SubSeq(buf, at + 1, Len(buf))
       IN \E n \in Portions(rest) :
             LET b == rest \o SubSeq(sent, arrived + 1, arrived + n)
                 t == Taking(wire.want, Last(took).body, b, 0)
             IN /\ buf' = b
                /\ at' = t.at
                /\ took' = [took EXCEPT ![Len(took)].body = t.body]
                /\ arrived' = arrived + n
    /\ UNCHANGED <<sent, wire>>

\* The peer stops in the middle: nothing partial goes on and nothing is said.
BodyEof ==
    /\ BodyMissing
    /\ arrived = Len(sent)
    /\ Refuse("truncated")
    /\ UNCHANGED <<sent, arrived, buf, at, took>>

\* The deadline or the rate floor.
BodyLate ==
    /\ BodyMissing
    /\ Refuse("408")
    /\ UNCHANGED <<sent, arrived, buf, at, took>>

\* A connection that goes on to another request with bytes left over.
NextRequest_KeepsLeftovers ==
    /\ wire.at = "body"
    /\ ~BodyMissing
    /\ buf' = <<>>
    /\ at' = 0
    /\ wire' = Reading("head", 0, 0, 0)
    /\ UNCHANGED <<sent, arrived, took>>

\* The request is answered.  Bytes nobody asked for close the connection; it
\* is read on only when the buffer is empty.
NextRequest ==
    /\ wire.at = "body"
    /\ ~BodyMissing
    /\ IF Len(buf) > at
       THEN Refuse("closed") /\ UNCHANGED <<buf, at>>
       ELSE /\ buf' = <<>>
            /\ at' = 0
            /\ wire' = Reading("head", 0, 0, 0)
    /\ UNCHANGED <<sent, arrived, took>>

WireNext ==
    \/ HeadBytes \/ HeadEof \/ HeadSilent \/ HeadLate
    \/ \E length \in Lengths : TakeHead(length)
    \/ BodyBytes \/ BodyEof \/ BodyLate \/ NextRequest

WireSpec == WireInit /\ [][WireNext]_wireVars

-----------------------------------------------------------------------------
(* Properties of the connection.                                           *)

\* Lines end in CRLF and in nothing else, up to position k of s.
CleanUpTo(s, k) ==
    \A i \in 1..k :
        /\ s[i] # "nul"
        /\ s[i] = "cr" => i < Len(s) /\ s[i + 1] = "lf"
        /\ s[i] = "lf" => i > 1 /\ s[i - 1] = "cr"

\* An empty line of s ends at k.
EmptyLineAt(s, k) ==
    /\ k >= 2 /\ k <= Len(s)
    /\ s[k - 1] = "cr" /\ s[k] = "lf"
    /\ k = 2 \/ (k >= 4 /\ s[k - 3] = "cr" /\ s[k - 2] = "lf")

\* All that was read, request by request, and what is still in the buffer.
ReadSoFar ==
    FlattenSeq([i \in DOMAIN took |-> took[i].head \o took[i].body])
        \o SubSeq(buf, at + 1, Len(buf))

\* Wire: whatever the portions, a head is the first clean run of lines up to an
\* empty one, a body is the bytes right behind it, and no byte of the stream is
\* skipped, repeated or moved into another request.
RequestsAreWhatWasSent ==
    /\ ReadSoFar = SubSeq(sent, 1, arrived)
    /\ \A i \in DOMAIN took :
          LET h == took[i].head
          IN /\ CleanUpTo(h, Len(h))
             /\ EmptyLineAt(h, Len(h))
             /\ \A k \in 1..(Len(h) - 1) : ~EmptyLineAt(h, k)
=============================================================================
