------------------------------- MODULE Jsonl --------------------------------
(***************************************************************************)
(* A file of JSON lines, read in pieces of any size: the framer that cuts   *)
(* it into lines, and the source that turns lines into records and what     *)
(* was lost into notes.  A byte is a symbol: "y" is a line that maps to a   *)
(* record, "z" one whose clock is far off, "n" one that decodes and is      *)
(* nothing of ours (other traffic, an empty batch), "x" a value cut short,  *)
(* "LF", "CR" and "sp" what they are, the others the bytes of the marks.    *)
(***************************************************************************)
EXTENDS Integers, Sequences, FiniteSets, SequencesExt

CONSTANTS Files,        \* the files there may be
          MaxLine,      \* max_line_bytes
          MaxQueued,    \* max_pending
          Mode          \* "replay" or "tail"

VARIABLES file,         \* the file
          read,         \* how much of it was handed over
          source,       \* the source and its framer
          handed,       \* every line the framer gave
          drained,      \* every record poll gave
          noted,        \* what the anomaly records said in all
          closed        \* finish was called
jsonlVars == <<file, read, source, handed, drained, noted, closed>>

-----------------------------------------------------------------------------
(* Lines out of bytes.                                                     *)

BOM_UTF8 == <<"EF", "BB", "BF">>
WideMarks == {<<"00", "00", "FE", "FF">>, <<"FF", "FE", "00", "00">>, <<"FE", "FF">>, <<"FF", "FE">>}
MARKS == WideMarks \cup {BOM_UTF8}
SniffEncoding(first) == \E m \in WideMarks : IsPrefix(m, first)
PartialMark(head) == \E m \in MARKS : Len(m) > Len(head) /\ IsPrefix(head, m)
IsBlank(bytes) == \A i \in DOMAIN bytes : bytes[i] = "sp"
FindLf(bytes) == SelectInSeq(bytes, LAMBDA b : b = "LF")
WithoutCr(bytes) == IF bytes # <<>> /\ Last(bytes) = "CR" THEN Front(bytes) ELSE bytes

NewFramer ==
    [carry |-> <<>>, lineNo |-> 0, offset |-> 0, discarding |-> FALSE, refused |-> FALSE,
     atStart |-> TRUE, blank |-> 0, oversize |-> 0, bom |-> FALSE, out |-> <<>>]

\* A line that ended: counted if it is blank and handed over if it is not.
Hand(f, bytes, start) ==
    LET numbered == [f EXCEPT !.lineNo = @ + 1, !.carry = <<>>] IN
    IF IsBlank(bytes) THEN [numbered EXCEPT !.blank = @ + 1]
    ELSE [numbered EXCEPT !.out = Append(@, [bytes |-> bytes, number |-> numbered.lineNo,
                                            offset |-> start, end |-> f.offset])]

\* The mark looked for in what this chunk holds and not across chunks.
OpenStream_ThisChunk(f, chunk) ==
    LET head == SubSeq(chunk, 1, IF Len(chunk) < 4 THEN Len(chunk) ELSE 4)
    IN  IF SniffEncoding(head)
        THEN [f |-> [f EXCEPT !.atStart = FALSE, !.refused = TRUE], rest |-> <<>>]
        ELSE IF IsPrefix(BOM_UTF8, head)
        THEN [f |-> [f EXCEPT !.atStart = FALSE, !.bom = TRUE, !.offset = @ + 3],
              rest |-> SubSeq(chunk, 4, Len(chunk))]
        ELSE [f |-> [f EXCEPT !.atStart = FALSE], rest |-> chunk]

\* The first bytes, once: a prefix that could be either of two marks is held.
OpenStream(f, chunk) ==
    LET all  == f.carry \o chunk
        head == SubSeq(all, 1, IF Len(all) < 4 THEN Len(all) ELSE 4)
    IN  IF PartialMark(head)
        THEN [f |-> [f EXCEPT !.carry = all, !.offset = @ + Len(chunk)], rest |-> <<>>]
        ELSE IF SniffEncoding(head)
        THEN [f |-> [f EXCEPT !.atStart = FALSE, !.refused = TRUE], rest |-> <<>>]
        ELSE IF IsPrefix(BOM_UTF8, head)
        THEN LET taken == 3 - Len(f.carry) IN
             [f |-> [f EXCEPT !.atStart = FALSE, !.bom = TRUE, !.carry = <<>>, !.offset = @ + taken],
              rest |-> SubSeq(chunk, taken + 1, Len(chunk))]
        ELSE [f |-> [f EXCEPT !.atStart = FALSE], rest |-> chunk]

RECURSIVE Frame(_, _)
\* push, after the mark: discard to the next end of line, or take a line that
\* fits, or refuse one that cannot, or hold the rest.
Frame(f, rest) ==
    LET room   == IF Len(f.carry) >= MaxLine THEN 0 ELSE MaxLine - Len(f.carry)
        window == SubSeq(rest, 1, IF Len(rest) < room + 1 THEN Len(rest) ELSE room + 1)
        lf     == FindLf(IF f.discarding THEN rest ELSE window)
        After(n) == SubSeq(rest, n + 1, Len(rest))
        Past(n)  == [f EXCEPT !.offset = @ + n]
    IN  IF rest = <<>> THEN f
        ELSE IF f.discarding
        THEN IF lf = 0 THEN Past(Len(rest))
             ELSE Frame([Past(lf) EXCEPT !.discarding = FALSE, !.lineNo = @ + 1], After(lf))
        ELSE IF lf # 0
        THEN Frame(Hand(Past(lf), WithoutCr(f.carry \o SubSeq(rest, 1, lf - 1)), f.offset - Len(f.carry)),
                   After(lf))
        ELSE IF Len(rest) > room
        THEN Frame([Past(Len(window)) EXCEPT !.oversize = @ + 1, !.carry = <<>>, !.discarding = TRUE],
                   After(Len(window)))
        ELSE [Past(Len(rest)) EXCEPT !.carry = @ \o rest]

Push(f, chunk) ==
    LET opened == IF f.atStart THEN OpenStream(f, chunk) ELSE [f |-> f, rest |-> chunk]
    IN  IF f.refused \/ opened.f.refused THEN [opened.f EXCEPT !.out = <<>>]
        ELSE Frame([opened.f EXCEPT !.out = <<>>], opened.rest)

\* The end of the stream: a held mark is one, a held line is whole but for its
\* terminator, and a line being discarded ends here.
FinishFrame(f) ==
    LET shut == [f EXCEPT !.atStart = FALSE, !.out = <<>>] IN
    CASE f.refused \/ (f.atStart /\ SniffEncoding(f.carry)) ->
            [f |-> [shut EXCEPT !.refused = TRUE], open |-> FALSE]
      [] ~f.refused /\ f.discarding ->
            [f |-> [shut EXCEPT !.discarding = FALSE, !.lineNo = @ + 1], open |-> TRUE]
      [] OTHER ->
            [f |-> IF f.carry = <<>> THEN shut ELSE Hand(shut, f.carry, f.offset - Len(f.carry)),
             open |-> f.carry # <<>>]

-----------------------------------------------------------------------------
(* Records out of lines.                                                   *)

NewSource ==
    [framer |-> NewFramer, pending |-> <<>>, next |-> 1, acked |-> 0, refused |-> FALSE,
     stalled |-> FALSE, tail |-> 0, malformed |-> 0, skewed |-> 0, unassessed |-> 0,
     interior |-> 0, unterminated |-> 0, stops |-> 0, oversize |-> 0, reported |-> 0]

\* The losses that make a note; the others are only told beside them.
LossTotal(s) == s.malformed + s.skewed

\* note_refusal: a last line cut short is the producer's flush and no fault.
NoteRefusal(s, cut, final) ==
    IF cut /\ final THEN s
    ELSE [s EXCEPT !.malformed = @ + 1, !.interior = @ + (IF cut THEN 1 ELSE 0)]

TakeLine(s, line, final) ==
    LET text == SelectSeq(line.bytes, LAMBDA b : b # "sp") IN
    IF text = <<"n">> THEN s
    ELSE IF text \notin {<<"y">>, <<"z">>} THEN NoteRefusal(s, text = <<"x">>, final)
    ELSE [s EXCEPT !.pending = Append(@, [cursor |-> s.next, line |-> line.number]),
                   !.next = @ + 1,
                   !.unassessed = @ + (IF Mode = "replay" THEN 1 ELSE 0),
                   !.skewed = @ + (IF Mode = "tail" /\ text = <<"z">> THEN 1 ELSE 0)]
TakeLines(s, final) == FoldLeft(LAMBDA t, l : TakeLine(t, l, final), s, s.framer.out)

\* absorb_framing: a line too long is a loss too.
AbsorbFraming(s) ==
    LET new == s.framer.oversize - s.oversize
    IN  [s EXCEPT !.malformed = @ + new, !.oversize = s.framer.oversize]
\* note_tail: once for each line the stream stopped in, whatever the reads were.
NoteTail(s) ==
    IF s.framer.carry = <<>> \/ s.tail = s.framer.lineNo + 1 THEN s
    ELSE [s EXCEPT !.tail = s.framer.lineNo + 1, !.unterminated = @ + 1]
\* A mark is a refusal of the stream, told once.
RefuseStream(s) ==
    IF s.framer.refused THEN NoteRefusal([s EXCEPT !.refused = TRUE], FALSE, FALSE) ELSE s

JsonlInit ==
    /\ file \in Files
    /\ read = 0
    /\ source = NewSource
    /\ handed = <<>>
    /\ drained = <<>>
    /\ noted = 0
    /\ closed = FALSE

\* accept_chunk.  A full queue leaves the chunk with the caller.
AcceptChunk(n) ==
    /\ ~closed /\ read + n <= Len(file)
    /\ IF source.refused
       THEN read' = read + n /\ UNCHANGED <<source, handed>>
       ELSE IF Len(source.pending) >= MaxQueued
       THEN /\ source' = [source EXCEPT !.stalled = TRUE, !.stops = @ + (IF source.stalled THEN 0 ELSE 1)]
            /\ UNCHANGED <<read, handed>>
       ELSE LET f == Push(source.framer, SubSeq(file, read + 1, read + n))
                s == [source EXCEPT !.framer = f, !.stalled = FALSE]
            IN  /\ source' = NoteTail(AbsorbFraming(RefuseStream(TakeLines(s, FALSE))))
                /\ handed' = handed \o f.out
                /\ read' = read + n
    /\ UNCHANGED <<file, drained, noted, closed>>

\* finish, once the caller has nothing more.
Finish ==
    /\ ~closed /\ read = Len(file)
    /\ closed' = TRUE
    /\ LET end == FinishFrame(source.framer)
           s   == TakeLines([source EXCEPT !.framer = end.f], TRUE)
           told == IF end.open /\ source.tail # source.framer.lineNo + 1
                   THEN [s EXCEPT !.unterminated = @ + 1] ELSE s
       IN  IF source.refused THEN UNCHANGED <<source, handed>>
           ELSE /\ source' = AbsorbFraming([RefuseStream(told) EXCEPT !.tail = 0])
                /\ handed' = handed \o end.f.out
    /\ UNCHANGED <<file, read, drained, noted>>

JsonlPoll(budget) ==
    LET take == IF budget < Len(source.pending) THEN budget ELSE Len(source.pending) IN
    /\ take > 0
    /\ drained' = drained \o SubSeq(source.pending, 1, take)
    /\ source' = [source EXCEPT !.pending = SubSeq(@, take + 1, Len(@))]
    /\ UNCHANGED <<file, read, handed, noted, closed>>

\* ack, for a record that was drained or for a note, whose cursor is 0.
JsonlAck(cursor) ==
    /\ cursor = 0 \/ \E i \in DOMAIN drained : drained[i].cursor = cursor
    /\ cursor > source.acked
    /\ source' = [source EXCEPT !.acked = cursor]
    /\ UNCHANGED <<file, read, handed, drained, noted, closed>>

\* anomaly_event: one note says what happened since the last.
JsonlNote ==
    /\ LossTotal(source) > source.reported
    /\ noted' = noted + LossTotal(source) - source.reported
    /\ source' = [source EXCEPT !.reported = LossTotal(source)]
    /\ UNCHANGED <<file, read, handed, drained, closed>>

JsonlNext ==
    \/ \E n \in 1..(Len(file) - read) : AcceptChunk(n)
    \/ Finish
    \/ \E b \in 1..2 : JsonlPoll(b)
    \/ \E c \in 1..Len(file) : JsonlAck(c)
    \/ JsonlNote

JsonlSpec == JsonlInit /\ [][JsonlNext]_jsonlVars

-----------------------------------------------------------------------------
(* What a reader of the whole file at once would say of its first n bytes.  *)

MarkLength(bytes) == IF IsPrefix(BOM_UTF8, bytes) THEN 3 ELSE 0
Ends(bytes) == SelectSeq([i \in DOMAIN bytes |-> i], LAMBDA i : bytes[i] = "LF")
\* Every line: where it starts, where its content stops, where the next begins.
AllLines(bytes) ==
    LET ends == Ends(bytes)
        from(k) == IF k = 1 THEN MarkLength(bytes) + 1 ELSE ends[k - 1] + 1
        whole == [k \in DOMAIN ends |-> [from |-> from(k), to |-> ends[k] - 1, end |-> ends[k], ended |-> TRUE]]
        start == from(Len(ends) + 1)
    IN  IF start > Len(bytes) THEN whole
        ELSE Append(whole, [from |-> start, to |-> Len(bytes), end |-> Len(bytes), ended |-> FALSE])
Readable(bytes, l, k) ==
    LET raw == SubSeq(bytes, l.from, l.to)
        text == IF l.ended THEN WithoutCr(raw) ELSE raw
    IN  [bytes |-> text, number |-> k, offset |-> l.from - 1, end |-> l.end]
LinesOf(bytes, ended) ==
    LET all == AllLines(bytes)
        keep == SelectSeq([k \in DOMAIN all |-> k], LAMBDA k :
                    /\ all[k].ended \/ ended
                    /\ all[k].to - all[k].from + 1 <= MaxLine
                    /\ ~IsBlank(Readable(bytes, all[k], k).bytes))
    IN  [i \in DOMAIN keep |-> Readable(bytes, all[keep[i]], keep[i])]
Wide(bytes) == SniffEncoding(bytes)
TooLong(bytes) ==
    LET all == AllLines(bytes) IN
    Cardinality({k \in DOMAIN all : all[k].to - all[k].from + 1 > MaxLine})
LineGives(line, what) ==
    SelectSeq(line.bytes, LAMBDA b : b # "sp") \in what

\* How much of a file reaches the store, and what is noted as lost, is what the
\* file says and not how it was read: the lines handed over, their numbers and
\* their places are those of the bytes read so far, a record is made of each that
\* is one, the cursors have no gap, an acknowledgement covers only what was
\* drained, and every line without a record is in the total exactly once, but for
\* a last line cut short and for lines that are nothing of ours.
JsonlIsFaithful ==
    LET bytes == SubSeq(file, 1, read)
        lines == LinesOf(bytes, closed)
        good  == SelectSeq(lines, LAMBDA l : LineGives(l, {<<"y">>, <<"z">>}))
        idle  == SelectSeq(lines, LAMBDA l : LineGives(l, {<<"n">>}))
        cut   == {i \in DOMAIN lines : closed /\ i = Len(lines) /\ LineGives(lines[i], {<<"x">>})
                                         /\ lines[i].end = Len(file) /\ Last(file) # "LF"}
        skewed == {i \in DOMAIN good : Mode = "tail" /\ LineGives(good[i], {<<"z">>})}
        records == drained \o source.pending
    IN  IF Wide(file)
        THEN handed = <<>> /\ records = <<>> /\ (closed => LossTotal(source) = 1)
        ELSE /\ handed = lines \/ (PartialMark(bytes) /\ handed = <<>>)
             /\ handed = lines =>
                  /\ records = [i \in DOMAIN good |-> [cursor |-> i, line |-> good[i].number]]
                  /\ LossTotal(source) =
                        Len(lines) - Len(good) - Len(idle) - Cardinality(cut) + TooLong(bytes) + Cardinality(skewed)
             /\ source.acked <= Len(drained)
             /\ noted = source.reported
             /\ Len(source.framer.carry) <= MaxLine \/ source.framer.atStart
=============================================================================
