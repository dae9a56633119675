-------------------------------- MODULE Json --------------------------------
(***************************************************************************)
(* The grammar the store reads JSON with: containers, numbers, strings, and *)
(* the encodings of bytes and integers beside them.  A document is a        *)
(* sequence of tokens, a number of characters, a string of units in which   *)
(* four hex digits are one symbol.  <<>> is a refusal, <<x>> an answer.     *)
(***************************************************************************)
EXTENDS Integers, Sequences, FiniteSets, SequencesExt

None == <<>>

-----------------------------------------------------------------------------
(* Containers: the pull reader driven over a whole document.               *)

Names == {"a", "b"}
Scalar(t) == t \in Names \cup {"1"}
StartReader(tokens) == [tokens |-> tokens, at |-> 1, stack |-> <<>>, done |-> FALSE, bad |-> FALSE, deepest |-> 0]
Bad(r) == [r EXCEPT !.bad = TRUE]
RECURSIVE SkipSpace(_)
SkipSpace(r) == IF r.at <= Len(r.tokens) /\ r.tokens[r.at] = "sp" THEN SkipSpace([r EXCEPT !.at = @ + 1]) ELSE r
Peek(r) == IF r.at > Len(r.tokens) THEN "end" ELSE r.tokens[r.at]
Top(r) == r.stack[Len(r.stack)]

OpenContainer(r, kind, limits) ==
    IF Len(r.stack) >= limits.depth THEN Bad(r)
    ELSE [r EXCEPT !.at = @ + 1,
                   !.stack = Append(@, [kind |-> kind, names |-> <<>>, seen |-> FALSE]),
                   !.deepest = IF @ > Len(r.stack) THEN @ ELSE Len(r.stack) + 1]
CloseContainer(r) ==
    [r EXCEPT !.at = @ + 1, !.stack = Front(@), !.done = @ \/ Len(r.stack) = 1]

\* Reader::value.
ReadValue(r0, limits) ==
    LET r == SkipSpace(r0) t == Peek(r) IN
    CASE r.done -> Bad(r)
      [] ~r.done /\ Scalar(t) -> [r EXCEPT !.at = @ + 1, !.done = r.stack = <<>>]
      [] ~r.done /\ t = "[" -> OpenContainer(r, "array", limits)
      [] ~r.done /\ t = "{" -> OpenContainer(r, "object", limits)
      [] OTHER -> Bad(r)

\* Reader::next_element.
NextElement(r0) ==
    LET r == SkipSpace(r0) t == Peek(r)
        comma == SkipSpace([r EXCEPT !.at = @ + 1])
    IN  CASE t = "]" -> [r |-> CloseContainer(r), more |-> FALSE]
          [] t = "," /\ (~Top(r).seen \/ Peek(comma) = "]") -> [r |-> Bad(r), more |-> FALSE]
          [] t = "," /\ Top(r).seen /\ Peek(comma) # "]" -> [r |-> [r EXCEPT !.at = @ + 1], more |-> TRUE]
          [] t = "end" \/ (t \notin {"]", ","} /\ Top(r).seen) -> [r |-> Bad(r), more |-> FALSE]
          [] OTHER -> [r |-> [r EXCEPT !.stack[Len(r.stack)].seen = TRUE], more |-> TRUE]

\* Names compared with the last one only.
MemberName_LastOnly(r, limits) ==
    LET names == Top(r).names name == Peek(r) IN
    IF \/ name \notin Names
       \/ Len(names) >= limits.members
       \/ (names # <<>> /\ Last(names) = name)
    THEN Bad(r)
    ELSE [r EXCEPT !.at = @ + 1, !.stack[Len(r.stack)] =
                      [kind |-> "object", names |-> Append(names, name), seen |-> TRUE]]

\* Reader::member_name: a name at most once in an object.
MemberName(r, limits) ==
    LET names == Top(r).names name == Peek(r) IN
    IF \/ name \notin Names
       \/ Len(names) >= limits.members
       \/ name \in ToSet(names)
    THEN Bad(r)
    ELSE [r EXCEPT !.at = @ + 1, !.stack[Len(r.stack)] =
                      [kind |-> "object", names |-> Append(names, name), seen |-> TRUE]]

\* Reader::next_name.
NextName(r0, limits) ==
    LET r == SkipSpace(r0) t == Peek(r)
        past == IF t = "," THEN SkipSpace([r EXCEPT !.at = @ + 1]) ELSE r
        named == SkipSpace(MemberName(past, limits))
    IN  CASE t = "}" -> [r |-> CloseContainer(r), more |-> FALSE]
          [] t # "}" /\ (t = ",") # Top(r).seen -> [r |-> Bad(r), more |-> FALSE]
          [] t # "}" /\ (t = ",") = Top(r).seen ->
                IF named.bad \/ Peek(named) # ":" THEN [r |-> Bad(r), more |-> FALSE]
                ELSE [r |-> [named EXCEPT !.at = @ + 1], more |-> TRUE]

RECURSIVE SkipRest(_, _)
\* Reader::skip_rest: a loop over the stack and not over calls.
SkipRest(r, limits) ==
    IF r.bad \/ r.stack = <<>> THEN r
    ELSE LET step == IF Top(r).kind = "array" THEN NextElement(r) ELSE NextName(r, limits)
         IN  SkipRest(IF step.more THEN ReadValue(step.r, limits) ELSE step.r, limits)

\* validate: one value, and nothing after it.
Validate(tokens, limits) ==
    LET r == SkipRest(ReadValue(StartReader(tokens), limits), limits)
        end == SkipSpace(r)
    IN  ~r.bad /\ r.done /\ Peek(end) = "end"

\* The grammar, by what a document is made of.
RECURSIVE IsValue(_, _), IsList(_, _, _), IsMembers(_, _, _)
IsValue(s, depth) ==
    \/ Len(s) = 1 /\ Scalar(s[1])
    \/ /\ depth > 0 /\ Len(s) >= 2
       /\ LET inside == SubSeq(s, 2, Len(s) - 1) IN
          \/ s[1] = "[" /\ s[Len(s)] = "]" /\ (inside = <<>> \/ IsList(inside, depth - 1, 9))
          \/ s[1] = "{" /\ s[Len(s)] = "}" /\ (inside = <<>> \/ IsMembers(inside, depth - 1, {}))
IsList(s, depth, fuel) ==
    \/ IsValue(s, depth)
    \/ \E i \in 2..(Len(s) - 1) :
          /\ s[i] = "," /\ IsValue(SubSeq(s, 1, i - 1), depth)
          /\ IsList(SubSeq(s, i + 1, Len(s)), depth, fuel)
IsMembers(s, depth, seen) ==
    /\ Len(s) >= 3 /\ s[1] \in Names \ seen /\ s[2] = ":"
    /\ \/ IsValue(SubSeq(s, 3, Len(s)), depth)
       \/ \E i \in 4..(Len(s) - 1) :
             /\ s[i] = "," /\ IsValue(SubSeq(s, 3, i - 1), depth)
             /\ IsMembers(SubSeq(s, i + 1, Len(s)), depth, seen \cup {s[1]})

\* What is read is exactly the grammar, with no name twice in an object and no
\* container past the bound.
DocumentAgrees(tokens, depth) ==
    Validate(tokens, [depth |-> depth, members |-> 8]) =
    IsValue(SelectSeq(tokens, LAMBDA t : t # "sp"), depth)

-----------------------------------------------------------------------------
(* Numbers.                                                                *)

Digit(c) == c \in {"0", "1", "5"}
DigitValue(c) == CASE c = "0" -> 0 [] c = "1" -> 1 [] c = "5" -> 5
CharAt(s, i) == IF i > Len(s) THEN "end" ELSE s[i]
RECURSIVE DigitsFrom(_, _)
DigitsFrom(s, i) == IF Digit(CharAt(s, i)) THEN DigitsFrom(s, i + 1) ELSE i

\* scan: where the number that starts here ends, or 0.
ScanNumber(s) ==
    LET int  == IF CharAt(s, 1) = "-" THEN 2 ELSE 1
        i    == IF CharAt(s, int) = "0" THEN int + 1 ELSE DigitsFrom(s, int)
        dot  == CharAt(s, i) = "."
        j    == IF dot THEN DigitsFrom(s, i + 1) ELSE i
        exp  == CharAt(s, j) = "e"
        from == IF CharAt(s, j + 1) \in {"+", "-"} THEN j + 2 ELSE j + 1
        k    == IF exp THEN DigitsFrom(s, from) ELSE j
    IN  IF \/ ~Digit(CharAt(s, int))
           \/ (CharAt(s, int) = "0" /\ Digit(CharAt(s, i)))
           \/ (dot /\ j = i + 1)
           \/ (exp /\ k = from)
           \/ k <= Len(s)
        THEN 0 ELSE k

\* decompose: the digits, how many stand after the point, and the exponent,
\* which stops growing at the cap.
Decompose(s, cap) ==
    LET int  == IF CharAt(s, 1) = "-" THEN 2 ELSE 1
        i    == DigitsFrom(s, int)
        j    == IF CharAt(s, i) = "." THEN DigitsFrom(s, i + 1) ELSE i
        frac == IF CharAt(s, i) = "." THEN SubSeq(s, i + 1, j - 1) ELSE <<>>
        e    == IF CharAt(s, j) = "e" THEN SelectSeq(SubSeq(s, j + 1, Len(s)), Digit) ELSE <<>>
        size == FoldLeft(LAMBDA n, c : IF 10 * n + DigitValue(c) > cap THEN cap ELSE 10 * n + DigitValue(c), 0, e)
    IN  [digits |-> SubSeq(s, int, i - 1) \o frac, frac |-> Len(frac),
         exponent |-> IF CharAt(s, j + 1) = "-" THEN -size ELSE size]

\* checked_mul and checked_add at the width.
Grow(acc, digit, max) ==
    IF acc = None \/ 10 * acc[1] + digit > max THEN None ELSE <<10 * acc[1] + digit>>

\* Number::magnitude: trailing zeros pay for a negative exponent.
RECURSIVE PayZeros(_, _), Scaled(_, _, _)
PayZeros(digits, scale) ==
    IF scale < 0 /\ digits # <<>> /\ Last(digits) = "0" THEN PayZeros(Front(digits), scale + 1)
    ELSE [digits |-> digits, scale |-> scale]
Scaled(acc, n, max) == IF n = 0 \/ acc = None THEN acc ELSE Scaled(Grow(acc, 0, max), n - 1, max)
Magnitude(s, max, cap) ==
    LET d == Decompose(s, cap)
        p == PayZeros(d.digits, d.exponent - d.frac)
    IN  IF \A i \in DOMAIN d.digits : d.digits[i] = "0" THEN <<0>>
        ELSE IF p.scale < 0 THEN None
        ELSE Scaled(FoldLeft(LAMBDA n, c : Grow(n, DigitValue(c), max), <<0>>, p.digits), p.scale, max)

AsUnsigned(s, max, cap) ==
    LET g == Magnitude(s, max, cap) IN
    IF g = None \/ (s[1] = "-" /\ g[1] # 0) THEN None ELSE g
\* The one magnitude only a negative number may have is max + 1 of the signed.
AsSigned(s, max, cap) ==
    LET g == Magnitude(s, max, cap) half == (max + 1) \div 2 IN
    CASE g = None -> None
      [] g # None /\ s[1] # "-" -> IF g[1] < half THEN g ELSE None
      [] g # None /\ s[1] = "-" -> IF g[1] <= half THEN <<-g[1]>> ELSE None

\* decimal_u64 and decimal_i64: the same numbers written as text.
DecimalUnsigned(s, max) ==
    IF s = <<>> \/ (Len(s) > 1 /\ s[1] = "0") \/ \E i \in DOMAIN s : ~Digit(s[i]) THEN None
    ELSE FoldLeft(LAMBDA n, c : Grow(n, DigitValue(c), max), <<0>>, s)
DecimalSigned(s, max) ==
    LET half == (max + 1) \div 2
        g == DecimalUnsigned(IF CharAt(s, 1) = "-" THEN Tail(s) ELSE s, max)
    IN  CASE g = None -> None
          [] g # None /\ s[1] # "-" -> IF g[1] < half THEN g ELSE None
          [] g # None /\ s[1] = "-" -> IF g[1] <= half THEN <<-g[1]>> ELSE None

\* A number by its parts, each but the first two perhaps absent, and its spelling.
Ten(n) == CASE n = 0 -> 1 [] n = 1 -> 10 [] n = 2 -> 100 [] n = 3 -> 1000 [] OTHER -> 10000
IntOf(digits) == FoldLeft(LAMBDA n, c : 10 * n + DigitValue(c), 0, digits)
Spell(n) ==
    n.sign \o n.int \o (IF n.frac = <<>> THEN <<>> ELSE <<".">> \o n.frac)
           \o (IF n.exp = <<>> THEN <<>> ELSE <<"e">> \o n.esign \o n.exp)
\* Its value when that is an integer of the width: mantissa times ten to a power.
ValueOf(n, max) ==
    LET mantissa == IntOf(n.int \o n.frac)
        power == (IF n.esign = <<"-">> THEN -1 ELSE 1) * IntOf(n.exp) - Len(n.frac)
    IN  CASE mantissa = 0 -> <<0>>
          [] mantissa # 0 /\ power < 0 ->
                IF power < -4 \/ mantissa % Ten(-power) # 0 THEN None
                ELSE IF mantissa \div Ten(-power) > max THEN None ELSE <<mantissa \div Ten(-power)>>
          [] mantissa # 0 /\ power >= 0 ->
                IF power > 3 \/ mantissa * Ten(power) > max THEN None ELSE <<mantissa * Ten(power)>>

\* A number is the integer its text says, exactly, or none; at the width's edge
\* and however the exponent is written; and as text it is the same number.
NumberAgrees(n, max, cap) ==
    LET s == Spell(n) v == ValueOf(n, max) half == (max + 1) \div 2
        neg == n.sign = <<"-">>
    IN  /\ ScanNumber(s) = Len(s) + 1
        /\ AsUnsigned(s, max, cap) = IF neg /\ v # <<0>> THEN None ELSE v
        /\ AsSigned(s, max, cap) =
              IF v = None \/ v[1] > half \/ (~neg /\ v[1] = half) THEN None
              ELSE <<IF neg THEN -v[1] ELSE v[1]>>
        /\ n.frac = <<>> /\ n.exp = <<>> =>
              /\ ~neg => DecimalUnsigned(s, max) = AsUnsigned(s, max, cap)
              /\ DecimalSigned(s, max) = AsSigned(s, max, cap)
\* Text is scanned as a number exactly when it spells one.
ScanAgrees(s, spellings) == (ScanNumber(s) = Len(s) + 1) = (s \in spellings)

-----------------------------------------------------------------------------
(* Strings, after the opening quote.  "H", "L" and "S" are four hex digits   *)
(* of a high surrogate, a low one and neither.                             *)

RECURSIVE PlainRun(_, _), ScanString(_, _, _)
PlainRun(s, i) == IF CharAt(s, i) = "a" THEN PlainRun(s, i + 1) ELSE i
\* unescape_at: how many units an escape takes and the character it is.
UnescapeAt(s, i) ==
    CASE CharAt(s, i + 1) \in {"q", "bs", "n"} -> [used |-> 2, char |-> <<"escape", CharAt(s, i + 1)>>]
      [] CharAt(s, i + 1) = "u" /\ CharAt(s, i + 2) = "S" -> [used |-> 3, char |-> <<"scalar">>]
      [] /\ CharAt(s, i + 1) = "u" /\ CharAt(s, i + 2) = "H"
         /\ CharAt(s, i + 3) = "bs" /\ CharAt(s, i + 4) = "u" /\ CharAt(s, i + 5) = "L" ->
            [used |-> 6, char |-> <<"pair">>]
      [] OTHER -> [used |-> 0, char |-> <<>>]
\* scan_string: runs of plain bytes and escapes up to the closing quote.
ScanString(s, i, out) ==
    LET end  == PlainRun(s, i)
        text == out \o [k \in 1..(end - i) |-> <<"plain">>]
        esc  == UnescapeAt(s, end)
    IN  CASE CharAt(s, end) = "q" -> <<[text |-> text, end |-> end + 1]>>
          [] CharAt(s, end) = "bs" /\ esc.used # 0 -> ScanString(s, end + esc.used, Append(text, esc.char))
          [] OTHER -> None

RECURSIVE SpellText(_)
SpellText(text) ==
    IF text = <<>> THEN <<>>
    ELSE (CASE text[1] = <<"plain">> -> <<"a">>
            [] text[1] = <<"scalar">> -> <<"bs", "u", "S">>
            [] text[1] = <<"pair">> -> <<"bs", "u", "H", "bs", "u", "L">>
            [] OTHER -> <<"bs", text[1][2]>>) \o SpellText(Tail(text))
\* Units that are accepted are the spelling of the text they are read as, up to a
\* quote: nothing is repaired and no half of a pair gets through.
StringAgrees(s) ==
    LET r == ScanString(s, 1, <<>>) IN
    r # None => SubSeq(s, 1, r[1].end - 1) = Append(SpellText(r[1].text), "q")
\* And every text is read back from its spelling, whatever follows the quote.
TextAgrees(text, rest) ==
    ScanString(SpellText(text) \o <<"q">> \o rest, 1, <<>>)
        = <<[text |-> text, end |-> Len(SpellText(text)) + 2]>>

-----------------------------------------------------------------------------
(* Bytes as hex, as base64, and integers as varints.                       *)

Nibble(c) == IF c \in 0..15 THEN <<c>> ELSE None
HexBytes(s, chars) ==
    IF Len(s) # chars \/ \E i \in DOMAIN s : Nibble(s[i]) = None \/ chars % 2 = 1 THEN None
    ELSE <<[i \in 1..(chars \div 2) |-> 16 * s[2 * i - 1] + s[2 * i]]>>

RECURSIVE Pow2(_)
Pow2(n) == IF n = 0 THEN 1 ELSE 2 * Pow2(n - 1)
\* base64_bytes over sextets; -1 is the padding character and 64 no character.
Base64Bytes(s) ==
    LET pad  == CASE Len(s) >= 2 /\ s[Len(s)] = -1 /\ s[Len(s) - 1] = -1 -> 2
                  [] Len(s) >= 1 /\ s[Len(s)] = -1 /\ (Len(s) = 1 \/ s[Len(s) - 1] # -1) -> 1
                  [] OTHER -> 0
        body == SubSeq(s, 1, Len(s) - pad)
        step == FoldLeft(LAMBDA a, b :
                    LET acc == (64 * a.acc + b) % 65536 bits == a.bits + 6 IN
                    IF bits < 8 THEN [a EXCEPT !.acc = acc, !.bits = bits]
                    ELSE [acc |-> acc, bits |-> bits - 8,
                          out |-> Append(a.out, (acc \div Pow2(bits - 8)) % 256)],
                    [acc |-> 0, bits |-> 0, out |-> <<>>], body)
    IN  IF \/ \E i \in DOMAIN body : body[i] \notin 0..63
           \/ (pad > 0 /\ Len(s) % 4 # 0)
        THEN None
        ELSE IF step.bits >= 6 \/ step.acc % Pow2(step.bits) # 0 THEN None
        ELSE <<step.out>>
\* The sextets of bytes, unpadded.
Sextets(bytes) ==
    LET Bit(i) == (bytes[(i \div 8) + 1] \div Pow2(7 - (i % 8))) % 2
        At6(i) == IF i < 8 * Len(bytes) THEN Bit(i) ELSE 0
    IN  [k \in 1..((8 * Len(bytes) + 5) \div 6) |->
            FoldLeft(LAMBDA v, j : 2 * v + At6(6 * (k - 1) + j), 0, <<0, 1, 2, 3, 4, 5>>)]
\* What is accepted is the one spelling of the bytes, with its padding or without.
Base64Agrees(s) ==
    LET r == Base64Bytes(s)
        bare == SelectSeq(s, LAMBDA c : c # -1)
    IN  r # None => /\ bare = Sextets(r[1])
                    /\ s = bare \/ (Len(s) % 4 = 0 /\ Len(s) - Len(bare) \in 1..2)
HexAgrees(s, chars) ==
    HexBytes(s, chars) # None <=> Len(s) = chars /\ chars % 2 = 0 /\ \A i \in DOMAIN s : s[i] \in 0..15

\* Reader::varint over groups of two bits in a width of five: the third group
\* carries one bit that counts, the rest of it is thrown away.  A byte is its
\* group, plus 4 when another follows.
RECURSIVE ReadVarint(_, _, _)
ReadVarint(s, i, value) ==
    LET shift == 2 * (i - 1) IN
    CASE i > Len(s) -> None
      [] i <= Len(s) /\ shift = 4 ->
            IF s[i] >= 4 THEN None ELSE <<[value |-> value + 16 * (s[i] % 2), used |-> i]>>
      [] i <= Len(s) /\ shift # 4 ->
            LET v == value + Pow2(shift) * (s[i] % 4) IN
            IF s[i] < 4 THEN <<[value |-> v, used |-> i]>> ELSE ReadVarint(s, i + 1, v)
CanonicalLen(v) == CASE v < 4 -> 1 [] v \in 4..15 -> 2 [] OTHER -> 3
WriteVarint(v) ==
    [i \in 1..CanonicalLen(v) |-> ((v \div Pow2(2 * (i - 1))) % 4) + (IF i < CanonicalLen(v) THEN 4 ELSE 0)]
\* A varint is never outside its width, padding is seen whenever the bytes are
\* more than the value needs, and the canonical one reads back as it was written.
VarintAgrees(s) ==
    LET r == ReadVarint(s, 1, 0) IN
    /\ r # None => /\ r[1].value \in 0..31 /\ r[1].used <= 3
                   /\ r[1].used >= CanonicalLen(r[1].value)
                   /\ (r[1].used = CanonicalLen(r[1].value) /\ (r[1].used = 3 => s[3] < 2)
                          => SubSeq(s, 1, r[1].used) = WriteVarint(r[1].value))
    /\ \A v \in 0..31 : ReadVarint(WriteVarint(v) \o s, 1, 0) = <<[value |-> v, used |-> CanonicalLen(v)]>>
=============================================================================
