---------------------------- MODULE RequestForms ----------------------------
(***************************************************************************)
(* What the ingest server takes a request apart with.  The forms of an     *)
(* HTTP head it accepts: the fields of a head, Content-Length, Host and    *)
(* the escapes of a target.  The bounded gzip decoder of a body: canonical *)
(* Huffman codes, the run lengths a dynamic block describes its codes      *)
(* with, the copies out of what was already produced, and the container    *)
(* around it all.  Each is the parser's algorithm; beside it stands what   *)
(* the parser is for, said without an order of steps, and the two are      *)
(* compared over all small inputs.  Bits are sequences of 0 and 1, a       *)
(* refusal is Refused.                                                     *)
(***************************************************************************)
EXTENDS Integers, Sequences, FiniteSets, SequencesExt

CONSTANT MaxCodeLength  \* 15 in the format

-----------------------------------------------------------------------------
(* Fields.  A field line is a record of its name, of its value as far as   *)
(* it matters, and of whether the line is well formed: no fold, a colon,   *)
(* a token for a name and no control byte in the value.                    *)

Singletons == {"content-length", "content-type", "content-encoding",
               "authorization", "dpop"}

NothingRead == [status |-> 0, count |-> 0, seen |-> {}, hosts |-> 0,
                length |-> -1, expects |-> "none", closes |-> FALSE]

\* One turn of the loop of parse_head: the first refusal stands.
TakeField(h, f, maxCount) ==
    LET n == [h EXCEPT !.count = @ + 1]
        no(status) == [h EXCEPT !.status = status]
    IN IF h.status # 0 THEN h
       ELSE IF n.count > maxCount \/ f.long THEN no(431)
       ELSE IF ~f.wellFormed THEN no(400)
       ELSE CASE f.name = "transfer-encoding" -> no(501)
              [] f.name \in Singletons ->
                    IF f.name \in h.seen THEN no(400)
                    ELSE IF f.name = "content-length" /\ f.value < 0
                         THEN no(-f.value)
                    ELSE [n EXCEPT !.seen = @ \cup {f.name},
                                   !.length = IF f.name = "content-length"
                                              THEN f.value ELSE @]
              [] f.name = "expect" ->
                    IF h.expects # "none" THEN no(417)
                    ELSE [n EXCEPT !.expects = f.value]
              [] f.name = "host" ->
                    IF h.hosts > 0 \/ f.value = "bad" THEN no(400)
                    ELSE [n EXCEPT !.hosts = @ + 1]
              [] f.name = "connection" ->
                    [n EXCEPT !.closes = @ \/ f.value = "close"]
              [] OTHER -> n

\* parse_head after the request line.
ParseFields(fields, maxCount) ==
    LET h == FoldLeft(LAMBDA a, f : TakeField(a, f, maxCount), NothingRead, fields)
    IN IF h.status # 0 THEN h
       ELSE IF h.hosts # 1 THEN [h EXCEPT !.status = 400]
       ELSE IF h.expects \notin {"none", "100-continue"} THEN [h EXCEPT !.status = 417]
       ELSE h

\* A head that is taken reads the same to a parser that keeps the first of two
\* fields and to one that keeps the last, and to one that looks for a transfer
\* coding: there is nothing for two readers in a row to disagree on.
FirstOf(fields, name) ==
    CHOOSE i \in DOMAIN fields : fields[i].name = name
                                 /\ \A j \in 1..(i - 1) : fields[j].name # name
LastOf(fields, name) ==
    CHOOSE i \in DOMAIN fields : fields[i].name = name
                                 /\ \A j \in (i + 1)..Len(fields) : fields[j].name # name
NamesOf(fields) == {fields[i].name : i \in DOMAIN fields}

FieldsAgree(fields, maxCount) ==
    LET h == ParseFields(fields, maxCount)
        once == Singletons \cup {"host", "expect"}
    IN h.status = 0 =>
          /\ "transfer-encoding" \notin NamesOf(fields)
          /\ "host" \in NamesOf(fields)
          /\ \A name \in once \cap NamesOf(fields) :
                FirstOf(fields, name) = LastOf(fields, name)
          /\ h.length = IF "content-length" \in NamesOf(fields)
                        THEN fields[LastOf(fields, "content-length")].value ELSE -1
          /\ h.closes = \E i \in DOMAIN fields :
                           fields[i].name = "connection" /\ fields[i].value = "close"
          /\ Len(fields) <= maxCount

-----------------------------------------------------------------------------
(* Content-Length in a machine word of `width' bits, in digits of base 10. *)

TooLong == -2
Overflows == -1

\* An addition that wraps instead of being checked.
Shift_Wraps(total, d, width) ==
    IF total = Overflows THEN Overflows ELSE (total * 10 + d) % (2 ^ width)

\* checked_mul and checked_add.
Shift(total, d, width) ==
    IF total = Overflows \/ total * 10 >= 2 ^ width \/ total * 10 + d >= 2 ^ width
    THEN Overflows ELSE total * 10 + d

\* parse_content_length for at most maxDigits digits.
ParseLength(digits, maxDigits, width) ==
    IF digits = <<>> \/ Len(digits) > maxDigits
       \/ \E i \in DOMAIN digits : digits[i] \notin 0..9
    THEN TooLong
    ELSE FoldLeft(LAMBDA t, d : Shift(t, d, width), 0, digits)

\* The number the digits write, whatever the machine's words are.
Decimal(digits) == FoldLeft(LAMBDA t, d : 10 * t + d, 0, digits)

LengthAgrees(digits, maxDigits, width) ==
    LET got == ParseLength(digits, maxDigits, width)
    IN got # TooLong =>
          got = IF Decimal(digits) < 2 ^ width THEN Decimal(digits) ELSE Overflows

-----------------------------------------------------------------------------
(* Host.                                                                   *)

Digit == {"0", "1"}

\* validate_port
ValidPort(s) == s # <<>> /\ s[1] = ":" /\ \A i \in 2..Len(s) : s[i] \in Digit

\* validate_host: an address in brackets ends at the first closing one, any
\* other host at the last colon.
ValidHost(v) ==
    /\ v # <<>>
    /\ \A i \in DOMAIN v : v[i] \notin {"@", " "}
    /\ IF v[1] = "["
       THEN \E close \in DOMAIN v :
               /\ v[close] = "]"
               /\ \A j \in 1..(close - 1) : v[j] # "]"
               /\ close = Len(v) \/ ValidPort(SubSeq(v, close + 1, Len(v)))
       ELSE IF \E i \in DOMAIN v : v[i] = ":"
       THEN LET at == CHOOSE i \in DOMAIN v :
                         v[i] = ":" /\ \A j \in (i + 1)..Len(v) : v[j] # ":"
            IN ValidPort(SubSeq(v, at, Len(v))) /\ at > 1
       ELSE TRUE

\* host, or host and a colon and digits, where a host is not empty and, unless
\* it is bracketed, is followed by no second port.
HostAgrees(v) ==
    ValidHost(v) <=>
        \E n \in 1..Len(v) :
            LET host == SubSeq(v, 1, n)
                port == SubSeq(v, n + 1, Len(v))
            IN /\ \A i \in DOMAIN v : v[i] \notin {"@", " "}
               /\ port = <<>> \/ (port[1] = ":" /\ \A i \in 2..Len(port) : port[i] \in Digit)
               /\ IF v[1] = "[" THEN host[n] = "]" /\ \A i \in 1..(n - 1) : v[i] # "]"
                  ELSE port = <<>> => \A i \in DOMAIN v : v[i] # ":"

-----------------------------------------------------------------------------
(* Escapes.  Hex digits are numbers, "%" the escape, other bytes letters.  *)

Bad == <<"bad">>
RECURSIVE Unescape(_)

\* percent_decode: one pass, and an escaped control byte is refused.
Unescape(path) ==
    IF path = <<>> THEN <<>>
    ELSE IF path[1] # "%"
    THEN LET rest == Unescape(Tail(path))
         IN IF rest = Bad THEN Bad ELSE <<path[1]>> \o rest
    ELSE IF Len(path) < 3 \/ path[2] \notin {"0", "2", "5"} \/ path[3] \notin {"0", "2", "5"}
    THEN Bad
    ELSE IF path[2] = "0" THEN Bad   \* below 0x20
    ELSE LET rest == Unescape(SubSeq(path, 4, Len(path)))
         IN IF rest = Bad THEN Bad ELSE <<path[2] \o path[3]>> \o rest

\* What a path decodes to has one byte for each escape and each byte outside
\* one, and nothing that came out of an escape is read again.
EscapesAgree(path) ==
    LET out == Unescape(path)
    IN out # Bad =>
          /\ \A i \in DOMAIN out : out[i] # "%" /\ out[i] \notin {"00", "02", "05"}
          /\ Len(path) = Len(out) + 2 * Cardinality({i \in DOMAIN out :
                                       out[i] \in {"20", "22", "25", "50", "52", "55"}})

Refused == <<"refused">>

-----------------------------------------------------------------------------
(* Huffman codes.  lengths[s + 1] is the length of the code of symbol s,   *)
(* and 0 says that s has none.                                             *)

CountOf(lengths, n) == Cardinality({s \in DOMAIN lengths : lengths[s] = n})

RECURSIVE LeftAt(_, _)
\* The room left in the tree at depth n, as Huffman::build walks it down.
LeftAt(lengths, n) ==
    IF n = 0 THEN 1
    ELSE IF LeftAt(lengths, n - 1) < 0 THEN -1
    ELSE 2 * LeftAt(lengths, n - 1) - CountOf(lengths, n)

\* Incomplete codes were once taken as they came.
BadCode_Incomplete(lengths, required) == LeftAt(lengths, MaxCodeLength) < 0

\* Over-subscribed is refused; so is incomplete, but for one symbol or none
\* and for the fixed pair.
BadCode(lengths, required) ==
    LET left == LeftAt(lengths, MaxCodeLength)
        used == Cardinality({s \in DOMAIN lengths : lengths[s] > 0})
    IN left < 0 \/ (left > 0 /\ used > 1 /\ required)

\* The symbols by length, and by number within a length.
Ordered(lengths) ==
    FlattenSeq([n \in 1..MaxCodeLength |->
        SelectSeq([s \in DOMAIN lengths |-> s - 1], LAMBDA s : lengths[s + 1] = n)])

RECURSIVE Walk(_, _, _, _, _, _)
\* Huffman::decode: the symbol, and how many bits it took.
Walk(lengths, bits, n, code, first, index) ==
    IF n > MaxCodeLength \/ n > Len(bits) THEN Refused
    ELSE LET c == code + bits[n]
             count == CountOf(lengths, n)
         IN IF c - first < count
            THEN <<Ordered(lengths)[index + (c - first) + 1], n>>
            ELSE Walk(lengths, bits, n + 1, 2 * c, 2 * (first + count), index + count)

Decode(lengths, bits) == Walk(lengths, bits, 1, 0, 0, 0)

\* The code as the format defines it: codes of one length are consecutive, and
\* shorter ones come before longer ones.
RECURSIVE FirstCode(_, _)
FirstCode(lengths, n) ==
    IF n = 0 THEN 0
    ELSE 2 * (FirstCode(lengths, n - 1)
              + IF n = 1 THEN 0 ELSE CountOf(lengths, n - 1))
CodeOf(lengths, s) ==
    LET n == lengths[s]
        value == FirstCode(lengths, n)
                    + Cardinality({t \in 1..(s - 1) : lengths[t] = n})
    IN [i \in 1..n |-> (value \div 2 ^ (n - i)) % 2]

\* The sum of 2^-length, in units of the longest code.
Kraft(lengths) ==
    FoldLeft(LAMBDA sum, n : IF n = 0 THEN sum ELSE sum + 2 ^ (MaxCodeLength - n),
             0, lengths)

\* A code that is taken fills its tree exactly, decodes what it encodes, and
\* every string of bits begins with one of its words.
CodesAgree(lengths) ==
    LET used == {s \in DOMAIN lengths : lengths[s] > 0}
    IN /\ BadCode(lengths, TRUE) <=>
             \/ Kraft(lengths) > 2 ^ MaxCodeLength
             \/ Kraft(lengths) < 2 ^ MaxCodeLength /\ Cardinality(used) > 1
       /\ ~BadCode(lengths, TRUE) =>
             /\ \A s \in used :
                   Decode(lengths, CodeOf(lengths, s)) = <<s - 1, lengths[s]>>
             /\ Cardinality(used) > 1 =>
                   \A bits \in [1..MaxCodeLength -> {0, 1}] :
                      Decode(lengths, bits) # Refused

-----------------------------------------------------------------------------
(* dynamic_tables: the lengths of both codes, run length encoded.  A       *)
(* symbol is a length, or <<"last", n>> or <<"zero", n>> for a repeat.     *)

RECURSIVE Expand(_, _, _)
Expand(symbols, lengths, want) ==
    IF Len(lengths) = want THEN lengths
    ELSE IF symbols = <<>> THEN Refused
    ELSE LET s == Head(symbols)
         IN CASE s[1] = "length" -> Expand(Tail(symbols), Append(lengths, s[2]), want)
              [] s[1] \in {"last", "zero"} ->
                    IF (s[1] = "last" /\ lengths = <<>>)
                       \/ Len(lengths) + s[2] > want
                    THEN Refused
                    ELSE Expand(Tail(symbols),
                                lengths \o [i \in 1..s[2] |->
                                    IF s[1] = "zero" THEN 0 ELSE Last(lengths)],
                                want)

\* Neither code reads past its table: a table that is taken has every length it
\* was announced with, and no repeat reaches beyond it.
ExpandAgrees(symbols, want) ==
    LET out == Expand(symbols, <<>>, want)
    IN out # Refused => Len(out) = want /\ \A i \in DOMAIN out : out[i] \in 0..MaxCodeLength

-----------------------------------------------------------------------------
(* inflate_symbols.  A symbol is <<"literal", byte>> or a copy             *)
(* <<"copy", length, distance>>; every byte goes through Out::push.        *)

Push(out, byte, consumed, bounds) ==
    IF out = Refused \/ Len(out) >= bounds.output
       \/ (Len(out) >= bounds.after /\ Len(out) \div consumed >= bounds.ratio)
    THEN Refused ELSE Append(out, byte)

RECURSIVE Copy(_, _, _, _, _)
Copy(out, n, dist, consumed, bounds) ==
    IF n = 0 \/ out = Refused THEN out
    ELSE Copy(Push(out, out[Len(out) + 1 - dist], consumed, bounds),
              n - 1, dist, consumed, bounds)

Produce(out, s, consumed, bounds) ==
    IF out = Refused THEN Refused
    ELSE IF s[1] = "literal" THEN Push(out, s[2], consumed, bounds)
    ELSE IF s[3] = 0 \/ s[3] > Len(out) THEN Refused
    ELSE Copy(out, s[2], s[3], consumed, bounds)

\* Each symbol is taken to cost one byte of input.
Produced(symbols, bounds) ==
    FoldLeftDomain(LAMBDA out, i : Produce(out, symbols[i], i, bounds), <<>>, symbols)

\* What is produced stays under its bound, and a copy repeats the last
\* `distance' bytes as often as it needs to, also when it overlaps itself.
CopiesAgree(symbols, bounds) ==
    /\ LET out == Produced(symbols, bounds)
       IN out # Refused => Len(out) <= bounds.output
    /\ symbols # <<>> /\ Last(symbols)[1] = "copy" =>
          LET before == Produced(Front(symbols), bounds)
              after == Produced(symbols, bounds)
              dist == Last(symbols)[3]
          IN before # Refused /\ after # Refused =>
                \A i \in 1..(Len(after) - Len(before)) :
                    after[Len(before) + i]
                        = before[Len(before) - dist + 1 + ((i - 1) % dist)]

-----------------------------------------------------------------------------
(* gunzip.  A container is what its parts measure: ten bytes, optional     *)
(* fields, the deflate stream, anything else, and eight bytes of trailer.  *)

\* Where the deflate stream begins; -1 when a field runs off the end.
DeflateAt(g) ==
    LET extra == 10 + g.extra
        name == extra + g.name
        check == name + g.check
    IN IF extra > g.length \/ (g.name > 0 /\ (~g.terminated \/ name > g.length))
          \/ check > g.length
       THEN -1 ELSE check

Gunzip(g) ==
    IF g.length < 18 \/ ~g.magic \/ DeflateAt(g) = -1 \/ DeflateAt(g) >= g.length - 8
    THEN FALSE
    ELSE LET room == g.length - 8 - DeflateAt(g)
         IN /\ g.stream <= room      \* the decoder ran out of input
            /\ g.stream >= room      \* TrailerNotWhereTheStreamEnded
            /\ g.crc /\ g.size

\* Every byte of a container that is taken is accounted for.
ContainerAgrees(g) ==
    Gunzip(g) =>
        /\ g.length = 10 + g.extra + g.name + g.check + g.stream + 8
        /\ g.stream > 0 /\ g.crc /\ g.size
=============================================================================
