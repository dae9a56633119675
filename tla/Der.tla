-------------------------------- MODULE Der --------------------------------
(***************************************************************************)
(* The two DER readers and the writer: trailryx-asn1, which the anchoring  *)
(* side uses, and the copy the offline verifier keeps so that it depends   *)
(* on nothing.  A byte is a number below 2 * Half; Half stands for 0x80,   *)
(* the bit that makes a length long, an integer negative and an object     *)
(* identifier's arc continue.  A refusal is Refused.                       *)
(***************************************************************************)
EXTENDS Integers, Sequences, SequencesExt

CONSTANTS Half,      \* 128
          WordBytes, \* the bytes of a usize and of a u64: 8
          HighTag    \* the tag byte whose number goes on in the next: 0x1F

Base == 2 * Half
Bytes == 0..(Base - 1)

Refused == <<"refused">>
Ok(v) == <<"ok", v>>

Number(digits) == FoldLeft(LAMBDA n, d : n * Base + d, 0, digits)

RECURSIVE Digits(_)
\* n big-endian, with no leading zero: the digits of 0 are one 0.
Digits(n) == IF n < Base THEN <<n>> ELSE Append(Digits(n \div Base), n % Base)

-----------------------------------------------------------------------------
(* Lengths.                                                                *)

\* The shortest form was once preferred and not required.
SplitTlv_AnyLength(bytes) ==
    IF Len(bytes) < 2 \/ bytes[1] = HighTag THEN Refused
    ELSE LET first == bytes[2]
             count == IF first < Half THEN 0 ELSE first - Half
             digits == SubSeq(bytes, 3, 2 + count)
             length == IF count = 0 THEN first ELSE Number(digits)
             from == 3 + count
         IN IF \/ first = Half \/ first = Base - 1
               \/ count > WordBytes \/ Len(bytes) < 2 + count
               \/ Len(bytes) < from - 1 + length
            THEN Refused
            ELSE Ok([tag |-> bytes[1], body |-> SubSeq(bytes, from, from - 1 + length),
                     rest |-> SubSeq(bytes, from + length, Len(bytes))])

\* split_tlv: a definite length, in the shortest form, that the input holds.
SplitTlv(bytes) ==
    IF Len(bytes) < 2 \/ bytes[1] = HighTag THEN Refused
    ELSE LET first == bytes[2]
             count == IF first < Half THEN 0 ELSE first - Half
             digits == SubSeq(bytes, 3, 2 + count)
             length == IF count = 0 THEN first ELSE Number(digits)
             from == 3 + count
         IN IF \/ first = Half \/ first = Base - 1
               \/ count > WordBytes \/ Len(bytes) < 2 + count
               \/ count > 0 /\ (digits[1] = 0 \/ length < Half)
               \/ Len(bytes) < from - 1 + length
            THEN Refused
            ELSE Ok([tag |-> bytes[1], body |-> SubSeq(bytes, from, from - 1 + length),
                     rest |-> SubSeq(bytes, from + length, Len(bytes))])

\* The verifier's own split, a length at a time rather than a form at a time.
Split(bytes) ==
    LET Held(length, after) ==
            IF Len(after) < length THEN Refused
            ELSE Ok([tag |-> bytes[1], body |-> SubSeq(after, 1, length),
                     rest |-> SubSeq(after, length + 1, Len(after))])
        Long(count, after) ==
            LET digits == SubSeq(after, 1, count)
            IN IF count > WordBytes \/ Len(after) < count \/ digits[1] = 0
                  \/ Number(digits) < Half
               THEN Refused
               ELSE Held(Number(digits), SubSeq(after, count + 1, Len(after)))
    IN IF Len(bytes) < 2 \/ bytes[1] = HighTag THEN Refused
       ELSE LET after == SubSeq(bytes, 3, Len(bytes))
            IN IF bytes[2] < Half THEN Held(bytes[2], after)
               ELSE IF bytes[2] \in {Half, Base - 1} THEN Refused
               ELSE Long(bytes[2] - Half, after)

WriteLength(n) ==
    IF n < Half THEN <<n>> ELSE <<Half + Len(Digits(n))>> \o Digits(n)

Tlv(tag, body) == <<tag>> \o WriteLength(Len(body)) \o body

-----------------------------------------------------------------------------
(* The reader's accessors: what is read, and what is left to read.         *)

Take(bytes, expected) ==
    LET s == SplitTlv(bytes)
    IN IF s = Refused THEN Refused
       ELSE IF s[2].tag # expected THEN Refused ELSE Ok([got |-> s[2].body, rest |-> s[2].rest])

\* take_raw: the value as it arrived, tag and length included.
TakeRaw(bytes) ==
    LET s == SplitTlv(bytes)
    IN IF s = Refused THEN Refused
       ELSE Ok([got |-> SubSeq(bytes, 1, Len(bytes) - Len(s[2].rest)), rest |-> s[2].rest])

SkipIf(bytes, tag) ==
    IF bytes = <<>> THEN Ok([got |-> FALSE, rest |-> bytes])
    ELSE IF bytes[1] # tag THEN Ok([got |-> FALSE, rest |-> bytes])
    ELSE LET s == SplitTlv(bytes)
         IN IF s = Refused THEN Refused ELSE Ok([got |-> TRUE, rest |-> s[2].rest])

-----------------------------------------------------------------------------
(* Integers, booleans and bit strings.                                     *)

\* integer_bytes: no empty integer, and no padding in front of one.
BadInteger(body) ==
    \/ body = <<>>
    \/ Len(body) > 1 /\ body[1] = 0 /\ body[2] < Half
    \/ Len(body) > 1 /\ body[1] = Base - 1 /\ body[2] >= Half

Magnitude(body) == IF body[1] = 0 THEN Tail(body) ELSE body

IntegerU64(body) ==
    IF BadInteger(body) THEN Refused
    ELSE IF body[1] >= Half \/ Len(Magnitude(body)) > WordBytes THEN Refused
    ELSE Ok(Number(Magnitude(body)))

\* Der::integer_bytes: the magnitude of a number of any width; 0 keeps its byte.
IntegerBytes(body) ==
    IF BadInteger(body) THEN Refused
    ELSE IF body[1] >= Half THEN Refused
    ELSE Ok(IF Len(body) > 1 THEN Magnitude(body) ELSE body)

\* The verifier's nonce: absent where the number cannot be one it sent.
NonceOf(body) ==
    IF body = <<>> \/ (Len(body) > 1 /\ body[1] = 0 /\ body[2] < Half) THEN Refused
    ELSE IF body[1] >= Half \/ Len(Magnitude(body)) > WordBytes THEN Ok(<<>>)
    ELSE Ok(<<Number(Magnitude(body))>>)

WriteInteger(n) ==
    IF Digits(n)[1] >= Half THEN <<0>> \o Digits(n) ELSE Digits(n)

BooleanOf(body) ==
    CASE body = <<0>> -> Ok(FALSE) [] body = <<Base - 1>> -> Ok(TRUE) [] OTHER -> Refused

WriteBoolean(b) == IF b THEN <<Base - 1>> ELSE <<0>>

-----------------------------------------------------------------------------
(* Object identifiers: an arc's bytes carry the high bit, but its last.    *)

\* validate_oid: every arc starts without a leading zero and the last one ends.
BadOid(body) ==
    \/ body = <<>>
    \/ \E i \in DOMAIN body : (i = 1 \/ body[i - 1] < Half) /\ body[i] = Half
    \/ body[Len(body)] >= Half

\* The arcs a body spells, and the one way to spell them.
Arcs(body) ==
    LET ends == SelectSeq([i \in DOMAIN body |-> i], LAMBDA i : body[i] < Half)
        From(k) == IF k = 1 THEN 1 ELSE ends[k - 1] + 1
    IN [k \in DOMAIN ends |->
            FoldLeft(LAMBDA n, d : n * Half + (d % Half), 0, SubSeq(body, From(k), ends[k]))]

RECURSIVE WriteArc(_, _)
WriteArc(n, more) ==
    (IF n < Half THEN <<>> ELSE WriteArc(n \div Half, TRUE))
        \o <<(n % Half) + (IF more THEN Half ELSE 0)>>

WriteArcs(arcs) == FlattenSeq([k \in DOMAIN arcs |-> WriteArc(arcs[k], FALSE)])

-----------------------------------------------------------------------------
(* GeneralizedTime.  A spelling is [fixed, fraction, zone]: the fourteen   *)
(* digits already read as six numbers, or Refused where one is no digit;   *)
(* the fraction "none", "digits", "point" (a point and no digit) or        *)
(* "other"; and the zone "Z" or anything else.                             *)

IsLeap(year) == year % 4 = 0 /\ (year % 100 # 0 \/ year % 400 = 0)

DaysInMonth(year, month) ==
    CASE month \in {1, 3, 5, 7, 8, 10, 12} -> 31
      [] month \in {4, 6, 9, 11} -> 30
      [] month = 2 -> IF IsLeap(year) THEN 29 ELSE 28
      [] OTHER -> 0

\* The division of the code rounds towards zero, TLA+'s downwards.
DaysFromCivil(year, month, day) ==
    LET y == IF month <= 2 THEN year - 1 ELSE year
        era == y \div 400
        yoe == y - era * 400
        doy == (153 * ((month + 9) % 12) + 2) \div 5 + day - 1
    IN era * 146097 + yoe * 365 + yoe \div 4 - yoe \div 100 + doy - 719468

\* Days, and seconds of the day: the one number the code returns is their sum
\* at 86400 seconds to the day.
ParseGeneralizedTime(t) ==
    IF t.zone # "Z" \/ t.fraction \notin {"none", "digits"} \/ t.fixed = Refused THEN Refused
    ELSE LET f == t.fixed
         IN IF \/ f[2] \notin 1..12 \/ f[3] < 1 \/ f[3] > DaysInMonth(f[1], f[2])
               \/ f[4] > 23 \/ f[5] > 59 \/ f[6] > 59
            THEN Refused
            ELSE Ok(<<DaysFromCivil(f[1], f[2], f[3]), f[4] * 3600 + f[5] * 60 + f[6]>>)

\* The verifier's: the month is refused where its days are looked up.
TokenTime(t) ==
    IF t.zone # "Z" \/ t.fraction \notin {"none", "digits"} \/ t.fixed = Refused THEN Refused
    ELSE LET f == t.fixed
             leap == f[1] % 4 = 0 /\ (f[1] % 100 # 0 \/ f[1] % 400 = 0)
             days == CASE f[2] \in {1, 3, 5, 7, 8, 10, 12} -> <<31>>
                       [] f[2] \in {4, 6, 9, 11} -> <<30>>
                       [] f[2] = 2 -> <<IF leap THEN 29 ELSE 28>>
                       [] OTHER -> <<>>
         IN IF days = <<>> THEN Refused
            ELSE IF f[3] < 1 \/ f[3] > days[1] \/ f[4] > 23 \/ f[5] > 59 \/ f[6] > 59
            THEN Refused
            ELSE Ok(<<DaysFromCivil(f[1], f[2], f[3]), f[4] * 3600 + f[5] * 60 + f[6]>>)

-----------------------------------------------------------------------------
(* What the readers promise.                                               *)

\* A value has one spelling: what a reader takes off the front is what the
\* writer writes, the readers take the same, and every value written is read.
OneSpelling(bytes, tag) ==
    LET s == SplitTlv(bytes)
    IN /\ Split(bytes) = s
       /\ s # Refused => Tlv(s[2].tag, s[2].body) \o s[2].rest = bytes
       /\ s # Refused => TakeRaw(bytes) = Ok([got |-> Tlv(s[2].tag, s[2].body),
                                              rest |-> s[2].rest])
       /\ tag # HighTag =>
            LET w == Tlv(tag, bytes)
            IN /\ Take(w, tag) = Ok([got |-> bytes, rest |-> <<>>])
               /\ SplitTlv(SubSeq(w, 1, Len(w) - 1)) = Refused
               /\ SkipIf(w \o bytes, tag) = Ok([got |-> TRUE, rest |-> bytes])

\* So does an integer: two bodies never read as one number.  The verifier
\* reads the number the anchoring side reads, wherever that side reads one.
OneInteger(body) ==
    /\ LET n == IntegerU64(body)
       IN n # Refused => /\ WriteInteger(n[2]) = body
                         /\ NonceOf(body) = Ok(<<n[2]>>)
                         /\ Number(IntegerBytes(body)[2]) = n[2]
    /\ BooleanOf(body) # Refused => WriteBoolean(BooleanOf(body)[2]) = body

\* And an object identifier: one is accepted exactly where it is the way its
\* arcs are written.
OneOid(body) == ~BadOid(body) <=> (body # <<>> /\ WriteArcs(Arcs(body)) = body)

\* The day after a day has the next number, the epoch has none, and the two
\* readers read the same instant or refuse together.
TimesRun(t) ==
    /\ TokenTime(t) = ParseGeneralizedTime(t)
    /\ ParseGeneralizedTime(t) # Refused =>
         LET f == t.fixed
             next == CASE f[3] < DaysInMonth(f[1], f[2]) -> <<f[1], f[2], f[3] + 1>>
                       [] f[3] = DaysInMonth(f[1], f[2]) /\ f[2] < 12 -> <<f[1], f[2] + 1, 1>>
                       [] OTHER -> <<f[1] + 1, 1, 1>>
         IN /\ DaysFromCivil(next[1], next[2], next[3]) = ParseGeneralizedTime(t)[2][1] + 1
            /\ DaysFromCivil(1970, 1, 1) = 0
=============================================================================
