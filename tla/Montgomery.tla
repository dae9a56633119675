----------------------------- MODULE Montgomery -----------------------------
(***************************************************************************)
(* The big-integer arithmetic an RSA timestamp signature is checked with,  *)
(* and the padded block it is checked against.  A number is a sequence of  *)
(* limbs, the least significant first, and a limb is below Limb: 2^64 in   *)
(* the code, small here so that every carry happens.  Every sum the code   *)
(* makes in 128 bits is split back into a limb and a carry.                *)
(***************************************************************************)
EXTENDS Integers, Sequences, SequencesExt

CONSTANTS LimbBits,  \* 64
          MaxLimbs   \* 256

Limb == 2^LimbBits

Refused == <<"refused">>

Value(limbs) == FoldRight(LAMBDA d, n : n * Limb + d, limbs, 0)

RECURSIVE LimbsOf(_)
\* from_be_bytes: leading zeros are dropped, and zero has no limb.
LimbsOf(n) == IF n = 0 THEN <<>> ELSE <<n % Limb>> \o LimbsOf(n \div Limb)

\* Vec::resize, which cuts as well as pads.
Resize(limbs, k) == [i \in 1..k |-> IF i <= Len(limbs) THEN limbs[i] ELSE 0]

\* cmp, from the top limb down.
Below(a, b) ==
    \E i \in DOMAIN a : a[i] < b[i] /\ \A j \in (i + 1)..Len(a) : a[j] = b[j]

\* sub_in_place: what the top limb borrows is dropped.
Minus(a, b) ==
    FoldLeft(LAMBDA s, i :
                LET d == a[i] - b[i] - s.borrow
                IN [out |-> Append(s.out, d % Limb), borrow |-> IF d < 0 THEN 1 ELSE 0],
             [out |-> <<>>, borrow |-> 0], [i \in DOMAIN a |-> i]).out

\* inv_2_64: six Newton steps from 1.
Inverse64(x) == FoldLeft(LAMBDA inv, i : (inv * (2 - x * inv)) % Limb, 1, <<1, 2, 3, 4, 5, 6>>)

\* acc = 2 * acc mod n, a shift with its carry and a conditional subtraction.
Doubled(acc, n) ==
    LET shifted == [i \in DOMAIN acc |->
                        ((2 * acc[i]) % Limb)
                            + (IF i = 1 THEN 0 ELSE (2 * acc[i - 1]) \div Limb)]
        carry == (2 * acc[Len(acc)]) \div Limb
    IN IF carry # 0 \/ ~Below(shifted, n) THEN Minus(shifted, n) ELSE shifted

ComputeR2(n) ==
    FoldLeft(LAMBDA acc, i : Doubled(acc, n), Resize(<<1>>, Len(n)),
             [i \in 1..(2 * LimbBits * Len(n)) |-> i])

\* Modulus::new
ModulusOf(number) ==
    LET n == LimbsOf(number)
    IN IF \/ n = <<>> \/ Len(n) > MaxLimbs \/ number % 2 = 0 \/ number < 3 THEN Refused
       ELSE <<"ok", [n |-> n, n0inv |-> (Limb - Inverse64(n[1])) % Limb, r2 |-> ComputeR2(n)]>>

-----------------------------------------------------------------------------
(* CIOS multiplication.                                                    *)

\* t + a * b, where b is one limb and t one limb longer than a; the carry out
\* of the last limb is kept beside it.
AddProduct(t, a, b) ==
    LET k == Len(a)
        s == FoldLeft(LAMBDA u, j :
                LET sum == t[j] + a[j] * b + u.carry
                IN [out |-> Append(u.out, sum % Limb), carry |-> sum \div Limb],
                [out |-> <<>>, carry |-> 0], [j \in 1..k |-> j])
        top == t[k + 1] + s.carry
    IN [t |-> Append(s.out, top % Limb), overflow |-> top \div Limb]

\* The outer step: add a * b_i, then the multiple of n that clears the low
\* limb, and shift a limb out.
OuterStep(m, a, t, b) ==
    LET added == AddProduct(t, a, b)
        factor == (added.t[1] * m.n0inv) % Limb
        cleared == AddProduct(added.t, m.n, factor)
    IN Append(Tail(cleared.t), (added.overflow + cleared.overflow) % Limb)

\* The carry limb was once left out of the last comparison.
MontMul_NoCarry(m, a, b) ==
    LET k == Len(m.n)
        t == FoldLeft(LAMBDA u, i : OuterStep(m, a, u, b[i]), Resize(<<>>, k + 1),
                      [i \in 1..k |-> i])
        low == SubSeq(t, 1, k)
    IN IF ~Below(low, m.n) THEN Minus(low, m.n) ELSE low

\* mont_mul: a * b / R mod n, for a and b below n.
MontMul(m, a, b) ==
    LET k == Len(m.n)
        t == FoldLeft(LAMBDA u, i : OuterStep(m, a, u, b[i]), Resize(<<>>, k + 1),
                      [i \in 1..k |-> i])
        low == SubSeq(t, 1, k)
    IN IF t[k + 1] # 0 \/ ~Below(low, m.n) THEN Minus(low, m.n) ELSE low

\* The bits of a public exponent after its leading one, the highest first.
RECURSIVE BitsOf(_)
BitsOf(e) == IF e <= 1 THEN <<>> ELSE Append(BitsOf(e \div 2), e % 2)

\* Modulus::pow, with the base as the number its bytes spell.
Pow(m, number, e) ==
    LET base == Resize(LimbsOf(number), Len(m.n))
    IN IF ~Below(base, m.n) THEN Refused
       ELSE IF e = 0 THEN <<"ok", 1>>
       ELSE LET start == MontMul(m, base, m.r2)
                acc == FoldLeft(LAMBDA x, bit :
                            LET square == MontMul(m, x, x)
                            IN IF bit = 1 THEN MontMul(m, square, start) ELSE square,
                            start, BitsOf(e))
            IN <<"ok", Value(MontMul(m, acc, Resize(<<1>>, Len(m.n))))>>

-----------------------------------------------------------------------------
(* The key and the block.                                                  *)

\* from_pkcs1: the exponent must fit a limb, be odd and be at least three.
KeyOf(number, e) ==
    IF e >= Limb \/ e < 3 \/ e % 2 = 0 \/ ModulusOf(number) = Refused THEN Refused
    ELSE <<"ok", [modulus |-> ModulusOf(number)[2], exponent |-> e]>>

\* expected_block: 00 01, at least eight FFs, 00 and the DigestInfo.
ExpectedBlock(info, width) ==
    IF width < Len(info) + 11 THEN Refused
    ELSE <<0, 1>> \o [i \in 1..(width - Len(info) - 3) |-> 255] \o <<0>> \o info

\* RsaPublicKey::verify: as wide as the modulus, below it, and the number that
\* comes back is the block that was built.
VerifiesRsa(key, wide, number, block) ==
    wide /\ Pow(key.modulus, number, key.exponent) = <<"ok", block>>

-----------------------------------------------------------------------------
(* What the arithmetic promises.                                           *)

\* The product is a * b / R mod n and is itself below n.
Multiplies(n, a, b) ==
    LET m == ModulusOf(n)
        k == Len(m[2].n)
        p == MontMul(m[2], Resize(LimbsOf(a), k), Resize(LimbsOf(b), k))
    IN m # Refused /\ a < n /\ b < n =>
            /\ Value(p) < n
            /\ (Value(p) * Limb^k) % n = (a * b) % n

RECURSIVE PowerMod(_, _, _)
PowerMod(a, e, n) == IF e = 0 THEN 1 ELSE (a * PowerMod(a, e - 1, n)) % n

\* A power is the power, and only what is not below the modulus is refused; an
\* even modulus, one below three and an exponent that signs nothing are no key.
Raises(n, a, e) ==
    LET m == ModulusOf(n)
    IN /\ (m = Refused) = (n % 2 = 0 \/ n < 3)
       /\ m # Refused /\ a < Limb^Len(m[2].n) =>
            Pow(m[2], a, e) = (IF a < n THEN <<"ok", PowerMod(a, e, n)>> ELSE Refused)
       /\ (KeyOf(n, e) = Refused) = (n % 2 = 0 \/ n < 3 \/ e < 3 \/ e % 2 = 0 \/ e >= Limb)

\* There is one block for a digest: as wide as the key, and two widths or two
\* digests never share it.
OneBlock(info, other, width) ==
    LET b == ExpectedBlock(info, width)
    IN b # Refused =>
            /\ Len(b) = width
            /\ \A i \in 3..10 : b[i] = 255
            /\ other # info => b # ExpectedBlock(other, width)

\* A block has one signature: the one the private exponent d makes.  A number
\* as wide as the modulus has no more limbs than it.
OneSignature(n, e, d, block) ==
    {s \in 0..(Limb^Len(LimbsOf(n)) - 1) : VerifiesRsa(KeyOf(n, e)[2], TRUE, s, block)}
        = IF block < n THEN {PowerMod(block, d, n)} ELSE {}
=============================================================================
