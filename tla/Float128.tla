------------------------------ MODULE Float128 ------------------------------
(***************************************************************************)
(* The quadruple-precision routines of softfloat.c.  A significand is two  *)
(* words of V bits, the upper one with FH bits of fraction (64 and 48 in   *)
(* the code), held here as the one integer they make; K bits of the upper  *)
(* word are left to sign and exponent.  What the format shares with the    *)
(* shorter ones comes from module Float; this one never squashes inputs.   *)
(***************************************************************************)
EXTENDS Integers

CONSTANTS E, FH, V, I16, I32, I64, IG

INSTANCE Float WITH F <- FH + V, G <- 0

(* The width of the fraction, and of what is above it.                     *)
FQ == FH + V
K == V - FH

Pair(hi, lo) == hi * 2^V + lo
Hi(pair) == pair \div 2^V
Lo(pair) == pair % 2^V
Raw(st) == [st EXCEPT !.fiz = FALSE]

normalizeFloat128Subnormal(sig) ==
    IF Hi(sig) = 0
    THEN LET n == CountLeadingZeros(sig, V) - (K - 1)
         IN  [sig |-> IF n < 0 THEN Pair(sig \div 2^(-n), ShiftLeft(sig, V + n, V))
                      ELSE Pair(ShiftLeft(sig, n, V), 0),
              exp |-> -n - (V - 1)]
    ELSE LET n == CountLeadingZeros(Hi(sig), V) - (K - 1)
         IN  [sig |-> ShiftLeft(sig, n, 2 * V), exp |-> 1 - n]

Normal128(a) == IF Exp(a) = 0 THEN normalizeFloat128Subnormal(Frac(a))
                ELSE [sig |-> Frac(a) + Hidden, exp |-> Exp(a)]

propagateFloat128NaN(a, b, st) == PropagateNaN(a, b, st)
float128ToCommonNaN(a, n) == ToCommonNaN(a, n)
commonNaNToFloat128(r, n, st) ==
    Raise(r.f, IF st.dnan THEN DefaultNaN
               ELSE Pack(r.v.sign, ExpMax, r.v.high \div 2^(n - FQ)))

----------------------------------------------------------------------------
(* The leading bit of sig is bit FQ, extra is the word below; e is one     *)
(* less than the true exponent.                                            *)
roundAndPackFloat128(s, e, sig, extra, st) ==
    LET up == Increment(s, extra, V, st)
        ones == 2^(FQ + 1) - 1
        tiny == st.tinyBefore \/ e < -1 \/ ~up \/ sig < ones
        z == IF e < 0 THEN ExtraRightJam(sig, extra, -e, 2 * V, V)
             ELSE [a |-> sig, x |-> extra]
        toward == \/ st.mode = "zero"
                  \/ st.mode = "up" /\ s = 1
                  \/ st.mode = "down" /\ s = 0
        flags == FlagIf(e < 0 /\ tiny /\ z.x # 0, "underflow") \cup FlagIf(z.x # 0, "inexact")
    IN  IF e > ExpMax - 2 \/ (e = ExpMax - 2 /\ sig = ones /\ up)
        THEN Raise({"overflow", "inexact"},
                   IF toward THEN Pack(s, ExpMax - 1, 2^FQ - 1) ELSE Infinity(s))
        ELSE IF e < 0 /\ st.ftz THEN Raise({"output_denormal"}, Zero(s))
        ELSE Raise(flags, Pack(s, IF e < 0 \/ (z.a = 0 /\ ~Increment(s, z.x, V, st)) THEN 0
                                  ELSE e,
                               Incremented(z.a, s, z.x, V, st)))

normalizeRoundAndPackFloat128(s, e, pair, st) ==
    LET low == Hi(pair) = 0
        z == IF low THEN pair * 2^V ELSE pair
        n == CountLeadingZeros(Hi(z), V) - (K - 1)
        x == IF n >= 0 THEN [a |-> ShiftLeft(z, n, 2 * V), x |-> 0]
             ELSE ExtraRightJam(z, 0, -n, 2 * V, V)
    IN  roundAndPackFloat128(s, (IF low THEN e - V ELSE e) - n, x.a, x.x, st)

----------------------------------------------------------------------------
(* Sums.                                                                   *)
Significand(a) == IF Exp(a) = 0 THEN Frac(a) ELSE Frac(a) + Hidden
Shift128(a, b, small) == Distance(a, b) - Bit(Exp(small) = 0)

addFloat128Sigs(a, b, s, st) ==
    LET d == Exp(a) - Exp(b)
        big == IF d >= 0 THEN a ELSE b
        small == IF d >= 0 THEN b ELSE a
        low == ExtraRightJam(Significand(small), 0, Shift128(a, b, small), 2 * V, V)
        sum == IF d = 0 THEN Frac(a) + Frac(b) + 2 * Hidden ELSE Frac(big) + Hidden + low.a
        half == ExtraRightJam(sum, IF d = 0 THEN 0 ELSE low.x, 1, 2 * V, V)
    IN  IF Exp(big) = ExpMax
        THEN IF IsNaN(a) \/ IsNaN(b) THEN PropagateNaN(a, b, st)
             ELSE Raise({}, IF d >= 0 THEN a ELSE Infinity(s))
        ELSE IF d = 0 /\ Exp(a) = 0
        THEN IF st.ftz
             THEN Raise(FlagIf(Frac(a) + Frac(b) # 0, "output_denormal"), Zero(s))
             ELSE Raise({}, Pack(s, 0, Frac(a) + Frac(b)))
        ELSE IF d # 0 /\ Hi(sum) < 2^(FH + 1)
        THEN roundAndPackFloat128(s, Exp(big) - 1, sum, low.x, st)
        ELSE roundAndPackFloat128(s, Exp(big), half.a, half.x, st)

subFloat128Sigs(a, b, s, st) ==
    LET d == Exp(a) - Exp(b)
        aBigger == d > 0 \/ (d = 0 /\ Frac(a) > Frac(b))
        big == IF aBigger THEN a ELSE b
        small == IF aBigger THEN b ELSE a
        up == 2^(K - 2)
        z == IF d = 0 THEN (Frac(big) - Frac(small)) * up
             ELSE Significand(big) * up
                  - Jam(Significand(small) * up, Shift128(a, b, small), 2 * V)
        e == IF d = 0 /\ Exp(a) = 0 THEN 1 ELSE Exp(big)
    IN  IF Exp(big) = ExpMax
        THEN CASE IsNaN(a) \/ IsNaN(b) -> PropagateNaN(a, b, st)
               [] ~(IsNaN(a) \/ IsNaN(b)) /\ d = 0 -> Invalid
               [] OTHER -> Raise({}, IF aBigger THEN a ELSE Infinity(1 - s))
        ELSE IF d = 0 /\ Frac(a) = Frac(b) THEN Raise({}, Zero(Bit(st.mode = "down")))
        ELSE normalizeRoundAndPackFloat128(IF aBigger THEN s ELSE 1 - s,
                                           e - 1 - (K - 2), z, st)

float128_add(a, b, st) == IF Sign(a) = Sign(b) THEN addFloat128Sigs(a, b, Sign(a), st)
                          ELSE subFloat128Sigs(a, b, Sign(a), st)

float128_sub(a, b, st) == IF Sign(a) = Sign(b) THEN subFloat128Sigs(a, b, Sign(a), st)
                          ELSE addFloat128Sigs(a, b, Sign(a), st)

----------------------------------------------------------------------------
(* The leading bit of b falls off the two words, and a is added back for   *)
(* it.                                                                     *)
float128_mul(a, b, st) ==
    LET s == Xor(Sign(a), Sign(b))
        m == Normal128(a)
        n == Normal128(b)
        product == m.sig * ShiftLeft(n.sig, K, 2 * V)
        z == (product \div 2^(2 * V)) + m.sig
        extra == Or1(Lo(product \div 2^V), Lo(product) # 0)
        half == ExtraRightJam(z, extra, 1, 2 * V, V)
        e == m.exp + n.exp - (Bias + 1)
    IN  IF IsNaN(a) \/ IsNaN(b) THEN PropagateNaN(a, b, st)
        ELSE IF IsInfinity(a) \/ IsInfinity(b)
        THEN IF IsZero(a) \/ IsZero(b) THEN Invalid ELSE Raise({}, Infinity(s))
        ELSE IF IsZero(a) \/ IsZero(b) THEN Raise({}, Zero(s))
        ELSE IF Hi(z) >= 2^(FH + 1) THEN roundAndPackFloat128(s, e + 1, half.a, half.x, st)
        ELSE roundAndPackFloat128(s, e, z, extra, st)

float128_div(a, b, st) ==
    LET s == Xor(Sign(a), Sign(b))
        m == Normal128(a)
        n == Normal128(b)
        bSig == n.sig * 2^(K - 1)
        fits == bSig <= m.sig * 2^(K - 1)
        aSig == IF fits THEN (m.sig * 2^(K - 1)) \div 2 ELSE m.sig * 2^(K - 1)
        z0 == QuotientDown(EstimateDiv(Hi(aSig), Lo(aSig), Hi(bSig), V), aSig * 2^V, bSig)
        rem == aSig * 2^V - bSig * z0
        Low(est) == IF est % 2^(K - 2) > 4 THEN est ELSE LastQuotient(est, rem * 2^V, bSig)
        low == Low(EstimateDiv(Hi(rem), Lo(rem), Hi(bSig), V))
        Rounded(z) == roundAndPackFloat128(s, m.exp - n.exp + Bias - 2 + Bit(fits),
                                           z.a, z.x, st)
    IN  IF IsNaN(a) \/ IsNaN(b) THEN PropagateNaN(a, b, st)
        ELSE IF IsInfinity(a)
        THEN IF IsInfinity(b) THEN Invalid ELSE Raise({}, Infinity(s))
        ELSE IF IsInfinity(b) THEN Raise({}, Zero(s))
        ELSE IF IsZero(b)
        THEN IF IsZero(a) THEN Invalid ELSE Raise({"divbyzero"}, Infinity(s))
        ELSE IF IsZero(a) THEN Raise({}, Zero(s))
        ELSE Rounded(ExtraRightJam(Pair(z0, low), 0, K - 1, 2 * V, V))

RECURSIVE RemainderLoop128(_, _, _)
RemainderLoop128(a, b, d) ==
    LET kept == Lowered(EstimateDiv(Hi(a), Lo(a), Hi(b), V), 4)
    IN  IF d > 0
        THEN RemainderLoop128((Pair(Hi(ShiftLeft(a, V - 3, 2 * V)), 0)
                               - ((b * kept) \div 8)) % 2^(2 * V), b, d - (V - 3))
        ELSE [a |-> a, q |-> kept, d |-> d]

LastRemainder128(loop, b, first) ==
    LET q == loop.q \div 2^(-loop.d)
        low == b \div 2^(K - 4)
        k == loop.d + V - (K - 4)
        r == IF k < 0 THEN loop.a \div 2^(-k) ELSE ShiftLeft(loop.a, k, 2 * V)
    IN  IF loop.d > -V
        THEN [a |-> (r - low * q) % 2^(2 * V), b |-> low, q |-> q]
        ELSE [a |-> loop.a \div 2^(K - 4), b |-> low, q |-> Bit(first)]

SignedResult(s, e, z, st) ==
    normalizeRoundAndPackFloat128(Xor(s, Bit(z < 0)), e, IF z < 0 THEN -z ELSE z, st)

float128_rem(a, b, st) ==
    LET m == Normal128(a)
        n == Normal128(b)
        d == m.exp - n.exp
        aSig == m.sig * 2^(K - 1 - Bit(d < 0))
        bSig == n.sig * 2^(K - 1)
        first == bSig <= aSig
        loop == RemainderLoop128(IF first THEN aSig - bSig ELSE aSig, bSig, d - V)
    IN  IF IsNaN(a) \/ IsNaN(b) THEN PropagateNaN(a, b, st)
        ELSE IF IsInfinity(a) \/ IsZero(b) THEN Invalid
        ELSE IF IsInfinity(b) \/ IsZero(a) \/ d < -1 THEN Raise({}, a)
        ELSE SignedResult(Sign(a), n.exp - 4,
                          RemainderDown(LastRemainder128(loop, bSig, first), 2 * V), st)

SqrtArgument(a) == LET m == Normal128(a)
                   IN  [exp |-> m.exp, sig |-> m.sig \div 2^(FQ + 1 - (V \div 2))]

float128_sqrt(a, est, st) ==
    LET m == Normal128(a)
        h == V \div 2
        aSig == m.sig * 2^(K - 3 - (m.exp % 2))
        z == (EstimateDiv(Hi(aSig), Lo(aSig), est * 2^h, V) + est * 2^(h - 2)) % 2^V
        z0 == RootDown(z, aSig)
        double == (2 * z0) % 2^V
        rem == (aSig - z0 * z0) % 2^V
        z1 == EstimateDiv(rem, 0, double, V)
        y == IF z1 = 0 THEN 1 ELSE z1
        low == IF z1 % 2^(K - 3) > 5 THEN z1
               ELSE RootWordDown(y, (rem * 2^V - double * y) * 2^V - y * y, double, V)
        x == ExtraRightJam(Pair(z0, low), 0, K - 2, 2 * V, V)
    IN  IF IsNaN(a) THEN PropagateNaN(a, a, st)
        ELSE IF IsZero(a) THEN Raise({}, a)
        ELSE IF Sign(a) = 1 THEN Invalid
        ELSE IF IsInfinity(a) THEN Raise({}, a)
        ELSE roundAndPackFloat128(0, ((m.exp - Bias) \div 2) + Bias - 1, x.a, x.x, st)

float128_scalbn(a, n, st) ==
    LET limit == 2^(E + 1)
        m == IF n > limit THEN limit ELSE IF n < -limit THEN -limit ELSE n
    IN  IF IsNaN(a) THEN PropagateNaN(a, a, st)
        ELSE IF IsInfinity(a) \/ IsZero(a) THEN Raise({}, a)
        ELSE normalizeRoundAndPackFloat128(Sign(a),
                                           (IF Exp(a) = 0 THEN 1 ELSE Exp(a)) + m - 1,
                                           Significand(a), st)

----------------------------------------------------------------------------
(* Rounding to an integer: within the lower word, carrying into the upper  *)
(* one, or within the upper word, the lower one being only a sticky bit.   *)
RoundLow(a, st) ==
    LET last == 2^(Bias + FQ - Exp(a))
        near == a + (last \div 2)
        z == CASE st.mode = "even" -> IF near % last = 0 /\ (near \div last) % 2 = 1
                                      THEN near - last ELSE near
               [] st.mode = "away" -> near
               [] st.mode = "up" /\ Sign(a) = 0 -> a + (last - 1)
               [] st.mode = "down" /\ Sign(a) = 1 -> a + (last - 1)
               [] OTHER -> a
    IN  z - (z % last)

RoundHigh(a, st) ==
    LET last == 2^(Bias + FH - Exp(a))
        near == Hi(a) + (last \div 2)
        away == Or1(Hi(a), Lo(a) # 0) + (last - 1)
        z == CASE st.mode = "even" ->
                      IF near % last = 0 /\ Lo(a) = 0 /\ (near \div last) % 2 = 1
                      THEN near - last ELSE near
               [] st.mode = "away" -> near
               [] st.mode = "up" /\ Sign(a) = 0 -> away
               [] st.mode = "down" /\ Sign(a) = 1 -> away
               [] OTHER -> Hi(a)
    IN  Pair(z - (z % last), 0)

float128_round_to_int(a, st) ==
    LET one == Pack(Sign(a), Bias, 0)
        small == CASE st.mode = "even" /\ Exp(a) = Bias - 1 /\ Frac(a) # 0 -> one
                   [] st.mode = "away" /\ Exp(a) = Bias - 1 -> one
                   [] st.mode = "down" /\ Sign(a) = 1 -> one
                   [] st.mode = "up" /\ Sign(a) = 0 -> one
                   [] OTHER -> Zero(Sign(a))
        z == IF Exp(a) >= Bias + FH THEN RoundLow(a, st) ELSE RoundHigh(a, st)
    IN  IF Exp(a) >= Bias + FQ
        THEN IF IsNaN(a) THEN PropagateNaN(a, a, st) ELSE Raise({}, a)
        ELSE IF Exp(a) < Bias
        THEN IF IsZero(a) THEN Raise({}, a) ELSE Raise({"inexact"}, small)
        ELSE Raise(FlagIf(z # a, "inexact"), z)

----------------------------------------------------------------------------
(* Integers.  The short ones are made of the upper word, the lower one     *)
(* jammed into it.                                                         *)
Upper(sig) == Or1(Hi(sig), Lo(sig) # 0)

float128_to_int32(a, st) ==
    LET n == Bias + FH - IG - Exp(a)
        sig == Upper(Significand(a))
    IN  RoundAndPackInt32(IF IsNaN(a) THEN 0 ELSE Sign(a),
                          IF n > 0 THEN Jam(sig, n, V) ELSE sig, st)

float128_to_int32_round_to_zero(a, st) ==
    LET s == IF IsNaN(a) THEN 0 ELSE Sign(a)
        sig == Upper(Significand(a))
        n == Bias + FH - Exp(a)
        z == sig \div 2^n
        r == Signed(IF s = 1 THEN -z ELSE z, I32)
        invalid == Raise({"invalid"}, IF s = 1 THEN IntMin(I32) ELSE IntMax(I32))
    IN  IF Exp(a) > Bias + I32 - 1 THEN invalid
        ELSE IF Exp(a) < Bias THEN Raise(FlagIf(~IsZero(a), "inexact"), 0)
        ELSE IF (r < 0) # (s = 1) THEN invalid
        ELSE Raise(FlagIf(z * 2^n # sig, "inexact"), r)

Saturated(a) == IF Sign(a) = 0 \/ IsNaN(a) THEN IntMax(I64) ELSE IntMin(I64)

float128_to_int64(a, st) ==
    LET n == Bias + FH - Exp(a)
        sig == Significand(a)
        left == ShiftLeft(sig, -n, 2 * V)
        right == ExtraRightJam(Hi(sig), Lo(sig), n, V, V)
    IN  IF n <= 0
        THEN IF Exp(a) > Bias + V - 1 THEN Raise({"invalid"}, Saturated(a))
             ELSE RoundAndPackInt64(Sign(a), Hi(left), Lo(left), st)
        ELSE RoundAndPackInt64(Sign(a), right.a, right.x, st)

float128_to_int64_round_to_zero(a, st) ==
    LET n == Exp(a) - (Bias + FH)
        sig == Significand(a)
        z == IF n > 0 THEN Hi(ShiftLeft(sig, n, 2 * V)) ELSE Hi(sig) \div 2^(-n)
        lost == IF n > 0 THEN ShiftLeft(Lo(sig), n, V) # 0
                ELSE Lo(sig) # 0 \/ Hi(sig) % 2^(-n) # 0
    IN  IF Exp(a) >= Bias + V - 1
        THEN IF Hi(a) = Hi(Pack(1, Bias + V - 1, 0)) /\ Lo(a) < 2^(FH + 1)
             THEN Raise(FlagIf(Lo(a) # 0, "inexact"), IntMin(I64))
             ELSE Raise({"invalid"}, Saturated(a))
        ELSE IF Exp(a) < Bias THEN Raise(FlagIf(~IsZero(a), "inexact"), 0)
        ELSE Raise(FlagIf(lost, "inexact"), IF Sign(a) = 1 THEN -z ELSE z)

OfInteger(n) ==
    LET m == IF n < 0 THEN -n ELSE n
        k == CountLeadingZeros(m, FQ + 1)
    IN  Raise({}, IF n = 0 THEN Zero(0)
                  ELSE Pack(Bit(n < 0), Bias + FQ - 1 - k, m * 2^k))

int32_to_float128(n, st) == OfInteger(n)
int64_to_float128(n, st) == OfInteger(n)
uint64_to_float128(n, st) ==
    IF n = 0 THEN Raise({}, Zero(0))
    ELSE normalizeRoundAndPackFloat128(0, Bias + FQ - 1, Pair(n, 0), st)

----------------------------------------------------------------------------
float128_eq(a, b, st) == Eq(a, b, FALSE, Raw(st))
float128_le(a, b, st) == Le(a, b, FALSE, Raw(st))
float128_lt(a, b, st) == Lt(a, b, FALSE, Raw(st))
float128_unordered(a, b, st) == IsUnordered(a, b, FALSE, Raw(st))
float128_eq_quiet(a, b, st) == Eq(a, b, TRUE, Raw(st))
float128_le_quiet(a, b, st) == Le(a, b, TRUE, Raw(st))
float128_lt_quiet(a, b, st) == Lt(a, b, TRUE, Raw(st))
float128_unordered_quiet(a, b, st) == IsUnordered(a, b, TRUE, Raw(st))
float128_compare_internal(a, b, quiet, st) == Compare(a, b, quiet, Raw(st))
=============================================================================
