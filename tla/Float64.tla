------------------------------ MODULE Float64 ------------------------------
(***************************************************************************)
(* The double-precision routines of softfloat.c: the ones shared with      *)
(* float32 by their own names, and the ones float64 does in its own way,   *)
(* on pairs of words with an estimated quotient (division, remainder,      *)
(* square root), or within one 64-bit word (conversions).                  *)
(***************************************************************************)
EXTENDS Float

float64_squash_input_denormal(a, st) == Squash(a, st)
normalizeFloat64Subnormal(sig) == NormalizeSubnormal(sig)
roundAndPackFloat64(s, e, sig, st) == RoundAndPack(s, e, sig, st)
normalizeRoundAndPackFloat64(s, e, sig, st) == NormalizeRoundAndPack(s, e, sig, st)
propagateFloat64NaN(a, b, st) == PropagateNaN(a, b, st)
propagateFloat64MulAddNaN(a, b, c, st) == PropagateMulAddNaN(a, b, c, st)

addFloat64Sigs(a, b, s, st) == AddSigs(a, b, s, st)
subFloat64Sigs(a, b, s, st) == SubSigs(a, b, s, st)
float64_add(a, b, st) == Add(a, b, st)
float64_sub(a, b, st) == Sub(a, b, st)
float64_mul(a, b, st) == Mul(a, b, st)
float64_muladd(a, b, c, flags, st) == MulAdd(a, b, c, flags, st)
float64_round_to_int(a, st) == RoundToInt(a, st)
float64_trunc_to_int(a, st) == RoundToInt(a, [st EXCEPT !.mode = "zero"])
float64_scalbn(a, n, st) == Scalbn(a, n, st)

float64_eq(a, b, st) == Eq(a, b, FALSE, st)
float64_le(a, b, st) == Le(a, b, FALSE, st)
float64_lt(a, b, st) == Lt(a, b, FALSE, st)
float64_unordered(a, b, st) == IsUnordered(a, b, FALSE, st)
float64_eq_quiet(a, b, st) == Eq(a, b, TRUE, st)
float64_le_quiet(a, b, st) == Le(a, b, TRUE, st)
float64_lt_quiet(a, b, st) == Lt(a, b, TRUE, st)
float64_unordered_quiet(a, b, st) == IsUnordered(a, b, TRUE, st)

----------------------------------------------------------------------------
(* The quotient is estimated, one or two too large at worst, and corrected *)
(* only when its low bits say that the error could change the rounding.    *)
float64_div(a, b, st) ==
    LET Quotient(x, y) ==
            LET s == Xor(Sign(x), Sign(y))
                m == Normal(x)
                n == Normal(y)
                bSig == n.sig * 2^(G + 1)
                fits == bSig <= 2 * (m.sig * 2^G)
                aSig == IF fits THEN (m.sig * 2^G) \div 2 ELSE m.sig * 2^G
                e == m.exp - n.exp + Bias - 2 + Bit(fits)
                Sig(z) == IF z % 2^(G - 1) > 2 THEN z ELSE LastQuotient(z, aSig * 2^W, bSig)
            IN  IF IsNaN(x) \/ IsNaN(y) THEN propagateFloat64NaN(x, y, st)
                ELSE IF IsInfinity(x)
                THEN IF IsInfinity(y) THEN Invalid ELSE Raise({}, Infinity(s))
                ELSE IF IsInfinity(y) THEN Raise({}, Zero(s))
                ELSE IF IsZero(y)
                THEN IF IsZero(x) THEN Invalid ELSE Raise({"divbyzero"}, Infinity(s))
                ELSE IF IsZero(x) THEN Raise({}, Zero(s))
                ELSE roundAndPackFloat64(s, e, Sig(EstimateDiv(aSig, 0, bSig, W)), st)
    IN  Squash2(a, b, st, Quotient)

RECURSIVE RemainderLoop(_, _, _)
RemainderLoop(aSig, bSig, d) ==
    LET kept == Lowered(EstimateDiv(aSig, 0, bSig, W), 2)
    IN  IF d > 0 THEN RemainderLoop((-((bSig \div 4) * kept)) % 2^W, bSig, d - (W - 2))
        ELSE [a |-> aSig, q |-> kept, d |-> d]

LastRemainder(loop, bSig, first) ==
    LET k == loop.d + W
        q == loop.q \div 2^(W - k)
        b == bSig \div 4
    IN  IF k > 0
        THEN [a |-> ((loop.a \div 2) * 2^(k - 1) - b * q) % 2^W, b |-> b, q |-> q]
        ELSE [a |-> loop.a \div 4, b |-> b, q |-> Bit(first)]

SignedResult(s, e, z, st) ==
    normalizeRoundAndPackFloat64(Xor(s, Bit(z < 0)), e, IF z < 0 THEN -z ELSE z, st)

float64_rem(a, b, st) ==
    LET Remainder(x, y) ==
            LET m == Normal(x)
                n == Normal(y)
                d == m.exp - n.exp
                aSig == IF d < 0 THEN (m.sig * 2^(G + 1)) \div 2 ELSE m.sig * 2^(G + 1)
                bSig == n.sig * 2^(G + 1)
                first == bSig <= aSig
                loop == RemainderLoop(IF first THEN aSig - bSig ELSE aSig, bSig, d - W)
            IN  IF IsNaN(x) \/ IsNaN(y) THEN propagateFloat64NaN(x, y, st)
                ELSE IF IsInfinity(x) \/ IsZero(y) THEN Invalid
                ELSE IF IsInfinity(y) \/ IsZero(x) \/ d < -1 THEN Raise({}, x)
                ELSE SignedResult(Sign(x), n.exp,
                                  RemainderDown(LastRemainder(loop, bSig, first), W), st)
    IN  Squash2(a, b, st, Remainder)

(* The half-word estimate est of the root is refined by one division.      *)
SqrtArgument(a) == LET m == Normal(a)
                   IN  [exp |-> m.exp, sig |-> m.sig \div 2^(F + 1 - (W \div 2))]

float64_sqrt(a, est, st) ==
    LET Root(x) ==
            LET m == Normal(x)
                h == W \div 2
                e == ((m.exp - Bias) \div 2) + Bias - 1
                aSig == m.sig * 2^(G - 1 - (m.exp % 2))
                z == (EstimateDiv(aSig, 0, est * 2^h, W) + est * 2^(h - 2)) % 2^W
                r == RootDown(z, aSig * 2^W)
            IN  IF IsNaN(x) THEN propagateFloat64NaN(x, x, st)
                ELSE IF IsZero(x) THEN Raise({}, x)
                ELSE IF Sign(x) = 1 THEN Invalid
                ELSE IF IsInfinity(x) THEN Raise({}, x)
                ELSE IF z % 2^(G - 1) > 5 THEN roundAndPackFloat64(0, e, z, st)
                ELSE roundAndPackFloat64(0, e, Or1(r, r * r # aSig * 2^W), st)
    IN  Squash1(a, st, Root)

----------------------------------------------------------------------------
(* To integers.                                                            *)
Significand(a) == IF Exp(a) = 0 THEN Frac(a) ELSE Frac(a) + Hidden

float64_to_int32(a, st) ==
    LET Convert(x) == LET n == Bias + F - IG - Exp(x)
                      IN  RoundAndPackInt32(IF IsNaN(x) THEN 0 ELSE Sign(x),
                                            IF n > 0 THEN Jam(Significand(x), n, W)
                                            ELSE Significand(x), st)
    IN  Squash1(a, st, Convert)

(* The magnitude may have one bit more than the n-bit result: the sign of  *)
(* the n-bit word tells.                                                   *)
Truncated(x, n) ==
    LET s == IF IsNaN(x) THEN 0 ELSE Sign(x)
        d == Bias + F - Exp(x)
        z == Significand(x) \div 2^d
        r == Signed(IF s = 1 THEN -z ELSE z, n)
        invalid == Raise({"invalid"}, IF s = 1 THEN IntMin(n) ELSE IntMax(n))
    IN  IF Exp(x) > Bias + n - 1 THEN invalid
        ELSE IF Exp(x) < Bias THEN Raise(FlagIf(~IsZero(x), "inexact"), 0)
        ELSE IF (r < 0) # (s = 1) THEN invalid
        ELSE Raise(FlagIf(z * 2^d # Significand(x), "inexact"), r)

float64_to_int32_round_to_zero(a, st) == Squash1(a, st, LAMBDA x : Truncated(x, I32))
float64_to_int16_round_to_zero(a, st) == Truncated(a, I16)

(* The value as a word and an extra word of fraction.                      *)
Fixed(x) == LET n == Bias + F - Exp(x)
            IN  IF n <= 0 THEN [a |-> Significand(x) * 2^(-n), x |-> 0]
                ELSE ExtraRightJam(Significand(x), 0, n, W, I64)

float64_to_int64(a, st) ==
    LET Convert(x) ==
            IF Exp(x) > Bias + I64 - 1
            THEN Raise({"invalid"}, IF Sign(x) = 0 \/ IsNaN(x) THEN IntMax(I64)
                                    ELSE IntMin(I64))
            ELSE RoundAndPackInt64(Sign(x), Fixed(x).a, Fixed(x).x, st)
    IN  Squash1(a, st, Convert)

float64_to_int64_round_to_zero(a, st) ==
    LET Convert(x) ==
            LET n == Exp(x) - (Bias + F)
                z == IF n >= 0 THEN Significand(x) * 2^n
                     ELSE Significand(x) \div 2^(-n)
            IN  IF Exp(x) >= Bias + I64 - 1
                THEN IF x = Pack(1, Bias + I64 - 1, 0) THEN Raise({}, IntMin(I64))
                     ELSE Raise({"invalid"}, IF Sign(x) = 0 \/ IsNaN(x) THEN IntMax(I64)
                                             ELSE IntMin(I64))
                ELSE IF Exp(x) < Bias - 1 THEN Raise(FlagIf(~IsZero(x), "inexact"), 0)
                ELSE Raise(FlagIf(n < 0 /\ Significand(x) % 2^(-n) # 0, "inexact"),
                           IF Sign(x) = 1 THEN -z ELSE z)
    IN  Squash1(a, st, Convert)

float64_to_uint64(a, st) ==
    LET Convert(x) ==
            IF Sign(x) = 1 /\ Exp(x) > Bias - 1
            THEN Raise({"invalid"}, IF IsNaN(x) THEN 2^I64 - 1 ELSE 0)
            ELSE IF Exp(x) > Bias + I64 - 1 THEN Raise({"invalid"}, 2^I64 - 1)
            ELSE RoundAndPackUint64(Sign(x), Fixed(x).a, Fixed(x).x, st)
    IN  Squash1(a, st, Convert)

float64_to_uint64_round_to_zero(a, st) ==
    float64_to_uint64(a, [st EXCEPT !.mode = "zero"])

Clamped(r, low, high) == IF r.v < low THEN Raise({"invalid"}, low)
                         ELSE IF r.v > high THEN Raise({"invalid"}, high) ELSE r

float64_to_uint32(a, st) == Clamped(float64_to_uint64(a, st), 0, 2^I32 - 1)
float64_to_uint32_round_to_zero(a, st) ==
    Clamped(float64_to_uint64_round_to_zero(a, st), 0, 2^I32 - 1)
float64_to_int16(a, st) == Clamped(float64_to_int32(a, st), IntMin(I16), IntMax(I16))
float64_to_uint16(a, st) == Clamped(float64_to_int32(a, st), 0, 2^I16 - 1)
float64_to_uint16_round_to_zero(a, st) ==
    Clamped(float64_to_int64_round_to_zero(a, st), 0, 2^I16 - 1)

----------------------------------------------------------------------------
(* From integers.                                                          *)
Abs(n) == IF n < 0 THEN -n ELSE n

int32_to_float64(n, st) ==
    LET k == CountLeadingZeros(Abs(n), I32) + F + 1 - I32
    IN  Raise({}, IF n = 0 THEN Zero(0)
                  ELSE Pack(Bit(n < 0), Bias + F - 1 - k, Abs(n) * 2^k))

int64_to_float64(n, st) ==
    IF n = 0 THEN Raise({}, Zero(0))
    ELSE IF n = IntMin(I64) THEN Raise({}, Pack(1, Bias + I64 - 1, 0))
    ELSE normalizeRoundAndPackFloat64(Bit(n < 0), Bias + W - 3, Abs(n), st)

uint64_to_float64(n, st) ==
    IF n = 0 THEN Raise({}, Zero(0))
    ELSE IF n >= 2^(I64 - 1)
    THEN normalizeRoundAndPackFloat64(0, Bias + W - 2, Jam(n, 1, I64), st)
    ELSE normalizeRoundAndPackFloat64(0, Bias + W - 3, n, st)

uint32_to_float64(n, st) == int64_to_float64(n, st)

----------------------------------------------------------------------------
(* The relations, minimum and maximum the COMPARE and MINMAX macros make.  *)
float64_compare(a, b, st) == Compare(a, b, FALSE, st)
float64_compare_quiet(a, b, st) == Compare(a, b, TRUE, st)
float64_minmax(a, b, isMin, isIeee, isMag, st) == MinMax(a, b, isMin, isIeee, isMag, st)
=============================================================================
