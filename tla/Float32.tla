------------------------------ MODULE Float32 ------------------------------
(***************************************************************************)
(* The single-precision routines of softfloat.c: the ones shared with      *)
(* float64 by their own names, and the ones float32 does in its own way    *)
(* (division and remainder by one wide division, the square root from one  *)
(* estimate, conversions through a 64-bit word).                           *)
(***************************************************************************)
EXTENDS Float

float32_squash_input_denormal(a, st) == Squash(a, st)
normalizeFloat32Subnormal(sig) == NormalizeSubnormal(sig)
roundAndPackFloat32(s, e, sig, st) == RoundAndPack(s, e, sig, st)
normalizeRoundAndPackFloat32(s, e, sig, st) == NormalizeRoundAndPack(s, e, sig, st)

float32_add(a, b, st) == Add(a, b, st)
float32_sub(a, b, st) == Sub(a, b, st)
float32_mul(a, b, st) == Mul(a, b, st)
float32_muladd(a, b, c, flags, st) == MulAdd(a, b, c, flags, st)
float32_round_to_int(a, st) == RoundToInt(a, st)
float32_scalbn(a, n, st) == Scalbn(a, n, st)

float32_eq(a, b, st) == Eq(a, b, FALSE, st)
float32_le(a, b, st) == Le(a, b, FALSE, st)
float32_lt(a, b, st) == Lt(a, b, FALSE, st)
float32_unordered(a, b, st) == IsUnordered(a, b, FALSE, st)
float32_eq_quiet(a, b, st) == Eq(a, b, TRUE, st)
float32_le_quiet(a, b, st) == Le(a, b, TRUE, st)
float32_lt_quiet(a, b, st) == Lt(a, b, TRUE, st)
float32_unordered_quiet(a, b, st) == IsUnordered(a, b, TRUE, st)

----------------------------------------------------------------------------
(* One exact division of two words; the sticky bit is only needed when the *)
(* bits below the rounding bit are zero.                                   *)
float32_div(a, b, st) ==
    LET Quotient(x, y) ==
            LET s == Xor(Sign(x), Sign(y))
                m == Normal(x)
                n == Normal(y)
                bSig == n.sig * 2^(G + 1)
                fits == bSig <= 2 * (m.sig * 2^G)
                aSig == IF fits THEN (m.sig * 2^G) \div 2 ELSE m.sig * 2^G
                e == m.exp - n.exp + Bias - 2 + Bit(fits)
                z == (aSig * 2^W) \div bSig
            IN  IF IsNaN(x) \/ IsNaN(y) THEN PropagateNaN(x, y, st)
                ELSE IF IsInfinity(x)
                THEN IF IsInfinity(y) THEN Invalid ELSE Raise({}, Infinity(s))
                ELSE IF IsInfinity(y) THEN Raise({}, Zero(s))
                ELSE IF IsZero(y)
                THEN IF IsZero(x) THEN Invalid ELSE Raise({"divbyzero"}, Infinity(s))
                ELSE IF IsZero(x) THEN Raise({}, Zero(s))
                ELSE roundAndPackFloat32(
                         s, e, Or1(z, z % 2^(G - 1) = 0 /\ bSig * z # aSig * 2^W), st)
    IN  Squash2(a, b, st, Quotient)

(* float32_rem: one division while the exponents are less than a word      *)
(* apart; otherwise the quotient is taken W bits at a time from double     *)
(* words, two bits of each estimate being given back.                      *)
RECURSIVE RemainderLoop(_, _, _)
RemainderLoop(aWide, bSig, d) ==
    LET kept == Lowered(EstimateDiv(aWide, 0, bSig * 2^(2 * W - F - 1), 2 * W), 2)
    IN  IF d > 0
        THEN RemainderLoop((-((bSig * kept) * 2^(2 * W - F - 3))) % 2^(2 * W),
                           bSig, d - (2 * W - 2))
        ELSE [a |-> aWide, q |-> kept, d |-> d]

LongRemainder(m, n, d) ==
    LET aSig == IF n <= m THEN m - n ELSE m
        b == n * 2^(W - F - 3)
        Last(r) ==
            LET k == r.d + 2 * W
                q == r.q \div 2^(2 * W - k)
            IN  [a |-> ((r.a \div 2^(W + 1)) * 2^(k - 1) - b * q) % 2^W, b |-> b, q |-> q]
    IN  Last(RemainderLoop(aSig * 2^(2 * W - F - 1), n, d - 2 * W))

ShortRemainder(m, n, d) ==
    LET aSig == IF d < 0 THEN (m * 2^(W - F - 1)) \div 2 ELSE m * 2^(W - F - 1)
        bSig == n * 2^(W - F - 1)
        first == bSig <= aSig
        rest == IF first THEN aSig - bSig ELSE aSig
        q == ((rest * 2^W) \div bSig) \div 2^(W - d)
        b == bSig \div 4
    IN  IF d > 0
        THEN [a |-> ((rest \div 2) * 2^(d - 1) - b * q) % 2^W, b |-> b, q |-> q]
        ELSE [a |-> rest \div 4, b |-> b, q |-> Bit(first)]

SignedResult(s, e, z, st) ==
    normalizeRoundAndPackFloat32(Xor(s, Bit(z < 0)), e, IF z < 0 THEN -z ELSE z, st)

float32_rem(a, b, st) ==
    LET Remainder(x, y) ==
            LET m == Normal(x)
                n == Normal(y)
                d == m.exp - n.exp
                r == IF d < W THEN ShortRemainder(m.sig, n.sig, d)
                     ELSE LongRemainder(m.sig, n.sig, d)
            IN  IF IsNaN(x) \/ IsNaN(y) THEN PropagateNaN(x, y, st)
                ELSE IF IsInfinity(x) \/ IsZero(y) THEN Invalid
                ELSE IF IsInfinity(y) \/ IsZero(x) \/ d < -1 THEN Raise({}, x)
                ELSE SignedResult(Sign(x), n.exp, RemainderDown(r, W), st)
    IN  Squash2(a, b, st, Remainder)

(* float32_sqrt from the estimate est of the square root of a's            *)
(* significand.                                                            *)
SqrtArgument(a) == LET m == Normal(a) IN [exp |-> m.exp, sig |-> m.sig * 2^(W - F - 1)]

float32_sqrt(a, est, st) ==
    LET Root(x) ==
            LET m == SqrtArgument(x)
                e == ((m.exp - Bias) \div 2) + Bias - 1
                z == (est + 2) % 2^W
                square == (IF m.exp % 2 = 1 THEN m.sig \div 2 ELSE m.sig) * 2^W
                r == RootDown(z, square)
            IN  IF IsNaN(x) THEN PropagateNaN(x, 0, st)
                ELSE IF IsZero(x) THEN Raise({}, x)
                ELSE IF Sign(x) = 1 THEN Invalid
                ELSE IF IsInfinity(x) THEN Raise({}, x)
                ELSE IF z % 2^G > 5 THEN roundAndPackFloat32(0, e, Jam(z, 1, W), st)
                ELSE IF z < 2 THEN roundAndPackFloat32(0, e, 2^(W - 1) - 1, st)
                ELSE roundAndPackFloat32(0, e, Jam(Or1(r, r * r # square), 1, W), st)
    IN  Squash1(a, st, Root)

----------------------------------------------------------------------------
(* To integers.                                                            *)
Significand(a) == IF Exp(a) = 0 THEN Frac(a) ELSE Frac(a) + Hidden

float32_to_int32(a, st) ==
    LET Convert(x) ==
            LET n == Bias + F + I32 - IG - Exp(x)
                sig == Significand(x) * 2^I32
            IN  RoundAndPackInt32(IF IsNaN(x) THEN 0 ELSE Sign(x),
                                  IF n > 0 THEN Jam(sig, n, I64) ELSE sig, st)
    IN  Squash1(a, st, Convert)

Saturated(x, n) == IF Sign(x) = 0 \/ IsNaN(x) THEN IntMax(n) ELSE IntMin(n)

float32_to_int64(a, st) ==
    LET Convert(x) ==
            LET n == Bias + I64 - 1 - Exp(x)
                z == ExtraRightJam(Significand(x) * 2^(I64 - 1 - F), 0, n, I64, I64)
            IN  IF n < 0 THEN Raise({"invalid"}, Saturated(x, I64))
                ELSE RoundAndPackInt64(Sign(x), z.a, z.x, st)
    IN  Squash1(a, st, Convert)

float32_to_uint64(a, st) ==
    LET Convert(x) ==
            LET n == Bias + I64 - 1 - Exp(x)
                z == ExtraRightJam(Significand(x) * 2^(I64 - 1 - F), 0, n, I64, I64)
            IN  IF Sign(x) = 1 /\ Exp(x) > Bias - 1
                THEN Raise({"invalid"}, IF IsNaN(x) THEN 2^I64 - 1 ELSE 0)
                ELSE IF n < 0 THEN Raise({"invalid"}, 2^I64 - 1)
                ELSE RoundAndPackUint64(Sign(x), z.a, z.x, st)
    IN  Squash1(a, st, Convert)

float32_to_uint64_round_to_zero(a, st) ==
    float32_to_uint64(a, [st EXCEPT !.mode = "zero"])

(* The truncating conversions shift the significand of a value below       *)
(* 2^(n - 1) to its units and look at what fell off.                       *)
Truncated(x, n) ==
    LET d == Bias + F - Exp(x)
        z == IF d > 0 THEN Significand(x) \div 2^d ELSE Significand(x) * 2^(-d)
    IN  IF Exp(x) >= Bias + n - 1
        THEN IF x = Pack(1, Bias + n - 1, 0) THEN Raise({}, IntMin(n))
             ELSE Raise({"invalid"}, Saturated(x, n))
        ELSE IF Exp(x) < Bias THEN Raise(FlagIf(~IsZero(x), "inexact"), 0)
        ELSE Raise(FlagIf(d > 0 /\ Significand(x) % 2^d # 0, "inexact"),
                   IF Sign(x) = 1 THEN -z ELSE z)

float32_to_int32_round_to_zero(a, st) == Squash1(a, st, LAMBDA x : Truncated(x, I32))
float32_to_int16_round_to_zero(a, st) == Truncated(a, I16)
float32_to_int64_round_to_zero(a, st) == Squash1(a, st, LAMBDA x : Truncated(x, I64))

(* The narrower ones convert to a wider integer and clamp it; on a clamp   *)
(* only invalid is left of the flags.                                      *)
Clamped_KeepsFlags(r, low, high) ==
    IF r.v < low THEN Raise(r.f \cup {"invalid"}, low)
    ELSE IF r.v > high THEN Raise(r.f \cup {"invalid"}, high) ELSE r

Clamped(r, low, high) == IF r.v < low THEN Raise({"invalid"}, low)
                         ELSE IF r.v > high THEN Raise({"invalid"}, high) ELSE r

float32_to_uint32(a, st) == Clamped(float32_to_int64(a, st), 0, 2^I32 - 1)
float32_to_uint32_round_to_zero(a, st) ==
    Clamped(float32_to_int64_round_to_zero(a, st), 0, 2^I32 - 1)
float32_to_int16(a, st) == Clamped(float32_to_int32(a, st), IntMin(I16), IntMax(I16))
float32_to_uint16(a, st) == Clamped(float32_to_int32(a, st), 0, 2^I16 - 1)
float32_to_uint16_round_to_zero(a, st) ==
    Clamped(float32_to_int64_round_to_zero(a, st), 0, 2^I16 - 1)

----------------------------------------------------------------------------
(* From integers.                                                          *)
Abs(n) == IF n < 0 THEN -n ELSE n

int32_to_float32(n, st) ==
    IF n = 0 THEN Raise({}, Zero(0))
    ELSE IF n = IntMin(I32) THEN Raise({}, Pack(1, Bias + I32 - 1, 0))
    ELSE normalizeRoundAndPackFloat32(Bit(n < 0), Bias + W - 3, Abs(n), st)

MagnitudeToFloat32(s, m, st) ==
    LET n == CountLeadingZeros(m, I64) - (I64 - F - 1)
        k == n + G
    IN  IF m = 0 THEN Raise({}, Zero(0))
        ELSE IF n >= 0 THEN Raise({}, Pack(s, Bias + F - 1 - n, m * 2^n))
        ELSE roundAndPackFloat32(s, Bias + W - 3 - k,
                          IF k < 0 THEN Jam(m, -k, I64) ELSE m * 2^k, st)

int64_to_float32(n, st) == MagnitudeToFloat32(Bit(n < 0), Abs(n), st)
uint64_to_float32(n, st) == MagnitudeToFloat32(0, n, st)
uint32_to_float32(n, st) == int64_to_float32(n, st)

----------------------------------------------------------------------------
(* The relations, minimum and maximum the COMPARE and MINMAX macros make.  *)
float32_compare(a, b, st) == Compare(a, b, FALSE, st)
float32_compare_quiet(a, b, st) == Compare(a, b, TRUE, st)
float32_minmax(a, b, isMin, isIeee, isMag, st) == MinMax(a, b, isMin, isIeee, isMag, st)
=============================================================================
