------------------------------ MODULE Float16 ------------------------------
(***************************************************************************)
(* Half precision, which softfloat.c only converts: IEEE halves and the    *)
(* ARM alternative, where the largest exponent holds numbers instead of    *)
(* infinities and NaNs.  Half has E exponent and F fraction bits; a        *)
(* significand is rounded from the width of float32's.                     *)
(***************************************************************************)
EXTENDS FloatBase

CONSTANTS Half, Single, Double, I16, I32, I64, IG

H == INSTANCE Float WITH E <- Half.E, F <- Half.F, G <- 0
S == INSTANCE Float WITH E <- Single.E, F <- Single.F, G <- Single.G
D == INSTANCE Float WITH E <- Double.E, F <- Double.F, G <- Double.G

NaNBits == 26

(* The bits dropped from a normal half.                                    *)
Drop == Single.F - Half.F

(* The leading bit of sig is bit Single.F; e is one less than the true     *)
(* exponent.  The more e is below 1 the more bits are dropped.             *)
roundAndPackFloat16(s, e, sig, ieee, st) ==
    LET maxexp == IF ieee THEN H!ExpMax - 2 ELSE H!ExpMax - 1
        all == Single.F + 1
        dropped == CASE e >= 1 -> Drop
                     [] e < 1 /\ e >= -(Half.F + 1) -> all - (Half.F + 1 + e)
                     [] OTHER -> all
        mask == 2^dropped - 1
        half == 2^(dropped - 1)
        inc == CASE st.mode = "even" ->
                        IF sig % 2^dropped = half
                        THEN (IF (sig \div 2^dropped) % 2 = 1 THEN 2 * half ELSE 0)
                        ELSE half
                 [] st.mode = "away" -> half
                 [] st.mode = "up" -> IF s = 1 THEN 0 ELSE mask
                 [] st.mode = "down" -> IF s = 1 THEN mask ELSE 0
                 [] st.mode = "zero" -> 0
        bumps == sig + inc >= 2^(Single.F + 1)
        tiny == e < 0 /\ (st.tinyBefore \/ e < -1 \/ ~bumps)
        lost == sig % 2^dropped # 0
        z == IF bumps THEN (sig + inc) \div 2 ELSE sig + inc
        ze == IF bumps THEN e + 1 ELSE e
    IN  IF e > maxexp \/ (e = maxexp /\ bumps)
        THEN IF ieee THEN Raise({"overflow", "inexact"}, H!Infinity(s))
             ELSE Raise({"invalid"}, H!Pack(s, H!ExpMax, 2^Half.F - 1))
        ELSE Raise(FlagIf(lost, "inexact") \cup FlagIf(lost /\ tiny, "underflow"),
                   CASE ze < -Half.F -> H!Zero(s)
                     [] ze < 0 /\ ze >= -Half.F ->
                            H!Pack(s, 0, (z \div 2^(-ze)) \div 2^Drop)
                     [] OTHER -> H!Pack(s, ze, z \div 2^Drop))

normalizeFloat16Subnormal(sig) == H!NormalizeSubnormal(sig)

(* A half as the sign, exponent and fraction a wider format packs.         *)
Widened(a, bias, F) ==
    LET m == normalizeFloat16Subnormal(H!Frac(a))
    IN  [exp |-> (IF H!Exp(a) = 0 THEN m.exp - 1 ELSE H!Exp(a)) + bias - H!Bias,
         sig |-> (IF H!Exp(a) = 0 THEN m.sig ELSE H!Frac(a)) * 2^(F - Half.F)]

float16_to_float32(a, ieee, st) ==
    LET m == Widened(a, S!Bias, Single.F)
    IN  CASE ieee /\ H!IsNaN(a) -> S!FromCommonNaN(H!ToCommonNaN(a, NaNBits), NaNBits, st)
          [] ieee /\ H!IsInfinity(a) -> Raise({}, S!Infinity(H!Sign(a)))
          [] H!IsZero(a) -> Raise({}, S!Zero(H!Sign(a)))
          [] OTHER -> Raise({}, S!Pack(H!Sign(a), m.exp, m.sig))

float16_to_float64(a, ieee, st) ==
    LET m == Widened(a, D!Bias, Double.F)
    IN  CASE ieee /\ H!IsNaN(a) -> D!FromCommonNaN(H!ToCommonNaN(a, NaNBits), NaNBits, st)
          [] ieee /\ H!IsInfinity(a) -> Raise({}, D!Infinity(H!Sign(a)))
          [] H!IsZero(a) -> Raise({}, D!Zero(H!Sign(a)))
          [] OTHER -> Raise({}, D!Pack(H!Sign(a), m.exp, m.sig))

(* The alternative format has no encoding for a NaN or an infinity.        *)
NaNToHalf(r, s, ieee, st) == IF ieee THEN H!FromCommonNaN(r, NaNBits, st)
                             ELSE Raise({"invalid"}, H!Zero(s))
InfinityToHalf(s, ieee) == IF ieee THEN Raise({}, H!Infinity(s))
                           ELSE Raise({"invalid"}, H!Pack(s, H!ExpMax, 2^Half.F - 1))

float32_to_float16(a, ieee, st) ==
    LET Convert(x) ==
            CASE S!IsNaN(x) -> NaNToHalf(S!ToCommonNaN(x, NaNBits), S!Sign(x), ieee, st)
              [] S!IsInfinity(x) -> InfinityToHalf(S!Sign(x), ieee)
              [] S!IsZero(x) -> Raise({}, H!Zero(S!Sign(x)))
              [] OTHER -> roundAndPackFloat16(S!Sign(x), S!Exp(x) - (S!Bias - H!Bias + 1),
                                              S!Frac(x) + S!Hidden, ieee, st)
    IN  S!Squash1(a, st, Convert)

float64_to_float16(a, ieee, st) ==
    LET Convert(x) ==
            CASE D!IsNaN(x) -> NaNToHalf(D!ToCommonNaN(x, NaNBits), D!Sign(x), ieee, st)
              [] D!IsInfinity(x) -> InfinityToHalf(D!Sign(x), ieee)
              [] D!IsZero(x) -> Raise({}, H!Zero(D!Sign(x)))
              [] OTHER -> roundAndPackFloat16(
                              D!Sign(x), D!Exp(x) - (D!Bias - H!Bias + 1),
                              S!Hidden + Jam(D!Frac(x), Double.F - Single.F, D!W), ieee, st)
    IN  D!Squash1(a, st, Convert)
=============================================================================
