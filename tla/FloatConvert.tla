---------------------------- MODULE FloatConvert ----------------------------
(***************************************************************************)
(* The conversions of softfloat.c between the binary formats.  A format is *)
(* a record: E exponent and F fraction bits, G guard bits; the extended    *)
(* one has words of W bits, the quadruple one two words of V bits, FH of   *)
(* the upper one fraction.  The shift counts of the source are the         *)
(* differences of those widths, its exponent offsets those of the biases.  *)
(***************************************************************************)
EXTENDS FloatBase

CONSTANTS Single, Double, Extended, Quad, I16, I32, I64, IG

S == INSTANCE Float32 WITH E <- Single.E, F <- Single.F, G <- Single.G
D == INSTANCE Float64 WITH E <- Double.E, F <- Double.F, G <- Double.G
X == INSTANCE FloatX80 WITH E <- Extended.E, W <- Extended.W,
                            P64 <- Extended.P64, P32 <- Extended.P32
Q == INSTANCE Float128 WITH E <- Quad.E, FH <- Quad.FH, V <- Quad.V

(* The width of the format-independent NaN.                                *)
NaNBits == 26

Place32 == Single.F + Single.G
Place64 == Double.F + Double.G

----------------------------------------------------------------------------
(* To a wider format every number is exact.  A subnormal is shifted up;    *)
(* packing adds its leading bit to the exponent, hence the decrement.      *)
WidenExp(m, exp) == IF exp = 0 THEN m.exp - 1 ELSE exp

float32_to_float64(a, st) ==
    LET Convert(x) ==
            LET m == S!Normal(x)
                sig == IF S!Exp(x) = 0 THEN m.sig ELSE S!Frac(x)
            IN  CASE S!IsNaN(x) -> D!FromCommonNaN(S!ToCommonNaN(x, NaNBits), NaNBits, st)
                  [] S!IsInfinity(x) -> Raise({}, D!Infinity(S!Sign(x)))
                  [] S!IsZero(x) -> Raise({}, D!Zero(S!Sign(x)))
                  [] OTHER -> Raise({}, D!Pack(S!Sign(x),
                                               WidenExp(m, S!Exp(x)) + D!Bias - S!Bias,
                                               sig * 2^(Double.F - Single.F)))
    IN  S!Squash1(a, st, Convert)

float32_to_floatx80(a, st) ==
    LET Convert(x) ==
            LET m == S!Normal(x)
            IN  CASE S!IsNaN(x) ->
                         X!commonNaNToFloatx80(S!ToCommonNaN(x, NaNBits), NaNBits, st)
                  [] S!IsInfinity(x) -> Raise({}, X!Infinity(S!Sign(x)))
                  [] S!IsZero(x) -> Raise({}, X!Zero(S!Sign(x)))
                  [] OTHER -> Raise({}, X!Pack(S!Sign(x), m.exp + X!Bias - S!Bias,
                                               m.sig * 2^(Extended.W - 1 - Single.F)))
    IN  S!Squash1(a, st, Convert)

float32_to_float128(a, st) ==
    LET Convert(x) ==
            LET m == S!Normal(x)
                sig == IF S!Exp(x) = 0 THEN m.sig ELSE S!Frac(x)
            IN  CASE S!IsNaN(x) ->
                         Q!commonNaNToFloat128(S!ToCommonNaN(x, NaNBits), NaNBits, st)
                  [] S!IsInfinity(x) -> Raise({}, Q!Infinity(S!Sign(x)))
                  [] S!IsZero(x) -> Raise({}, Q!Zero(S!Sign(x)))
                  [] OTHER -> Raise({}, Q!Pack(S!Sign(x),
                                               WidenExp(m, S!Exp(x)) + Q!Bias - S!Bias,
                                               Q!Pair(sig * 2^(Quad.FH - Single.F), 0)))
    IN  S!Squash1(a, st, Convert)

float64_to_floatx80(a, st) ==
    LET Convert(x) ==
            LET m == D!Normal(x)
            IN  CASE D!IsNaN(x) ->
                         X!commonNaNToFloatx80(D!ToCommonNaN(x, NaNBits), NaNBits, st)
                  [] D!IsInfinity(x) -> Raise({}, X!Infinity(D!Sign(x)))
                  [] D!IsZero(x) -> Raise({}, X!Zero(D!Sign(x)))
                  [] OTHER -> Raise({}, X!Pack(D!Sign(x), m.exp + X!Bias - D!Bias,
                                               m.sig * 2^(Extended.W - 1 - Double.F)))
    IN  D!Squash1(a, st, Convert)

float64_to_float128(a, st) ==
    LET Convert(x) ==
            LET m == D!Normal(x)
                sig == IF D!Exp(x) = 0 THEN m.sig ELSE D!Frac(x)
            IN  CASE D!IsNaN(x) ->
                         Q!commonNaNToFloat128(D!ToCommonNaN(x, NaNBits), NaNBits, st)
                  [] D!IsInfinity(x) -> Raise({}, Q!Infinity(D!Sign(x)))
                  [] D!IsZero(x) -> Raise({}, Q!Zero(D!Sign(x)))
                  [] OTHER -> Raise({}, Q!Pack(D!Sign(x),
                                               WidenExp(m, D!Exp(x)) + Q!Bias - D!Bias,
                                               sig * 2^(Q!FQ - Double.F)))
    IN  D!Squash1(a, st, Convert)

(* Only a NaN is special: the fields of the others fit as they are.        *)
floatx80_to_float128(a, st) ==
    IF X!IsNaN(a)
    THEN Q!commonNaNToFloat128(X!floatx80ToCommonNaN(a, NaNBits), NaNBits, st)
    ELSE Raise({}, Q!Pack(X!Sign(a), X!Exp(a),
                          X!Fraction(a) * 2^(Q!FQ - (Extended.W - 1))))

----------------------------------------------------------------------------
(* To a narrower format the significand is jammed into place and rounded.  *)
(* Where the source or-s the leading bit in, it does so for a subnormal    *)
(* too, which is far below the target's range.                             *)
float64_to_float32(a, st) ==
    LET Convert(x) ==
            LET sig == Jam(D!Frac(x), Double.F - Place32, D!W)
                number == D!Exp(x) # 0 \/ sig # 0
            IN  CASE D!IsNaN(x) -> S!FromCommonNaN(D!ToCommonNaN(x, NaNBits), NaNBits, st)
                  [] D!IsInfinity(x) -> Raise({}, S!Infinity(D!Sign(x)))
                  [] OTHER -> S!RoundAndPack(
                                  D!Sign(x),
                                  IF number THEN D!Exp(x) - (D!Bias - S!Bias + 1) ELSE 0,
                                  IF number THEN sig + 2^Place32 ELSE 0, st)
    IN  D!Squash1(a, st, Convert)

floatx80_to_float32(a, st) ==
    LET sig == Jam(X!Sig(a), Extended.W - 1 - Place32, Extended.W)
    IN  CASE X!IsNaN(a) ->
                 S!FromCommonNaN(X!floatx80ToCommonNaN(a, NaNBits), NaNBits, st)
          [] X!IsInfinity(a) -> Raise({}, S!Infinity(X!Sign(a)))
          [] OTHER -> S!RoundAndPack(
                          X!Sign(a),
                          IF X!Exp(a) # 0 \/ sig # 0 THEN X!Exp(a) - (X!Bias - S!Bias + 1)
                          ELSE 0, sig, st)

floatx80_to_float64(a, st) ==
    CASE X!IsNaN(a) -> D!FromCommonNaN(X!floatx80ToCommonNaN(a, NaNBits), NaNBits, st)
      [] X!IsInfinity(a) -> Raise({}, D!Infinity(X!Sign(a)))
      [] OTHER -> D!RoundAndPack(
                      X!Sign(a),
                      IF X!IsZero(a) THEN 0 ELSE X!Exp(a) - (X!Bias - D!Bias + 1),
                      Jam(X!Sig(a), Extended.W - 1 - Place64, Extended.W), st)

float128_to_float32(a, st) ==
    LET sig == Jam(Q!Upper(Q!Frac(a)), Quad.FH - Place32, Quad.V)
        number == Q!Exp(a) # 0 \/ sig # 0
    IN  CASE Q!IsNaN(a) -> S!FromCommonNaN(Q!float128ToCommonNaN(a, NaNBits), NaNBits, st)
          [] Q!IsInfinity(a) -> Raise({}, S!Infinity(Q!Sign(a)))
          [] OTHER -> S!RoundAndPack(
                          Q!Sign(a),
                          IF number THEN Q!Exp(a) - (Q!Bias - S!Bias + 1) ELSE 0,
                          IF number THEN sig + 2^Place32 ELSE 0, st)

float128_to_float64(a, st) ==
    LET sig == Q!Upper(Q!Frac(a) * 2^(Quad.V - Quad.FH - 2))
        number == Q!Exp(a) # 0 \/ sig # 0
    IN  CASE Q!IsNaN(a) -> D!FromCommonNaN(Q!float128ToCommonNaN(a, NaNBits), NaNBits, st)
          [] Q!IsInfinity(a) -> Raise({}, D!Infinity(Q!Sign(a)))
          [] OTHER -> D!RoundAndPack(
                          Q!Sign(a),
                          IF number THEN Q!Exp(a) - (Q!Bias - D!Bias + 1) ELSE 0,
                          IF number THEN sig + 2^Place64 ELSE 0, st)

float128_to_floatx80(a, st) ==
    LET m == Q!Normal128(a)
        pair == m.sig * 2^(Quad.V - Quad.FH - 1)
    IN  CASE Q!IsNaN(a) ->
                 X!commonNaNToFloatx80(Q!float128ToCommonNaN(a, NaNBits), NaNBits, st)
          [] Q!IsInfinity(a) -> Raise({}, X!Infinity(Q!Sign(a)))
          [] Q!IsZero(a) -> Raise({}, X!Zero(Q!Sign(a)))
          [] OTHER -> X!roundAndPackFloatx80(80, Q!Sign(a), m.exp, Q!Hi(pair), Q!Lo(pair), st)
=============================================================================
