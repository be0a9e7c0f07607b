------------------------------ MODULE FloatX80 ------------------------------
(***************************************************************************)
(* The extended double-precision routines of softfloat.c.  The significand *)
(* is a whole word of W bits, its leading bit explicit; results are        *)
(* rounded to all of it, or to P64 or P32 bits less, as the status's       *)
(* precision says.  A value is its encoding, sign and exponent above the   *)
(* word.  Unlike the shorter formats this one never squashes its inputs.   *)
(***************************************************************************)
EXTENDS FloatInt

CONSTANTS E, W, P64, P32

ExpMax == 2^E - 1
Bias == 2^(E - 1) - 1
Top == 2^(W - 1)

Sig(a) == a % 2^W
Exp(a) == (a \div 2^W) % 2^E
Sign(a) == a \div 2^(E + W)
Fraction(a) == a % Top
High(a) == a \div 2^W

Pack(s, e, sig) == s * 2^(E + W) + e * 2^W + sig

Infinity(s) == Pack(s, ExpMax, Top)
Zero(s) == Pack(s, 0, 0)
DefaultNaN == Pack(1, ExpMax, 3 * 2^(W - 2))
Invalid == Raise({"invalid"}, DefaultNaN)

IsZero(a) == Exp(a) = 0 /\ Sig(a) = 0
IsInfinity(a) == Exp(a) = ExpMax /\ Sig(a) = Top
IsNaN(a) == Exp(a) = ExpMax /\ Fraction(a) # 0
IsQuietNaN(a) == Exp(a) = ExpMax /\ Fraction(a) >= 2^(W - 2)
IsSignalingNaN(a) == IsNaN(a) /\ Fraction(a) < 2^(W - 2)
Squash(a, st) == Raise({}, a)

INSTANCE FloatCompare

NormalizeSubnormal(sig) == LET n == CountLeadingZeros(sig, W)
                           IN  [sig |-> ShiftLeft(sig, n, W), exp |-> 1 - n]

Normal(a) == IF Exp(a) = 0 THEN NormalizeSubnormal(Sig(a))
             ELSE [sig |-> Sig(a), exp |-> Exp(a)]

----------------------------------------------------------------------------
(* NaNs.                                                                   *)
floatx80_maybe_silence_nan(a) ==
    IF IsSignalingNaN(a) THEN Pack(Sign(a), Exp(a), 3 * 2^(W - 2) + Fraction(a)) ELSE a

propagateFloatx80NaN(a, b, st) ==
    LET larger == IF Sig(a) = Sig(b) THEN High(a) < High(b) ELSE Sig(a) > Sig(b)
    IN  Raise(FlagIf(IsSignalingNaN(a) \/ IsSignalingNaN(b), "invalid"),
              IF st.dnan THEN DefaultNaN
              ELSE floatx80_maybe_silence_nan(
                       IF PickNaN(IsQuietNaN(a), IsSignalingNaN(a),
                                  IsQuietNaN(b), IsSignalingNaN(b), larger)
                       THEN b ELSE a))

floatx80ToCommonNaN(a, n) ==
    LET x == IF Sig(a) >= Top THEN a ELSE DefaultNaN
    IN  Raise(FlagIf(IsSignalingNaN(a), "invalid"),
              [sign |-> Sign(x), high |-> Fraction(x) * 2^(n - W + 1)])

commonNaNToFloatx80(r, n, st) ==
    LET mantissa == r.v.high \div 2^(n - W + 1)
    IN  Raise(r.f, IF st.dnan \/ mantissa = 0 THEN DefaultNaN
                   ELSE Pack(r.v.sign, ExpMax, Top + mantissa))

----------------------------------------------------------------------------
(* Rounding: sig is the word and extra the word below it; e is the true    *)
(* exponent when the leading bit of sig is on.                             *)
Overflow(s, g, st) ==
    Raise({"overflow", "inexact"},
          IF \/ st.mode = "zero"
             \/ st.mode = "up" /\ s = 1
             \/ st.mode = "down" /\ s = 0
          THEN Pack(s, ExpMax - 1, 2^W - 2^g) ELSE Infinity(s))

Inexact(b, tiny) == FlagIf(b /\ tiny, "underflow") \cup FlagIf(b, "inexact")

(* To less than the whole word: g bits are dropped.                        *)
RoundShorter(g, s, e, sig, st) ==
    LET inc == RoundIncrement(s, st, g)
        tiny == st.tinyBefore \/ e < 0 \/ sig + inc < 2^W
        z == IF e <= 0 THEN Jam(sig, 1 - e, W) ELSE sig
        r == 2^g * RoundSig(z, inc, st, g)
        lost == z % 2^g # 0
    IN  IF e > ExpMax - 1 \/ (e = ExpMax - 1 /\ sig + inc >= 2^W) THEN Overflow(s, g, st)
        ELSE IF e <= 0 /\ st.ftz THEN Raise({"output_denormal"}, Zero(s))
        ELSE IF e <= 0 THEN Raise(Inexact(lost, tiny), Pack(s, Bit(z + inc >= Top), r))
        ELSE IF z + inc >= 2^W THEN Raise(Inexact(lost, FALSE), Pack(s, e + 1, Top))
        ELSE Raise(Inexact(lost, FALSE), Pack(s, IF r = 0 THEN 0 ELSE e, r))

RoundWhole(s, e, sig, extra, st) ==
    LET up == Increment(s, extra, W, st)
        tiny == st.tinyBefore \/ e < 0 \/ ~up \/ sig < 2^W - 1
        z == ExtraRightJam(sig, extra, 1 - e, W, W)
        r == Incremented(z.a, s, z.x, W, st)
    IN  IF e > ExpMax - 1 \/ (e = ExpMax - 1 /\ sig = 2^W - 1 /\ up)
        THEN Overflow(s, 0, st)
        ELSE IF e <= 0
        THEN Raise(Inexact(z.x # 0, tiny),
                   Pack(s, Bit(Increment(s, z.x, W, st) /\ r >= Top), r))
        ELSE Raise(Inexact(extra # 0, FALSE),
                   IF up /\ sig = 2^W - 1 THEN Pack(s, e + 1, Top)
                   ELSE Pack(s, IF ~up /\ sig = 0 THEN 0 ELSE e,
                             Incremented(sig, s, extra, W, st)))

roundAndPackFloatx80(prec, s, e, sig, extra, st) ==
    CASE prec = 64 -> RoundShorter(P64, s, e, Or1(sig, extra # 0), st)
      [] prec = 32 -> RoundShorter(P32, s, e, Or1(sig, extra # 0), st)
      [] OTHER -> RoundWhole(s, e, sig, extra, st)

RoundPair(prec, s, e, z, st) ==
    roundAndPackFloatx80(prec, s, e, z \div 2^W, z % 2^W, st)

normalizeRoundAndPackFloatx80(prec, s, e, pair, st) ==
    LET low == pair < 2^W
        z == IF low THEN pair * 2^W ELSE pair
        n == CountLeadingZeros(z \div 2^W, W)
    IN  RoundPair(prec, s, (IF low THEN e - W ELSE e) - n, ShiftLeft(z, n, 2 * W), st)

----------------------------------------------------------------------------
(* Sums.                                                                   *)
Distance(d, small) == (IF d < 0 THEN -d ELSE d) - Bit(Exp(small) = 0)

addFloatx80Sigs(a, b, s, st) ==
    LET d == Exp(a) - Exp(b)
        big == IF d >= 0 THEN a ELSE b
        small == IF d >= 0 THEN b ELSE a
        low == IF d = 0 THEN [a |-> Sig(small), x |-> 0]
               ELSE ExtraRightJam(Sig(small), 0, Distance(d, small), W, W)
        sum == (Sig(big) + low.a) % 2^W
        half == ExtraRightJam(sum, low.x, 1, W, W)
        n == NormalizeSubnormal(sum)
    IN  IF Exp(big) = ExpMax
        THEN IF IsNaN(a) \/ IsNaN(b) THEN propagateFloatx80NaN(a, b, st)
             ELSE Raise({}, IF d >= 0 THEN a ELSE Infinity(s))
        ELSE IF d = 0 /\ Exp(a) = 0
        THEN roundAndPackFloatx80(st.prec, s, n.exp, n.sig, 0, st)
        ELSE IF d # 0 /\ sum >= Top
        THEN roundAndPackFloatx80(st.prec, s, Exp(big), sum, low.x, st)
        ELSE roundAndPackFloatx80(st.prec, s, Exp(big) + 1,
                                  IF half.a >= Top THEN half.a ELSE half.a + Top, half.x, st)

subFloatx80Sigs(a, b, s, st) ==
    LET d == Exp(a) - Exp(b)
        aBigger == d > 0 \/ (d = 0 /\ Sig(a) > Sig(b))
        big == IF aBigger THEN a ELSE b
        small == IF aBigger THEN b ELSE a
        z == Sig(big) * 2^W - (IF d = 0 THEN Sig(small) * 2^W
                               ELSE Jam(Sig(small) * 2^W, Distance(d, small), 2 * W))
    IN  IF Exp(big) = ExpMax
        THEN CASE IsNaN(a) \/ IsNaN(b) -> propagateFloatx80NaN(a, b, st)
               [] ~(IsNaN(a) \/ IsNaN(b)) /\ d = 0 -> Invalid
               [] OTHER -> Raise({}, IF aBigger THEN a ELSE Infinity(1 - s))
        ELSE IF d = 0 /\ Sig(a) = Sig(b) THEN Raise({}, Zero(Bit(st.mode = "down")))
        ELSE normalizeRoundAndPackFloatx80(st.prec, IF aBigger THEN s ELSE 1 - s,
                                           IF Exp(big) = 0 THEN 1 ELSE Exp(big), z, st)

floatx80_add(a, b, st) == IF Sign(a) = Sign(b) THEN addFloatx80Sigs(a, b, Sign(a), st)
                          ELSE subFloatx80Sigs(a, b, Sign(a), st)

floatx80_sub(a, b, st) == IF Sign(a) = Sign(b) THEN subFloatx80Sigs(a, b, Sign(a), st)
                          ELSE addFloatx80Sigs(a, b, Sign(a), st)

----------------------------------------------------------------------------
floatx80_mul(a, b, st) ==
    LET s == Xor(Sign(a), Sign(b))
        m == Normal(a)
        n == Normal(b)
        z == m.sig * n.sig
        short == z \div 2^W > 0 /\ z \div 2^W < Top
        e == m.exp + n.exp - (Bias - 1)
    IN  IF IsNaN(a) \/ IsNaN(b) THEN propagateFloatx80NaN(a, b, st)
        ELSE IF IsInfinity(a) \/ IsInfinity(b)
        THEN IF IsZero(a) \/ IsZero(b) THEN Invalid ELSE Raise({}, Infinity(s))
        ELSE IF IsZero(a) \/ IsZero(b) THEN Raise({}, Zero(s))
        ELSE RoundPair(st.prec, s, IF short THEN e - 1 ELSE e,
                       IF short THEN 2 * z ELSE z, st)

(* Two words of quotient, each estimated; the second is corrected only     *)
(* when it is close enough to a rounding point to matter.                  *)
floatx80_div(a, b, st) ==
    LET s == Xor(Sign(a), Sign(b))
        m == Normal(a)
        n == Normal(b)
        fits == n.sig <= m.sig
        num == IF fits THEN (m.sig * 2^W) \div 2 ELSE m.sig * 2^W
        z0 == QuotientDown(EstimateDiv(num \div 2^W, num % 2^W, n.sig, W), num, n.sig)
        rem == num - n.sig * z0
        Low(est) == IF (2 * est) % 2^W <= 8 THEN LastQuotient(est, rem * 2^W, n.sig) ELSE est
    IN  IF IsNaN(a) \/ IsNaN(b) THEN propagateFloatx80NaN(a, b, st)
        ELSE IF IsInfinity(a)
        THEN IF IsInfinity(b) THEN Invalid ELSE Raise({}, Infinity(s))
        ELSE IF IsInfinity(b) THEN Raise({}, Zero(s))
        ELSE IF IsZero(b)
        THEN IF IsZero(a) THEN Invalid ELSE Raise({"divbyzero"}, Infinity(s))
        ELSE IF IsZero(a) THEN Raise({}, Zero(s))
        ELSE roundAndPackFloatx80(st.prec, s, m.exp - n.exp + Bias - 1 + Bit(fits), z0,
                                  Low(EstimateDiv(rem, 0, n.sig, W)), st)

(* The remainder keeps a pair of words and takes W - 2 bits of quotient at *)
(* a time; the last step is corrected upwards by whole divisors.           *)
RECURSIVE RemainderLoop(_, _, _)
RemainderLoop(pair, b, d) ==
    LET kept == Lowered(EstimateDiv(pair \div 2^W, pair % 2^W, b, W), 2)
    IN  IF d > 0
        THEN RemainderLoop(ShiftLeft((pair - b * kept) % 2^(2 * W), W - 2, 2 * W),
                           b, d - (W - 2))
        ELSE [a |-> pair, q |-> kept, d |-> d]

RECURSIVE RemainderUp(_, _, _)
RemainderUp(r, term, q) == IF term <= r THEN RemainderUp(r - term, term, q + 1)
                           ELSE [r |-> r, q |-> q]

LastRemainder(loop, b, first) ==
    LET k == loop.d + W
        term == b * 2^(W - k)
        q == loop.q \div 2^(W - k)
        up == RemainderUp((loop.a - term * q) % 2^(2 * W), term, q)
    IN  IF k > 0 THEN [r |-> up.r, q |-> up.q, term |-> term, d |-> k]
        ELSE [r |-> loop.a, q |-> Bit(first), term |-> b * 2^W, d |-> k]

NearestRemainder(s, e, last, st) ==
    LET other == last.term - last.r
        flip == other < last.r \/ (other = last.r /\ last.q % 2 = 1)
    IN  normalizeRoundAndPackFloatx80(80, Xor(s, Bit(flip)), e + last.d,
                                      IF flip THEN other ELSE last.r, st)

floatx80_rem(a, b, st) ==
    LET m == Normal(a)
        n == Normal(b)
        d == m.exp - n.exp
        aPair == IF d < 0 THEN (m.sig * 2^W) \div 2 ELSE m.sig * 2^W
        first == n.sig * 2^W <= aPair
        loop == RemainderLoop(IF first THEN aPair - n.sig * 2^W ELSE aPair, n.sig,
                              (IF d < 0 THEN 0 ELSE d) - W)
    IN  IF IsNaN(a) \/ IsNaN(b) THEN propagateFloatx80NaN(a, b, st)
        ELSE IF IsInfinity(a) \/ IsZero(b) THEN Invalid
        ELSE IF IsInfinity(b) \/ IsZero(a) \/ d < -1 THEN Raise({}, a)
        ELSE NearestRemainder(Sign(a), n.exp, LastRemainder(loop, n.sig, first), st)

SqrtArgument(a) == LET m == Normal(a)
                   IN  [exp |-> m.exp, sig |-> m.sig \div 2^(W \div 2)]

floatx80_sqrt(a, est, st) ==
    LET m == Normal(a)
        h == W \div 2
        pair == (m.sig * 2^W) \div 2^(2 + (m.exp % 2))
        z == (EstimateDiv(pair \div 2^W, pair % 2^W, est * 2^h, W) + est * 2^(h - 2)) % 2^W
        z0 == RootDown(z, pair)
        double == (2 * z0) % 2^W
        rem == (pair - z0 * z0) % 2^W
        z1 == EstimateDiv(rem, 0, double, W)
        y == IF z1 = 0 THEN 1 ELSE z1
        low == IF z1 % 2^(W - 2) > 5 THEN z1
               ELSE RootWordDown(y, (rem * 2^W - double * y) * 2^W - y * y, double, W)
    IN  IF IsNaN(a) THEN propagateFloatx80NaN(a, a, st)
        ELSE IF IsZero(a) THEN Raise({}, a)
        ELSE IF Sign(a) = 1 THEN Invalid
        ELSE IF IsInfinity(a) THEN Raise({}, a)
        ELSE roundAndPackFloatx80(st.prec, 0, ((m.exp - Bias) \div 2) + Bias,
                                  double + ((2 * low) \div 2^W), (2 * low) % 2^W, st)

----------------------------------------------------------------------------
(* Scaling, and rounding to an integer within the word.                    *)
floatx80_scalbn(a, n, st) ==
    LET limit == 2^(E + 1)
        m == IF n > limit THEN limit ELSE IF n < -limit THEN -limit ELSE n
    IN  IF IsNaN(a) THEN propagateFloatx80NaN(a, a, st)
        ELSE IF IsInfinity(a) \/ IsZero(a) THEN Raise({}, a)
        ELSE normalizeRoundAndPackFloatx80(st.prec, Sign(a),
                                           (IF Exp(a) = 0 THEN 1 ELSE Exp(a)) + m,
                                           Sig(a) * 2^W, st)

floatx80_round_to_int(a, st) ==
    LET one == Pack(Sign(a), Bias, Top)
        small == CASE st.mode = "even" /\ Exp(a) = Bias - 1 /\ Fraction(a) # 0 -> one
                   [] st.mode = "away" /\ Exp(a) = Bias - 1 -> one
                   [] st.mode = "down" /\ Sign(a) = 1 -> one
                   [] st.mode = "up" /\ Sign(a) = 0 -> one
                   [] OTHER -> Zero(Sign(a))
        last == 2^(Bias + W - 1 - Exp(a))
        near == (Sig(a) + (last \div 2)) % 2^W
        z == CASE st.mode = "even" -> IF near % last = 0 /\ (near \div last) % 2 = 1
                                      THEN near - last ELSE near
               [] st.mode = "away" -> near
               [] st.mode = "up" /\ Sign(a) = 0 -> (Sig(a) + (last - 1)) % 2^W
               [] st.mode = "down" /\ Sign(a) = 1 -> (Sig(a) + (last - 1)) % 2^W
               [] OTHER -> Sig(a)
        low == z - (z % last)
        r == IF low = 0 THEN Pack(Sign(a), Exp(a) + 1, Top) ELSE Pack(Sign(a), Exp(a), low)
    IN  IF Exp(a) >= Bias + W - 1
        THEN IF IsNaN(a) THEN propagateFloatx80NaN(a, a, st) ELSE Raise({}, a)
        ELSE IF Exp(a) < Bias
        THEN IF Exp(a) = 0 /\ Fraction(a) = 0 THEN Raise({}, a)
             ELSE Raise({"inexact"}, small)
        ELSE Raise(FlagIf(Sig(r) # Sig(a), "inexact"), r)

----------------------------------------------------------------------------
(* Integers.                                                               *)
floatx80_to_int32(a, st) ==
    LET n == Bias + W - 1 - IG - Exp(a)
    IN  RoundAndPackInt32(IF IsNaN(a) THEN 0 ELSE Sign(a),
                          Jam(Sig(a), IF n <= 0 THEN 1 ELSE n, W), st)

floatx80_to_int32_round_to_zero(a, st) ==
    LET s == IF IsNaN(a) THEN 0 ELSE Sign(a)
        n == Bias + W - 1 - Exp(a)
        z == Sig(a) \div 2^n
        r == Signed(IF s = 1 THEN -z ELSE z, I32)
        invalid == Raise({"invalid"}, IF s = 1 THEN IntMin(I32) ELSE IntMax(I32))
    IN  IF Exp(a) > Bias + I32 - 1 THEN invalid
        ELSE IF Exp(a) < Bias THEN Raise(FlagIf(~IsZero(a), "inexact"), 0)
        ELSE IF (r < 0) # (s = 1) THEN invalid
        ELSE Raise(FlagIf(z * 2^n # Sig(a), "inexact"), r)

Saturated(a) == IF Sign(a) = 0 \/ IsNaN(a) THEN IntMax(W) ELSE IntMin(W)

floatx80_to_int64(a, st) ==
    LET n == Bias + W - 1 - Exp(a)
        z == ExtraRightJam(Sig(a), 0, n, W, W)
    IN  IF n < 0 THEN Raise({"invalid"}, Saturated(a))
        ELSE RoundAndPackInt64(Sign(a), z.a, z.x, st)

floatx80_to_int64_round_to_zero(a, st) ==
    LET n == Bias + W - 1 - Exp(a)
        z == Sig(a) \div 2^n
    IN  IF n <= 0
        THEN IF a = Pack(1, Bias + W - 1, Top) THEN Raise({}, IntMin(W))
             ELSE Raise({"invalid"}, Saturated(a))
        ELSE IF Exp(a) < Bias THEN Raise(FlagIf(~IsZero(a), "inexact"), 0)
        ELSE Raise(FlagIf(Sig(a) % 2^n # 0, "inexact"), IF Sign(a) = 1 THEN -z ELSE z)

OfInteger(n) ==
    LET m == IF n < 0 THEN -n ELSE n
        k == CountLeadingZeros(m, W)
    IN  Raise({}, IF n = 0 THEN Zero(0)
                  ELSE Pack(Bit(n < 0), Bias + W - 1 - k, m * 2^k))

int32_to_floatx80(n, st) == OfInteger(n)
int64_to_floatx80(n, st) == OfInteger(n)

----------------------------------------------------------------------------
floatx80_eq(a, b, st) == Eq(a, b, FALSE, st)
floatx80_le(a, b, st) == Le(a, b, FALSE, st)
floatx80_lt(a, b, st) == Lt(a, b, FALSE, st)
floatx80_unordered(a, b, st) == IsUnordered(a, b, FALSE, st)
floatx80_eq_quiet(a, b, st) == Eq(a, b, TRUE, st)
floatx80_le_quiet(a, b, st) == Le(a, b, TRUE, st)
floatx80_lt_quiet(a, b, st) == Lt(a, b, TRUE, st)
floatx80_unordered_quiet(a, b, st) == IsUnordered(a, b, TRUE, st)
floatx80_compare_internal(a, b, quiet, st) == Compare(a, b, quiet, st)
=============================================================================
