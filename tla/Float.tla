------------------------------- MODULE Float -------------------------------
(***************************************************************************)
(* The routines of softfloat.c that are the same text for float32 and for  *)
(* float64, with the widths as parameters: E exponent bits, F fraction     *)
(* bits, and G guard bits below the fraction while a result is rounded.    *)
(* The working word has W bits: room for a carry, the leading bit, F and G *)
(* (32 = 1 + 1 + 23 + 7 and 64 = 1 + 1 + 52 + 10).  A value is its         *)
(* encoding, the integer of 1 + E + F bits the C code holds.               *)
(*                                                                         *)
(* Every hexadecimal constant of the source is one of the expressions      *)
(* below: 0xFF is ExpMax, 0x7F is Bias, 0x7E is Bias - 1, 0x96 is          *)
(* Bias + F, 0x00800000 is 2^F, 0x40000000 is 2^(F + G), and so on.        *)
(* Integers have I16, I32 and I64 bits, and IG guard bits when rounded.    *)
(***************************************************************************)
EXTENDS FloatInt

CONSTANTS E, F, G

W == F + G + 2
ExpMax == 2^E - 1
Bias == 2^(E - 1) - 1
Hidden == 2^F

Values == 0 .. (2^(1 + E + F) - 1)

----------------------------------------------------------------------------
(* Fields, packing and classification.                                     *)
Frac(a) == a % 2^F
Exp(a) == (a \div 2^F) % 2^E
Sign(a) == a \div 2^(E + F)
Magnitude(a) == a % 2^(E + F)

(* The fields are added, not or-ed: a significand with its leading bit     *)
(* still on carries into the exponent.                                     *)
Pack(s, e, sig) == (s * 2^(E + F) + e * 2^F + sig) % 2^(1 + E + F)

Infinity(s) == Pack(s, ExpMax, 0)
Zero(s) == Pack(s, 0, 0)
DefaultNaN == Pack(1, ExpMax, 2^(F - 1))

IsZero(a) == Magnitude(a) = 0
IsInfinity(a) == Magnitude(a) = Infinity(0)
IsNaN(a) == Exp(a) = ExpMax /\ Frac(a) # 0
IsSubnormal(a) == Exp(a) = 0 /\ Frac(a) # 0

Invalid == Raise({"invalid"}, DefaultNaN)

(* float32_squash_input_denormal, and the calls of it that open nearly     *)
(* every routine.                                                          *)
Squash(a, st) == IF st.fiz /\ IsSubnormal(a)
                 THEN Raise({"input_denormal"}, Zero(Sign(a)))
                 ELSE Raise({}, a)

Squash1(a, st, Op(_)) == LET x == Squash(a, st)
                         IN  AddFlags(Op(x.v), x.f)

Squash2(a, b, st, Op(_, _)) == LET x == Squash(a, st)
                                   y == Squash(b, st)
                               IN  AddFlags(Op(x.v, y.v), x.f \cup y.f)

(* The significand with its leading bit, and the exponent, of a number     *)
(* that is not zero; normalizeFloat32Subnormal shifts a subnormal up.      *)
NormalizeSubnormal(sig) == LET n == CountLeadingZeros(sig, W) - (W - F - 1)
                           IN  [sig |-> sig * 2^n, exp |-> 1 - n]

Normal(a) == IF Exp(a) = 0 THEN NormalizeSubnormal(Frac(a))
             ELSE [sig |-> Frac(a) + Hidden, exp |-> Exp(a)]

----------------------------------------------------------------------------
(* Rounding.                                                               *)
(* roundAndPackFloat32: e is one less than the true exponent and the       *)
(* leading bit of sig is bit F + G, or sig is smaller and e is 0.          *)
RoundAndPack(s, e, sig, st) ==
    LET inc == RoundIncrement(s, st, G)
        overflow == \/ e > ExpMax - 2
                    \/ e = ExpMax - 2 /\ sig + inc >= 2^(W - 1)
        tiny == e < 0 /\ (st.tinyBefore \/ e < -1 \/ sig + inc < 2^(W - 1))
        z == IF e < 0 THEN Jam(sig, -e, W) ELSE sig
        inexact == z % 2^G # 0
        r == RoundSig(z, inc, st, G)
    IN  IF overflow
        THEN Raise({"overflow", "inexact"}, Pack(s, ExpMax, -Bit(inc = 0)))
        ELSE IF e < 0 /\ st.ftz THEN Raise({"output_denormal"}, Zero(s))
        ELSE Raise(FlagIf(tiny /\ inexact, "underflow") \cup FlagIf(inexact, "inexact"),
                   Pack(s, IF r = 0 \/ e < 0 THEN 0 ELSE e, r))

NormalizeRoundAndPack(s, e, sig, st) ==
    LET n == CountLeadingZeros(sig, W) - 1
    IN  RoundAndPack(s, e - n, ShiftLeft(sig, n, W), st)

----------------------------------------------------------------------------
(* NaNs: the propagation rules of the x87, which are the ones this build   *)
(* compiles.                                                               *)
IsQuietNaN(a) == Magnitude(a) >= Pack(0, ExpMax, 2^(F - 1))
IsSignalingNaN(a) == IsNaN(a) /\ Frac(a) < 2^(F - 1)

MaybeSilence_Kept(a) == a

MaybeSilence(a) == IF IsSignalingNaN(a) THEN a + 2^(F - 1) ELSE a

PropagateNaN(a, b, st) ==
    LET larger == IF Magnitude(a) = Magnitude(b) THEN a < b
                  ELSE Magnitude(a) > Magnitude(b)
        flags == FlagIf(IsSignalingNaN(a) \/ IsSignalingNaN(b), "invalid")
    IN  Raise(flags,
              IF st.dnan THEN DefaultNaN
              ELSE IF PickNaN(IsQuietNaN(a), IsSignalingNaN(a),
                              IsQuietNaN(b), IsSignalingNaN(b), larger)
              THEN MaybeSilence(b) ELSE MaybeSilence(a))

PropagateMulAddNaN(a, b, c, st) ==
    Raise(FlagIf(\E x \in {a, b, c} : IsSignalingNaN(x), "invalid"),
          IF st.dnan THEN DefaultNaN
          ELSE MaybeSilence(IF IsNaN(a) THEN a ELSE IF IsNaN(b) THEN b ELSE c))

(* The format-independent NaN: its sign and its fraction, left-justified   *)
(* in a word of n bits.                                                    *)
ToCommonNaN(a, n) == Raise(FlagIf(IsSignalingNaN(a), "invalid"),
                           [sign |-> Sign(a), high |-> Frac(a) * 2^(n - F)])

FromCommonNaN_Infinity(r, n, st) ==
    Raise(r.f, IF st.dnan THEN DefaultNaN
               ELSE Pack(r.v.sign, ExpMax, r.v.high \div 2^(n - F)))

FromCommonNaN(r, n, st) ==
    LET mantissa == r.v.high \div 2^(n - F)
    IN  Raise(r.f, IF st.dnan \/ mantissa = 0 THEN DefaultNaN
                   ELSE Pack(r.v.sign, ExpMax, mantissa))

----------------------------------------------------------------------------
(* Sums.  Align is the smaller operand x with g guard bits, shifted d      *)
(* places down to the exponent of the larger one.                          *)
Align_NoSticky(x, d, g) ==
    ShiftRight((IF Exp(x) = 0 THEN 2 * Frac(x) ELSE Frac(x) + Hidden) * 2^g, d, W)

Align(x, d, g) == IF Exp(x) = 0 THEN Jam(Frac(x) * 2^g, d - 1, W)
                  ELSE Jam((Frac(x) + Hidden) * 2^g, d, W)

Distance(a, b) == IF Exp(a) >= Exp(b) THEN Exp(a) - Exp(b) ELSE Exp(b) - Exp(a)

AddSigs(a, b, s, st) ==
    LET d == Exp(a) - Exp(b)
        big == IF d >= 0 THEN a ELSE b
        small == IF d >= 0 THEN b ELSE a
        sum == (Frac(big) + Hidden) * 2^(G - 1) + Align(small, Distance(a, b), G - 1)
    IN  IF Exp(big) = ExpMax
        THEN IF IsNaN(a) \/ IsNaN(b) THEN PropagateNaN(a, b, st)
             ELSE Raise({}, IF d >= 0 THEN a ELSE Infinity(s))
        ELSE IF d = 0 /\ Exp(a) = 0
        THEN IF st.ftz
             THEN Raise(FlagIf(Frac(a) # 0 \/ Frac(b) # 0, "output_denormal"), Zero(s))
             ELSE Raise({}, Pack(s, 0, Frac(a) + Frac(b)))
        ELSE IF d = 0
        THEN RoundAndPack(s, Exp(a), 2^(F + G) + (Frac(a) + Frac(b)) * 2^(G - 1), st)
        ELSE IF 2 * sum >= 2^(W - 1) THEN RoundAndPack(s, Exp(big), sum, st)
        ELSE RoundAndPack(s, Exp(big) - 1, 2 * sum, st)

SubSigs(a, b, s, st) ==
    LET d == Exp(a) - Exp(b)
        aBigger == d > 0 \/ (d = 0 /\ Frac(a) > Frac(b))
        big == IF aBigger THEN a ELSE b
        small == IF aBigger THEN b ELSE a
        z == IF d = 0 THEN (Frac(big) - Frac(small)) * 2^G
             ELSE (Frac(big) + Hidden) * 2^G - Align(small, Distance(a, b), G)
        e == IF d = 0 /\ Exp(a) = 0 THEN 1 ELSE Exp(big)
    IN  IF Exp(big) = ExpMax
        THEN CASE IsNaN(a) \/ IsNaN(b) -> PropagateNaN(a, b, st)
               [] ~(IsNaN(a) \/ IsNaN(b)) /\ d = 0 -> Invalid
               [] OTHER -> Raise({}, IF aBigger THEN a ELSE Infinity(1 - s))
        ELSE IF d = 0 /\ Frac(a) = Frac(b) THEN Raise({}, Zero(Bit(st.mode = "down")))
        ELSE NormalizeRoundAndPack(IF aBigger THEN s ELSE 1 - s, e - 1, z, st)

Add(a, b, st) ==
    LET Sum(x, y) == IF Sign(x) = Sign(y) THEN AddSigs(x, y, Sign(x), st)
                     ELSE SubSigs(x, y, Sign(x), st)
    IN  Squash2(a, b, st, Sum)

Sub(a, b, st) ==
    LET Difference(x, y) == IF Sign(x) = Sign(y) THEN SubSigs(x, y, Sign(x), st)
                            ELSE AddSigs(x, y, Sign(x), st)
    IN  Squash2(a, b, st, Difference)

----------------------------------------------------------------------------
(* Products: the 2W-bit product is jammed into one word.                   *)
Mul(a, b, st) ==
    LET Product(x, y) ==
            LET s == Xor(Sign(x), Sign(y))
                m == Normal(x)
                n == Normal(y)
                e == m.exp + n.exp - Bias
                z == Jam((m.sig * 2^G) * (n.sig * 2^(G + 1)), W, 2 * W)
            IN  IF IsNaN(x) \/ IsNaN(y) THEN PropagateNaN(x, y, st)
                ELSE IF IsInfinity(x) \/ IsInfinity(y)
                THEN IF IsZero(x) \/ IsZero(y) THEN Invalid ELSE Raise({}, Infinity(s))
                ELSE IF IsZero(x) \/ IsZero(y) THEN Raise({}, Zero(s))
                ELSE IF z < 2^(W - 2) THEN RoundAndPack(s, e - 1, 2 * z, st)
                ELSE RoundAndPack(s, e, z, st)
    IN  Squash2(a, b, st, Product)

(* float32_muladd, the significands after the special cases: pSig has its  *)
(* leading bit at 2W - 2, and c is brought to the same place; the larger   *)
(* exponent wins, and the other operand is jammed down to it.              *)
FusedSum(s, pSign, pExp, pSig, cSign, c, halve, st) ==
    LET m == Normal(c)
        cSig == m.sig * 2^(2 * W - 2 - F)
        d == pExp - m.exp
        p1 == IF d < 0 THEN Jam(pSig, -d, 2 * W) ELSE pSig
        c1 == IF d > 0 THEN Jam(cSig, d, 2 * W) ELSE cSig
        e == IF d > 0 THEN pExp ELSE m.exp
        sum == p1 + c1
        carry == sum >= 2^(2 * W - 1)
        diff == IF p1 > c1 THEN p1 - c1 ELSE c1 - p1
        n == CountLeadingZeros(diff, 2 * W) - 1
        flip == IF p1 > c1 THEN s ELSE 1 - s
        half == Bit(halve)
    IN  IF pSign = cSign
        THEN RoundAndPack(s, (IF carry THEN e ELSE e - 1) - half,
                          Jam(IF carry THEN Jam(sum, 1, 2 * W) ELSE sum, W, 2 * W), st)
        ELSE IF p1 = c1 /\ d = 0
        THEN Raise({}, Zero(Xor(Xor(s, pSign), Bit(st.mode = "down"))))
        ELSE RoundAndPack(flip, e - 1 - n - half, Jam(diff * 2^n, W, 2 * W), st)

ProductSig_Jammed(m, n) == Jam((m.sig * 2^G) * (n.sig * 2^(G + 1)), W, 2 * W) * 2^W

ProductSig(m, n) == (m.sig * 2^G) * (n.sig * 2^(G + 1))

MulAdd(a, b, c, flags, st) ==
    LET x == Squash(a, st).v
        y == Squash(b, st).v
        z == Squash(c, st).v
        cSign == Xor(Sign(z), Bit("negate_c" \in flags))
        pSign == Xor(Xor(Sign(x), Sign(y)), Bit("negate_product" \in flags))
        flip == Bit("negate_result" \in flags)
        halve == "halve" \in flags
        pInf == IsInfinity(x) \/ IsInfinity(y)
        pZero == IsZero(x) \/ IsZero(y)
        m == Normal(x)
        n == Normal(y)
        q == Normal(z)
        prod == ProductSig(m, n)
        short == prod < 2^(2 * W - 2)
        pSig == IF short THEN 2 * prod ELSE prod
        pExp == m.exp + n.exp - (Bias - 1) - Bit(short)
        result ==
            IF \E v \in {x, y, z} : IsNaN(v) THEN PropagateMulAddNaN(x, y, z, st)
            ELSE IF pInf /\ pZero THEN Invalid
            ELSE IF IsInfinity(z)
            THEN IF pInf /\ pSign # cSign THEN Invalid
                 ELSE Raise({}, Infinity(Xor(cSign, flip)))
            ELSE IF pInf THEN Raise({}, Infinity(Xor(pSign, flip)))
            ELSE IF pZero /\ IsZero(z)
            THEN Raise({}, Zero(Xor(IF pSign = cSign THEN pSign
                                    ELSE Bit(st.mode = "down"), flip)))
            ELSE IF pZero /\ IsSubnormal(z) /\ st.ftz
            THEN Raise({"output_denormal"}, Zero(Xor(cSign, flip)))
            ELSE IF pZero /\ halve
            THEN RoundAndPack(Xor(cSign, flip), q.exp - 2, q.sig * 2^G, st)
            ELSE IF pZero THEN Raise({}, Pack(Xor(cSign, flip), Exp(z), Frac(z)))
            ELSE IF IsZero(z)
            THEN RoundAndPack(Xor(pSign, flip), pExp - 1 - Bit(halve),
                              Jam(pSig, W, 2 * W), st)
            ELSE FusedSum(Xor(pSign, flip), pSign, pExp, pSig, cSign, z, halve, st)
    IN  AddFlags(result, Squash(a, st).f \cup Squash(b, st).f \cup Squash(c, st).f)

----------------------------------------------------------------------------
(* Comparisons, minimum and maximum.                                       *)
INSTANCE FloatCompare

MinMax(a, b, isMin, isIeee, isMag, st) ==
    LET Pick(x, y) ==
            LET xLess == IF isMag /\ Magnitude(x) # Magnitude(y)
                         THEN Magnitude(x) < Magnitude(y)
                         ELSE IF Sign(x) # Sign(y) THEN Sign(x) = 1
                         ELSE (Sign(x) = 1) # (x < y)
            IN  IF Unordered(x, y)
                THEN IF isIeee /\ IsQuietNaN(x) /\ ~IsNaN(y) THEN Raise({}, y)
                     ELSE IF isIeee /\ IsQuietNaN(y) /\ ~IsNaN(x) THEN Raise({}, x)
                     ELSE PropagateNaN(x, y, st)
                ELSE Raise({}, IF xLess = isMin THEN x ELSE y)
    IN  Squash2(a, b, st, Pick)

----------------------------------------------------------------------------
(* float32_scalbn: 0x200 is 2^(E + 1).                                     *)
Scalbn(a, n, st) ==
    LET limit == 2^(E + 1)
        m == IF n > limit THEN limit ELSE IF n < -limit THEN -limit ELSE n
        Scale(x) ==
            LET e == IF Exp(x) = 0 THEN 1 ELSE Exp(x)
                sig == IF Exp(x) = 0 THEN Frac(x) ELSE Frac(x) + Hidden
            IN  IF IsNaN(x) THEN PropagateNaN(x, x, st)
                ELSE IF IsInfinity(x) \/ IsZero(x) THEN Raise({}, x)
                ELSE NormalizeRoundAndPack(Sign(x), e + m - 1, sig * 2^G, st)
    IN  Squash1(a, st, Scale)

(* float32_round_to_int works on the encoding itself: adding at the units  *)
(* bit carries into the exponent.                                          *)
RoundToInt(a, st) ==
    LET one(s) == Pack(s, Bias, 0)
        Small(x) ==
            CASE st.mode = "even" /\ Exp(x) = Bias - 1 /\ Frac(x) # 0 -> one(Sign(x))
              [] st.mode = "away" /\ Exp(x) = Bias - 1 -> one(Sign(x))
              [] st.mode = "down" /\ Sign(x) = 1 -> one(1)
              [] st.mode = "up" /\ Sign(x) = 0 -> one(0)
              [] OTHER -> Zero(Sign(x))
        Large(x) ==
            LET last == 2^(Bias + F - Exp(x))
                near == x + (last \div 2)
                z == CASE st.mode = "even" ->
                              IF near % last = 0 /\ (near \div last) % 2 = 1
                              THEN near - last ELSE near
                       [] st.mode = "away" -> near
                       [] st.mode = "up" /\ Sign(x) = 0 -> x + (last - 1)
                       [] st.mode = "down" /\ Sign(x) = 1 -> x + (last - 1)
                       [] OTHER -> x
            IN  z - (z % last)
        Round(x) ==
            IF Exp(x) >= Bias + F
            THEN IF IsNaN(x) THEN PropagateNaN(x, x, st) ELSE Raise({}, x)
            ELSE IF Exp(x) < Bias
            THEN IF IsZero(x) THEN Raise({}, x) ELSE Raise({"inexact"}, Small(x))
            ELSE Raise(FlagIf(Large(x) # x, "inexact"), Large(x))
    IN  Squash1(a, st, Round)
=============================================================================
