--------------------------- MODULE SoftFloatSpec ---------------------------
(***************************************************************************)
(* What the calls of module SoftFloat return: the exact result, rounded    *)
(* once into the format of the result (FloatRef), with the flags the       *)
(* standard asks for.                                                      *)
(***************************************************************************)
EXTENDS SoftFloat, FloatRef

(* The reference.  A format as FloatRef sees it, and the encodings of the  *)
(* extended format, whose leading bit is explicit.                         *)
IsExtended(t) == t \in {"extended", "wideExtended"}

Format(t) == CASE t = "single" -> Single
               [] t = "double" -> Double
               [] t = "extended" -> [E |-> Extended.E, F |-> Extended.W - 1]
               [] t = "wideExtended" -> [E |-> WideExtended.E, F |-> WideExtended.W - 1]
               [] t = "quad" -> [E |-> Quad.E, F |-> Quad.FH + Quad.V]
               [] t = "wideQuad" -> [E |-> WideQuad.E, F |-> WideQuad.FH + WideQuad.V]
               [] t = "half" -> Half
               [] t = "halfSingle" -> HalfSingle
               [] t = "halfDouble" -> HalfDouble

View(t, a) == IF ~IsExtended(t) THEN a
              ELSE LET p == Format(t)
                       high == a \div 2^(p.F + 1)
                   IN  high * 2^p.F + (a % 2^p.F)

Encode(t, c) == IF ~IsExtended(t) THEN c
                ELSE LET p == Format(t)
                         high == c \div 2^p.F
                     IN  high * 2^(p.F + 1) + Bit(high % 2^p.E # 0) * 2^p.F + (c % 2^p.F)

(* The operands after a squash of the input subnormals, which only the two *)
(* shorter formats do, and the flag it raises.                             *)
Squashes(t) == t \in {"single", "double", "halfSingle", "halfDouble"}
Squashed(t, c) == Squashes(t) /\ call.st.fiz /\ Subnormal(Format(t), c)
Arg(t, a) == LET p == Format(t)
                 c == View(t, a)
             IN  IF Squashed(t, c) THEN Code(p, SignOf(p, c), 0) ELSE c
Arity == CASE call.fn = "muladd" -> 3
           [] call.fn \in ArithFns \cup CompareFns \cup MinMaxFns -> 2
           [] OTHER -> 1
SquashFlags == FlagIf(\E i \in 1..Arity : Squashed(call.t, View(call.t, call.x[i])),
                      "input_denormal")

(* A number rounded to format t with the call's status.  An extended       *)
(* result may be rounded to fewer bits; rounded to all of them it is never *)
(* flushed to zero.                                                        *)
Drop(t, prec) == IF ~IsExtended(t) \/ prec = 80 THEN 0
                 ELSE IF prec = 64 THEN Extended.P64 ELSE Extended.P32

RoundedTo(t, z, prec) ==
    LET p == Format(t)
        k == Drop(t, prec)
        r == Rounded([E |-> p.E, F |-> p.F - k], z,
                     [call.st EXCEPT !.ftz = @ /\ ~(IsExtended(t) /\ k = 0)])
    IN  AddFlags(Raise(r.f, Encode(t, r.v * 2^k)), SquashFlags)

Negated(x) == [x EXCEPT !.s = 1 - @]

Exact(p, fn, x, y) == CASE fn = "add" -> Plus(p, x, y)
                        [] fn = "sub" -> Plus(p, x, Negated(y))
                        [] fn = "mul" -> Times(x, y)
                        [] fn = "div" -> Over(p, x, y)
                        [] fn = "rem" -> Remainder(x, y)
                        [] fn = "sqrt" -> Root(p, x)

Ordinary(t, a) == LET p == Format(t)
                      c == Arg(t, a)
                  IN  Finite(p, c) /\ Mag(p, c) # 0

(* Two operands below the normal numbers are added without rounding, and   *)
(* flushed to zero before their sum is known to be subnormal; a remainder  *)
(* that is an operand is returned as it is, and one that is zero flushed.  *)
(* Flushing is not specified there.                                        *)
FlushUnspecified ==
    call.st.ftz /\ \/ call.fn = "rem"
                   \/ /\ call.fn \in {"add", "sub"}
                      /\ \A i \in 1..2 : LET p == Format(call.t)
                                       IN  Mag(p, View(call.t, call.x[i])) < 2^p.F

(* Arithmetic is exact and rounded once: on finite operands that are not   *)
(* zero, add, sub, mul, div, rem and sqrt of every format return the exact *)
(* result rounded in the direction asked for, with precisely the flags     *)
(* that rounding raises.  In the code the result is reached through        *)
(* estimated quotients and roots, walked down by loops that are skipped    *)
(* when the low bits say that the error cannot matter, and through sticky  *)
(* bits that stand for all that was shifted out.                           *)
ArithmeticRounded ==
    call.fn \in ArithFns \cup {"sqrt"} =>
        LET t == call.t
            p == Format(t)
            x == Number(p, Arg(t, call.x[1]))
            y == Number(p, Arg(t, call.x[Len(call.x)]))
            z == Exact(p, call.fn, x, y)
        IN  /\ \A i \in DOMAIN call.x : Ordinary(t, call.x[i])
            /\ call.fn = "sqrt" => x.s = 0
            /\ z.m # 0
            /\ ~FlushUnspecified
            => ret = RoundedTo(t, z, IF call.fn = "rem" THEN 80 ELSE call.st.prec)

(* The operands that are not numbers, and the results that are zero.  A    *)
(* NaN operand gives a quiet NaN, one of the operands silenced or the      *)
(* default one, and is invalid exactly when one of them is signaling; the  *)
(* operations that have no value are invalid and give the default NaN; x/0 *)
(* alone raises divbyzero; zeros and infinities keep the sign the standard *)
(* gives them, an exact cancellation the one of the rounding direction.    *)
DefaultNaN(t) == LET p == Format(t)
                 IN  Encode(t, Code(p, 1, InfinityMag(p) + QuietBit(p)))
Quieted(p, c) == IF Signaling(p, c) THEN c + QuietBit(p) ELSE c

SomeNaN(t, operands) ==
    LET p == Format(t)
    IN  \E c \in operands : NaN(p, c)

NaNResult(t, operands, r) ==
    LET p == Format(t)
    IN  /\ r.f = FlagIf(\E c \in operands : Signaling(p, c), "invalid") \cup SquashFlags
        /\ IF call.st.dnan THEN r.v = DefaultNaN(t)
           ELSE \E c \in operands : NaN(p, c) /\ r.v = Encode(t, Quieted(p, c))

NoValue(p, fn, a, b) ==
    CASE fn = "add" -> Infinite(p, a) /\ Infinite(p, b) /\ SignOf(p, a) # SignOf(p, b)
      [] fn = "sub" -> Infinite(p, a) /\ Infinite(p, b) /\ SignOf(p, a) = SignOf(p, b)
      [] fn = "mul" -> \/ Infinite(p, a) /\ Mag(p, b) = 0
                       \/ Infinite(p, b) /\ Mag(p, a) = 0
      [] fn = "div" -> \/ Infinite(p, a) /\ Infinite(p, b)
                       \/ Mag(p, a) = 0 /\ Mag(p, b) = 0
      [] fn = "rem" -> Infinite(p, a) \/ Mag(p, b) = 0
      [] fn = "sqrt" -> SignOf(p, a) = 1 /\ Mag(p, a) # 0

(* The magnitude and the sign of a result that is zero or infinite, or the *)
(* operand that is returned.                                               *)
SpecialValue(p, fn, a, b) ==
    LET s == Xor(SignOf(p, a), SignOf(p, b))
        c == IF fn = "sub" THEN Code(p, 1 - SignOf(p, b), Mag(p, b)) ELSE b
        inf == InfinityMag(p)
    IN  CASE fn \in {"add", "sub"} ->
                (CASE Infinite(p, a) -> a
                   [] ~Infinite(p, a) /\ Infinite(p, c) -> c
                   [] OTHER -> Code(p, IF a = c THEN SignOf(p, a)
                                       ELSE Bit(call.st.mode = "down"), 0))
          [] fn = "mul" -> Code(p, s, IF Infinite(p, a) \/ Infinite(p, b) THEN inf ELSE 0)
          [] fn = "div" -> Code(p, s, IF Infinite(p, a) \/ Mag(p, b) = 0 THEN inf ELSE 0)
          [] fn = "rem" -> IF Mag(p, a) = 0 \/ Infinite(p, b) THEN a
                           ELSE Code(p, SignOf(p, a), 0)
          [] fn = "sqrt" -> a

(* Zero, or a sum with one: what an operation with one ordinary operand    *)
(* and one that is not still has to round.                                 *)
OneZero(p, fn, a, b) ==
    /\ fn \in {"add", "sub"}
    /\ Finite(p, a) /\ Finite(p, b)
    /\ (Mag(p, a) = 0) # (Mag(p, b) = 0)

SpecialOperands ==
    call.fn \in ArithFns \cup {"sqrt"} =>
        LET t == call.t
            p == Format(t)
            a == Arg(t, call.x[1])
            b == Arg(t, call.x[Len(call.x)])
            ordinary == \A c \in {a, b} : Finite(p, c) /\ Mag(p, c) # 0
            zero == ordinary /\ Exact(p, call.fn, Number(p, a), Number(p, b)).m = 0
            sum == Number(p, IF Mag(p, a) # 0 THEN a
                             ELSE IF call.fn = "add" THEN b
                             ELSE Code(p, 1 - SignOf(p, b), Mag(p, b)))
        IN  IF SomeNaN(t, {a, b}) THEN NaNResult(t, {a, b}, ret)
            ELSE IF NoValue(p, call.fn, a, b)
            THEN ret = Raise({"invalid"} \cup SquashFlags, DefaultNaN(t))
            ELSE IF OneZero(p, call.fn, a, b)
            THEN FlushUnspecified \/ ret = RoundedTo(t, sum, call.st.prec)
            ELSE (~ordinary \/ zero) /\ ~FlushUnspecified =>
                 ret = Raise(SquashFlags \cup
                                 FlagIf(call.fn = "div" /\ Mag(p, b) = 0 /\ Finite(p, a),
                                        "divbyzero"),
                             Encode(t, SpecialValue(p, call.fn, a, b)))

(* A fused multiply-add rounds once: the product is not rounded before the *)
(* third operand is added, whatever signs are changed, whether the sum is  *)
(* halved, and however far apart the two are.  NaNs, infinities and zeros  *)
(* follow the same rules as in the separate operations.                    *)
FusedRounded ==
    call.fn = "muladd" =>
        LET t == call.t
            p == Format(t)
            a == Arg(t, call.x[1])
            b == Arg(t, call.x[2])
            c0 == Arg(t, call.x[3])
            asked == call.x[4]
            flip == Bit("negate_result" \in asked)
            c == Code(p, Xor(SignOf(p, c0), Bit("negate_c" \in asked)), Mag(p, c0))
            ps == Xor(Xor(SignOf(p, a), SignOf(p, b)), Bit("negate_product" \in asked))
            pInf == Infinite(p, a) \/ Infinite(p, b)
            pZero == Mag(p, a) = 0 \/ Mag(p, b) = 0
            product == [Times(Number(p, a), Number(p, b)) EXCEPT !.s = ps]
            sum == IF pZero THEN Number(p, c)
                   ELSE IF Mag(p, c) = 0 THEN product
                   ELSE Plus(p, product, Number(p, c))
            down == Bit(call.st.mode = "down")
            zero == IF pZero /\ Mag(p, c) = 0 /\ ps = SignOf(p, c) THEN ps ELSE down
            final == [sum EXCEPT !.s = Xor(@, flip), !.e = @ - Bit("halve" \in asked)]
        IN  IF SomeNaN(t, {a, b, c0}) THEN NaNResult(t, {a, b, c0}, ret)
            ELSE IF \/ pInf /\ pZero
                    \/ pInf /\ Infinite(p, c) /\ ps # SignOf(p, c)
            THEN ret = Raise({"invalid"} \cup SquashFlags, DefaultNaN(t))
            ELSE IF pInf \/ Infinite(p, c)
            THEN ret = Raise(SquashFlags,
                             Code(p, Xor(flip, IF pInf THEN ps ELSE SignOf(p, c)),
                                  InfinityMag(p)))
            ELSE IF sum.m = 0 THEN ret = Raise(SquashFlags, Code(p, Xor(flip, zero), 0))
            ELSE ret = RoundedTo(t, final, 80)

(* Comparisons order the numbers: the relation of two encodings is that of *)
(* the numbers they stand for, with the zeros equal and NaNs unordered, in *)
(* every format, for the predicates and the three-way relation alike; the  *)
(* quiet forms are invalid for signaling NaNs only.  A minimum or maximum  *)
(* is the operand no other is below or above, by magnitude first when      *)
(* asked, a quiet NaN counting as missing in the IEEE forms.               *)
Order(p, c) == IF SignOf(p, c) = 1 THEN -Mag(p, c) ELSE Mag(p, c)

Related(fn, x, y) == CASE fn = "eq" -> x = y
                       [] fn = "le" -> x <= y
                       [] fn = "lt" -> x < y
                       [] fn = "unordered" -> FALSE
                       [] fn = "compare" -> IF x < y THEN -1 ELSE Bit(x > y)

Unrelated(fn) == CASE fn = "unordered" -> TRUE
                   [] fn = "compare" -> 2
                   [] OTHER -> FALSE

Least(p, isMin, mag, c, d) ==
    LET x == IF isMin THEN Order(p, c) ELSE -Order(p, c)
        y == IF isMin THEN Order(p, d) ELSE -Order(p, d)
        xMag == IF isMin THEN Mag(p, c) ELSE -Mag(p, c)
        yMag == IF isMin THEN Mag(p, d) ELSE -Mag(p, d)
    IN  IF mag /\ xMag # yMag THEN xMag < yMag
        ELSE x < y \/ (x = y /\ (c = d \/ (SignOf(p, c) = 1) = isMin))

ComparesOrder ==
    call.fn \in CompareFns \cup MinMaxFns =>
        LET t == call.t
            p == Format(t)
            a == Arg(t, call.x[1])
            b == Arg(t, call.x[2])
            quiet == \A c \in {a, b} : ~Signaling(p, c)
            isMin == call.fn \in {"min", "minnum", "minnummag"}
            mag == call.fn \in {"minnummag", "maxnummag"}
            absent == {c \in {a, b} : NaN(p, c)}
        IN  IF call.fn \in CompareFns
            THEN ret = Raise(SquashFlags \cup FlagIf(absent # {} /\ ~(quiet /\ call.x[3]),
                                                    "invalid"),
                             IF absent # {} THEN Unrelated(call.fn)
                             ELSE Related(call.fn, Order(p, a), Order(p, b)))
            ELSE IF absent = {}
            THEN /\ ret.f = SquashFlags
                 /\ ret.v \in {a, b}
                 /\ \A c \in {a, b} : Least(p, isMin, mag, ret.v, c)
            ELSE IF absent # {a, b} /\ quiet /\ call.fn \notin {"min", "max"}
            THEN ret = Raise(SquashFlags, CHOOSE c \in {a, b} : c \notin absent)
            ELSE NaNResult(t, {a, b}, ret)

(* Integers are the nearest ones: a conversion to an integer rounds in the *)
(* direction asked for, or truncates, saturates with invalid alone outside *)
(* the target's range, where NaNs count as positive, and is inexact        *)
(* exactly when something is lost; an integer converted to a format is     *)
(* itself, rounded once; and a value rounded to an integral one keeps its  *)
(* sign and its format.  Two conversions are excepted, where the code and  *)
(* the repository's words for it disagree: nothing is said of the numbers  *)
(* uint64_to_float128 makes, which leaves its argument in the upper word   *)
(* of the significand, nor of the flags of a negative single or double     *)
(* that a 64-bit unsigned integer cannot hold, for which the comments of   *)
(* softfloat.c:1588, 1634 and 7039 have inexact and the code invalid.      *)
Truncating == {"int16z", "uint16z", "int32z", "uint32z", "int64z", "uint64z"}
TargetBits(to) == CASE to \in {"int16", "int16z", "uint16", "uint16z"} -> I16
                    [] to \in {"int32", "int32z", "uint32", "uint32z"} -> I32
                    [] OTHER -> I64
TargetLow(to) == IF to \in {"int16", "int16z"} \cup SignedTargets
                 THEN -(2^(TargetBits(to) - 1)) ELSE 0
TargetHigh(to) == TargetLow(to) + 2^TargetBits(to) - 1

Integral(t, c, mode) ==
    LET p == Format(t)
        x == Number(p, c)
        r == OnGrid(x, 0, mode)
    IN  IF x.e >= 0 \/ Mag(p, c) = 0 THEN Raise({}, c)
        ELSE Raise(FlagIf(~r.exact, "inexact"),
                   IF r.n = 0 THEN Code(p, x.s, 0)
                   ELSE Rounded(p, [x EXCEPT !.m = r.n, !.e = 0], Default).v)

ScaleUnspecified == call.fn = "of_uint64" /\ call.t = "wideQuad" /\ call.x[1] # 0
FlagsUnspecified(p, c, flags) ==
    call.fn \in {"uint64", "uint64z"} /\ SignOf(p, c) = 1 /\ ~NaN(p, c) /\ "invalid" \in flags

IntegersRounded ==
    /\ call.fn \in IntTargets =>
        LET t == call.t
            p == Format(t)
            raw == t \in {"single", "double"} /\ call.fn = "int16z"
            c == IF raw THEN call.x[1] ELSE Arg(t, call.x[1])
            low == TargetLow(call.fn)
            high == TargetHigh(call.fn)
            mode == IF call.fn \in Truncating THEN "zero" ELSE call.st.mode
            r == IF Finite(p, c) THEN AsInteger(Number(p, c), low, high, mode)
                 ELSE Raise({"invalid"},
                            IF Infinite(p, c) /\ SignOf(p, c) = 1 THEN low ELSE high)
        IN  IF FlagsUnspecified(p, c, r.f) THEN ret.v = r.v
            ELSE ret = AddFlags(r, IF raw THEN {} ELSE SquashFlags)
    /\ call.fn \in {"of_int32", "of_uint32", "of_int64", "of_uint64"} /\ ~ScaleUnspecified =>
        ret = IF call.x[1] = 0 THEN Raise({}, 0) ELSE RoundedTo(call.t, OfInteger(call.x[1]), 80)
    /\ call.fn \in {"rint", "trunc"} =>
        LET t == call.t
            p == Format(t)
            c == Arg(t, call.x[1])
            r == Integral(t, c, IF call.fn = "trunc" THEN "zero" ELSE call.st.mode)
        IN  IF NaN(p, c) THEN NaNResult(t, {c}, ret)
            ELSE ret = IF Infinite(p, c) THEN Raise({}, call.x[1])
                       ELSE AddFlags(Raise(r.f, Encode(t, r.v)), SquashFlags)

(* Conversions between formats and scalings keep the value: a number comes *)
(* out rounded once into the new format, exact whenever the new format is  *)
(* the wider one; a NaN stays a NaN, with its sign and as much of its      *)
(* fraction as fits, and never becomes an infinity when nothing of the     *)
(* fraction fits; halves are right in both of their encodings.  Of a       *)
(* directed rounding to a half beyond the halves' range nothing is said.   *)
Converted(from, to, c) ==
    LET p == Format(from)
        q == Format(to)
        f == c % 2^p.F
        g == IF q.F >= p.F THEN f * 2^(q.F - p.F) ELSE f \div 2^(p.F - q.F)
    IN  IF NaN(p, c)
        THEN Raise(FlagIf(Signaling(p, c), "invalid"),
                   IF call.st.dnan \/ g = 0 THEN DefaultNaN(to)
                   ELSE Encode(to, Code(q, SignOf(p, c), InfinityMag(q) + g)))
        ELSE IF Infinite(p, c) THEN Raise({}, Encode(to, Code(q, SignOf(p, c), InfinityMag(q))))
        ELSE IF Mag(p, c) = 0 THEN Raise(SquashFlags, Encode(to, Code(q, SignOf(p, c), 0)))
        ELSE IF q.E >= p.E /\ q.F >= p.F
        THEN Raise(SquashFlags, Encode(to, Rounded(q, Number(p, c), Default).v))
        ELSE RoundedTo(to, Number(p, c), 80)

(* Halves are never flushed, and the alternative ones have no infinities.  *)
LargestHalf(s) == Code(Half, s, 2^(Half.E + Half.F) - 1)

ToHalf(from, c, ieee) ==
    LET p == Format(from)
        s == SignOf(p, c)
        r == Placed(Half, Number(p, c), call.st)
    IN  IF Mag(p, c) = 0 THEN Raise(SquashFlags, Code(Half, s, 0))
        ELSE IF ieee /\ ~Finite(p, c) THEN Converted(from, "half", c)
        ELSE IF ieee
        THEN AddFlags(Rounded(Half, Number(p, c), [call.st EXCEPT !.ftz = FALSE]), SquashFlags)
        ELSE IF NaN(p, c) THEN Raise({"invalid"}, Code(Half, s, 0))
        ELSE IF Infinite(p, c) \/ r.mag >= 2^(Half.E + Half.F)
        THEN Raise({"invalid"}, LargestHalf(s))
        ELSE AddFlags(Raise(InexactFlags(r), Code(Half, s, r.mag)), SquashFlags)

HalfUnspecified(from, c) ==
    LET p == Format(from)
        top == TopExp(Number(p, c))
    IN  /\ call.st.mode \notin {"even", "away"}
        /\ Finite(p, c) /\ Mag(p, c) # 0
        /\ top < LeastQuantum(Half) - 1 \/ top > Bias(Half)
           \/ Placed(Half, Number(p, c), call.st).mag >= InfinityMag(Half)

ConversionsRounded ==
    /\ call.fn = "convert" =>
        ret = Converted(call.t, call.x[2], Arg(call.t, call.x[1]))
    /\ call.fn = "convert_half" =>
        LET c == Arg(call.t, call.x[1])
            ieee == call.x[3]
        IN  IF call.t # "half" THEN HalfUnspecified(call.t, c) \/ ret = ToHalf(call.t, c, ieee)
            ELSE ret = IF ieee \/ Mag(Half, c) = 0 THEN Converted("half", call.x[2], c)
                       ELSE Rounded(Format(call.x[2]), Number(Half, c), Default)
    /\ call.fn = "scalbn" =>
        LET t == call.t
            p == Format(t)
            c == Arg(t, call.x[1])
            x == Number(p, c)
        IN  IF NaN(p, c) THEN NaNResult(t, {c}, ret)
            ELSE ret = IF Infinite(p, c) \/ Mag(p, c) = 0 THEN Raise(SquashFlags, Encode(t, c))
                       ELSE RoundedTo(t, [x EXCEPT !.e = @ + call.x[2]], call.st.prec)

(* The multi-word operations of softfloat-macros.h compute, a word at a    *)
(* time, what the rest of the model takes them to compute on the whole     *)
(* number: no carry, borrow or bit shifted from one word to the next is    *)
(* lost, and the estimated quotient is the one of EstimateDiv.             *)
Number1(ws) == IF Len(ws) = 0 THEN 0
               ELSE IF Len(ws) = 1 THEN ws[1]
               ELSE IF Len(ws) = 2 THEN M!Pair(ws)
               ELSE IF Len(ws) = 3 THEN M!Triple(ws)
               ELSE M!Triple(ws) * 2^WordBits + ws[4]

WordsExact == call.fn \in {"shift", "combine"} =>
    LET w == WordBits
        a == call.x[1]
        pair == M!Pair(a)
        triple == M!Triple(a)
    IN  /\ call.fn = "shift" =>
            LET n == call.x[2]
                extra1 == ExtraRightJam(a[1], a[2], n, w, w)
                extra2 == ExtraRightJam(pair, a[3], n, 2 * w, w)
            IN  Number1(ret.v) =
                  CASE call.t = "jam64" -> Jam(a[1], n, w)
                    [] call.t = "extra64" -> extra1.a * 2^w + extra1.x
                    [] call.t = "right128" -> ShiftRight(pair, n, 2 * w)
                    [] call.t = "jam128" -> Jam(pair, n, 2 * w)
                    [] call.t = "extra128" -> extra2.a * 2^w + extra2.x
                    [] call.t = "left128" -> ShiftLeft(pair, n, 2 * w)
                    [] call.t = "left192" -> ShiftLeft(triple, n, 3 * w)
        /\ call.fn = "combine" =>
            LET b == call.x[2]
            IN  IF call.t = "order128"
                THEN ret.v = <<pair <= M!Pair(b), pair < M!Pair(b)>>
                ELSE Number1(ret.v) =
                  CASE call.t = "add128" -> (pair + M!Pair(b)) % 2^(2 * w)
                    [] call.t = "sub128" -> (pair - M!Pair(b)) % 2^(2 * w)
                    [] call.t = "add192" -> (triple + M!Triple(b)) % 2^(3 * w)
                    [] call.t = "sub192" -> (triple - M!Triple(b)) % 2^(3 * w)
                    [] call.t = "mul64" -> a[1] * b[1]
                    [] call.t = "mul128By64" -> pair * b[1]
                    [] call.t = "mul128" -> pair * M!Pair(b)
                    [] call.t = "div128" -> EstimateDiv(a[1], a[2], b[1], w)
=============================================================================
