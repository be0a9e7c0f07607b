----------------------------- MODULE SoftFloat -----------------------------
(***************************************************************************)
(* A caller of softfloat.c: it makes one call at a time, with any          *)
(* arguments and any status.  Module SoftFloatSpec compares what comes     *)
(* back, value and flags, with the exact result rounded once.              *)
(*                                                                         *)
(* The widths of the formats are constants.  Each format has an instance   *)
(* of its module; the extended and the quadruple ones have two, because    *)
(* conversions need words as wide as float64's while division and square   *)
(* root multiply words and have to stay within what TLC computes.          *)
(***************************************************************************)
EXTENDS FloatBase, Sequences

CONSTANTS Single, Double, Extended, Quad,       \* for arithmetic
          WideExtended, WideQuad,               \* for conversions
          Half, HalfSingle, HalfDouble,         \* for half precision
          I16, I32, I64, IG,                    \* the integers
          WordBits,                             \* the words of module Words
          Formats, Statuses, Scales,
          Args, Seconds,                        \* first and second operands
          Third, Flagged,                       \* operands and flags of muladd
          Units, Edges,                         \* operands of conversions
          Integers64, EdgeWords                 \* integers, and words of module Words

C == INSTANCE FloatConvert WITH Extended <- WideExtended, Quad <- WideQuad
H == INSTANCE Float16 WITH Single <- HalfSingle, Double <- HalfDouble
S == INSTANCE Float32 WITH E <- Single.E, F <- Single.F, G <- Single.G
D == INSTANCE Float64 WITH E <- Double.E, F <- Double.F, G <- Double.G
X == INSTANCE FloatX80 WITH E <- Extended.E, W <- Extended.W, P64 <- Extended.P64,
                            P32 <- Extended.P32, I64 <- Extended.W
Q == INSTANCE Float128 WITH E <- Quad.E, FH <- Quad.FH, V <- Quad.V, I64 <- Quad.V
M == INSTANCE Words WITH W <- WordBits

VARIABLES call,     \* the call that has been made: function, format, arguments, status
          ret       \* what it returned: value and flags raised

vars == <<call, ret>>

Idle == [fn |-> "idle"]
Nothing == Raise({}, 0)
Default == [mode |-> "even", tinyBefore |-> FALSE, ftz |-> FALSE, fiz |-> FALSE,
            dnan |-> FALSE, prec |-> 80]

Init == call = Idle /\ ret = Nothing

Returns(fn, t, x, st, r) == /\ call' = [fn |-> fn, t |-> t, x |-> x, st |-> st]
                            /\ ret' = r

Return == /\ call # Idle
          /\ call' = Idle
          /\ ret' = Nothing

----------------------------------------------------------------------------
(* Arithmetic.                                                             *)
ArithFns == {"add", "sub", "mul", "div", "rem"}

Arith(t, fn, a, b, st) ==
    CASE t = "single" -> (CASE fn = "add" -> S!float32_add(a, b, st)
                            [] fn = "sub" -> S!float32_sub(a, b, st)
                            [] fn = "mul" -> S!float32_mul(a, b, st)
                            [] fn = "div" -> S!float32_div(a, b, st)
                            [] fn = "rem" -> S!float32_rem(a, b, st))
      [] t = "double" -> (CASE fn = "add" -> D!float64_add(a, b, st)
                            [] fn = "sub" -> D!float64_sub(a, b, st)
                            [] fn = "mul" -> D!float64_mul(a, b, st)
                            [] fn = "div" -> D!float64_div(a, b, st)
                            [] fn = "rem" -> D!float64_rem(a, b, st))
      [] t = "extended" -> (CASE fn = "add" -> X!floatx80_add(a, b, st)
                              [] fn = "sub" -> X!floatx80_sub(a, b, st)
                              [] fn = "mul" -> X!floatx80_mul(a, b, st)
                              [] fn = "div" -> X!floatx80_div(a, b, st)
                              [] fn = "rem" -> X!floatx80_rem(a, b, st))
      [] t = "quad" -> (CASE fn = "add" -> Q!float128_add(a, b, st)
                          [] fn = "sub" -> Q!float128_sub(a, b, st)
                          [] fn = "mul" -> Q!float128_mul(a, b, st)
                          [] fn = "div" -> Q!float128_div(a, b, st)
                          [] fn = "rem" -> Q!float128_rem(a, b, st))

CallArith ==
    /\ call = Idle
    /\ \E t \in Formats, fn \in ArithFns :
        \E a \in Args[t], b \in Seconds[t], st \in Statuses[t] :
            Returns(fn, t, <<a, b>>, st, Arith(t, fn, a, b, st))

(* A square root starts from any estimate estimateSqrt32 may return.       *)
Sqrt(t, a, est, st) == CASE t = "single" -> S!float32_sqrt(a, est, st)
                         [] t = "double" -> D!float64_sqrt(a, est, st)
                         [] t = "extended" -> X!floatx80_sqrt(a, est, st)
                         [] t = "quad" -> Q!float128_sqrt(a, est, st)

Estimates(t, a) ==
    LET x == CASE t = "single" -> S!SqrtArgument(a)
               [] t = "double" -> D!SqrtArgument(a)
               [] t = "extended" -> X!SqrtArgument(a)
               [] t = "quad" -> Q!SqrtArgument(a)
        w == CASE t = "single" -> S!W
               [] t = "double" -> D!W \div 2
               [] t = "extended" -> Extended.W \div 2
               [] t = "quad" -> Quad.V \div 2
    IN  SqrtEstimates(x.exp, x.sig, w)

CallSqrt ==
    /\ call = Idle
    /\ \E t \in Formats :
        \E a \in Args[t], st \in Statuses[t] :
            \E est \in Estimates(t, a) :
                Returns("sqrt", t, <<a>>, st, Sqrt(t, a, est, st))

(* a * b + c with one rounding, the signs changed and the result halved as *)
(* the flags ask: negate_c, negate_product, negate_result and halve.       *)
ASSUME FlaggedAssumption ==
    Flagged \subseteq SUBSET {"negate_c", "negate_product", "negate_result", "halve"}

MulAdd(t, a, b, c, flags, st) ==
    CASE t = "single" -> S!float32_muladd(a, b, c, flags, st)
      [] t = "double" -> D!float64_muladd(a, b, c, flags, st)

CallMulAdd ==
    /\ call = Idle
    /\ \E t \in DOMAIN Third :
        \E a, b, c \in Third[t], flags \in Flagged, st \in Statuses[t] :
            Returns("muladd", t, <<a, b, c, flags>>, st, MulAdd(t, a, b, c, flags, st))

----------------------------------------------------------------------------
(* Relations.                                                              *)
CompareFns == {"eq", "le", "lt", "unordered", "compare"}

Relation(t, fn, a, b, quiet, st) ==
    CASE t = "single" ->
            (CASE fn = "eq" -> IF quiet THEN S!float32_eq_quiet(a, b, st)
                               ELSE S!float32_eq(a, b, st)
               [] fn = "le" -> IF quiet THEN S!float32_le_quiet(a, b, st)
                               ELSE S!float32_le(a, b, st)
               [] fn = "lt" -> IF quiet THEN S!float32_lt_quiet(a, b, st)
                               ELSE S!float32_lt(a, b, st)
               [] fn = "unordered" -> IF quiet THEN S!float32_unordered_quiet(a, b, st)
                                      ELSE S!float32_unordered(a, b, st)
               [] fn = "compare" -> IF quiet THEN S!float32_compare_quiet(a, b, st)
                                    ELSE S!float32_compare(a, b, st))
      [] t = "double" ->
            (CASE fn = "eq" -> IF quiet THEN D!float64_eq_quiet(a, b, st)
                               ELSE D!float64_eq(a, b, st)
               [] fn = "le" -> IF quiet THEN D!float64_le_quiet(a, b, st)
                               ELSE D!float64_le(a, b, st)
               [] fn = "lt" -> IF quiet THEN D!float64_lt_quiet(a, b, st)
                               ELSE D!float64_lt(a, b, st)
               [] fn = "unordered" -> IF quiet THEN D!float64_unordered_quiet(a, b, st)
                                      ELSE D!float64_unordered(a, b, st)
               [] fn = "compare" -> IF quiet THEN D!float64_compare_quiet(a, b, st)
                                    ELSE D!float64_compare(a, b, st))
      [] t = "extended" ->
            (CASE fn = "eq" -> IF quiet THEN X!floatx80_eq_quiet(a, b, st)
                               ELSE X!floatx80_eq(a, b, st)
               [] fn = "le" -> IF quiet THEN X!floatx80_le_quiet(a, b, st)
                               ELSE X!floatx80_le(a, b, st)
               [] fn = "lt" -> IF quiet THEN X!floatx80_lt_quiet(a, b, st)
                               ELSE X!floatx80_lt(a, b, st)
               [] fn = "unordered" -> IF quiet THEN X!floatx80_unordered_quiet(a, b, st)
                                      ELSE X!floatx80_unordered(a, b, st)
               [] fn = "compare" -> X!floatx80_compare_internal(a, b, quiet, st))
      [] t = "quad" ->
            (CASE fn = "eq" -> IF quiet THEN Q!float128_eq_quiet(a, b, st)
                               ELSE Q!float128_eq(a, b, st)
               [] fn = "le" -> IF quiet THEN Q!float128_le_quiet(a, b, st)
                               ELSE Q!float128_le(a, b, st)
               [] fn = "lt" -> IF quiet THEN Q!float128_lt_quiet(a, b, st)
                               ELSE Q!float128_lt(a, b, st)
               [] fn = "unordered" -> IF quiet THEN Q!float128_unordered_quiet(a, b, st)
                                      ELSE Q!float128_unordered(a, b, st)
               [] fn = "compare" -> Q!float128_compare_internal(a, b, quiet, st))

CallCompare ==
    /\ call = Idle
    /\ \E t \in Formats, fn \in CompareFns, quiet \in BOOLEAN :
        \E a \in Args[t], b \in Seconds[t], fiz \in BOOLEAN :
            LET st == [Default EXCEPT !.fiz = fiz]
            IN  Returns(fn, t, <<a, b, quiet>>, st, Relation(t, fn, a, b, quiet, st))

MinMaxFns == {"min", "max", "minnum", "maxnum", "minnummag", "maxnummag"}

MinMax(t, fn, a, b, st) ==
    LET isMin == fn \in {"min", "minnum", "minnummag"}
        ieee == fn \notin {"min", "max"}
        mag == fn \in {"minnummag", "maxnummag"}
    IN  CASE t = "single" -> S!float32_minmax(a, b, isMin, ieee, mag, st)
          [] t = "double" -> D!float64_minmax(a, b, isMin, ieee, mag, st)

CallMinMax ==
    /\ call = Idle
    /\ \E t \in Formats \cap {"single", "double"}, fn \in MinMaxFns :
        \E a \in Args[t], b \in Seconds[t], fiz, dnan \in BOOLEAN :
            LET st == [Default EXCEPT !.fiz = fiz, !.dnan = dnan]
            IN  Returns(fn, t, <<a, b>>, st, MinMax(t, fn, a, b, st))

----------------------------------------------------------------------------
(* Rounding to an integral value, and scaling by a power of two.           *)
RoundToInt(t, a, st) == CASE t = "single" -> S!float32_round_to_int(a, st)
                          [] t = "double" -> D!float64_round_to_int(a, st)
                          [] t = "extended" -> X!floatx80_round_to_int(a, st)
                          [] t = "quad" -> Q!float128_round_to_int(a, st)

Scalbn(t, a, n, st) == CASE t = "single" -> S!float32_scalbn(a, n, st)
                         [] t = "double" -> D!float64_scalbn(a, n, st)
                         [] t = "extended" -> X!floatx80_scalbn(a, n, st)
                         [] t = "quad" -> Q!float128_scalbn(a, n, st)

CallRoundToInt ==
    /\ call = Idle
    /\ \E t \in Formats :
        \E a \in Units[t], st \in Statuses[t] :
            Returns("rint", t, <<a>>, st, RoundToInt(t, a, st))

CallTrunc ==
    /\ call = Idle
    /\ \E a \in Units["double"], st \in Statuses["double"] :
        Returns("trunc", "double", <<a>>, st, D!float64_trunc_to_int(a, st))

CallScalbn ==
    /\ call = Idle
    /\ \E t \in Formats :
        \E a \in Args[t], n \in Scales, st \in Statuses[t] :
            Returns("scalbn", t, <<a, n>>, st, Scalbn(t, a, n, st))

----------------------------------------------------------------------------
(* To integers and from them.  A target ending in z truncates.             *)
SmallFloat32(to, a, st) ==
    CASE to = "int16" -> S!float32_to_int16(a, st)
      [] to = "int16z" -> S!float32_to_int16_round_to_zero(a, st)
      [] to = "uint16" -> S!float32_to_uint16(a, st)
      [] to = "uint16z" -> S!float32_to_uint16_round_to_zero(a, st)
      [] to = "int32" -> S!float32_to_int32(a, st)
      [] to = "int32z" -> S!float32_to_int32_round_to_zero(a, st)
      [] to = "uint32" -> S!float32_to_uint32(a, st)
      [] to = "uint32z" -> S!float32_to_uint32_round_to_zero(a, st)
      [] to = "int64" -> S!float32_to_int64(a, st)
      [] to = "int64z" -> S!float32_to_int64_round_to_zero(a, st)
      [] to = "uint64" -> S!float32_to_uint64(a, st)
      [] to = "uint64z" -> S!float32_to_uint64_round_to_zero(a, st)

SmallFloat64(to, a, st) ==
    CASE to = "int16" -> D!float64_to_int16(a, st)
      [] to = "int16z" -> D!float64_to_int16_round_to_zero(a, st)
      [] to = "uint16" -> D!float64_to_uint16(a, st)
      [] to = "uint16z" -> D!float64_to_uint16_round_to_zero(a, st)
      [] to = "int32" -> D!float64_to_int32(a, st)
      [] to = "int32z" -> D!float64_to_int32_round_to_zero(a, st)
      [] to = "uint32" -> D!float64_to_uint32(a, st)
      [] to = "uint32z" -> D!float64_to_uint32_round_to_zero(a, st)
      [] to = "int64" -> D!float64_to_int64(a, st)
      [] to = "int64z" -> D!float64_to_int64_round_to_zero(a, st)
      [] to = "uint64" -> D!float64_to_uint64(a, st)
      [] to = "uint64z" -> D!float64_to_uint64_round_to_zero(a, st)

SignedTargets == {"int32", "int32z", "int64", "int64z"}
IntTargets == SignedTargets \cup {"int16", "int16z", "uint16", "uint16z",
                                  "uint32", "uint32z", "uint64", "uint64z"}

ToInteger(t, to, a, st) ==
    CASE t = "single" -> SmallFloat32(to, a, st)
      [] t = "double" -> SmallFloat64(to, a, st)
      [] t = "wideExtended" ->
            (CASE to = "int32" -> C!X!floatx80_to_int32(a, st)
               [] to = "int32z" -> C!X!floatx80_to_int32_round_to_zero(a, st)
               [] to = "int64" -> C!X!floatx80_to_int64(a, st)
               [] to = "int64z" -> C!X!floatx80_to_int64_round_to_zero(a, st))
      [] t = "wideQuad" ->
            (CASE to = "int32" -> C!Q!float128_to_int32(a, st)
               [] to = "int32z" -> C!Q!float128_to_int32_round_to_zero(a, st)
               [] to = "int64" -> C!Q!float128_to_int64(a, st)
               [] to = "int64z" -> C!Q!float128_to_int64_round_to_zero(a, st))

Wide == {"single", "double", "wideExtended", "wideQuad"}

CallToInteger ==
    /\ call = Idle
    /\ \E t \in Wide, to \in IntTargets :
        /\ t \in {"single", "double"} \/ to \in SignedTargets
        /\ \E a \in Units[t], st \in Statuses["single"] :
              Returns(to, t, <<a>>, st, ToInteger(t, to, a, st))

FromInteger(t, from, n, st) ==
    CASE t = "single" -> (CASE from = "of_int32" -> S!int32_to_float32(n, st)
                            [] from = "of_uint32" -> S!uint32_to_float32(n, st)
                            [] from = "of_int64" -> S!int64_to_float32(n, st)
                            [] from = "of_uint64" -> S!uint64_to_float32(n, st))
      [] t = "double" -> (CASE from = "of_int32" -> D!int32_to_float64(n, st)
                            [] from = "of_uint32" -> D!uint32_to_float64(n, st)
                            [] from = "of_int64" -> D!int64_to_float64(n, st)
                            [] from = "of_uint64" -> D!uint64_to_float64(n, st))
      [] t = "wideExtended" -> (CASE from = "of_int32" -> C!X!int32_to_floatx80(n, st)
                                  [] from = "of_int64" -> C!X!int64_to_floatx80(n, st))
      [] t = "wideQuad" -> (CASE from = "of_int32" -> C!Q!int32_to_float128(n, st)
                              [] from = "of_int64" -> C!Q!int64_to_float128(n, st)
                              [] from = "of_uint64" -> C!Q!uint64_to_float128(n, st))

IntRange(from) == CASE from = "of_int32" -> -(2^(I32 - 1)) .. (2^(I32 - 1) - 1)
                    [] from = "of_uint32" -> 0 .. (2^I32 - 1)
                    [] from = "of_int64" -> -(2^(I64 - 1)) .. (2^(I64 - 1) - 1)
                    [] from = "of_uint64" -> 0 .. (2^I64 - 1)

CallFromInteger ==
    /\ call = Idle
    /\ \E t \in Wide, from \in {"of_int32", "of_uint32", "of_int64", "of_uint64"} :
        /\ t = "wideExtended" => from \in {"of_int32", "of_int64"}
        /\ t = "wideQuad" => from # "of_uint32"
        /\ \E n \in IntRange(from) \cap Integers64, mode \in RoundingModes :
              LET st == [Default EXCEPT !.mode = mode]
              IN  Returns(from, t, <<n>>, st, FromInteger(t, from, n, st))

----------------------------------------------------------------------------
(* Between formats.                                                        *)
Convert(from, to, a, st) ==
    CASE from = "single" ->
            (CASE to = "double" -> C!float32_to_float64(a, st)
               [] to = "wideExtended" -> C!float32_to_floatx80(a, st)
               [] to = "wideQuad" -> C!float32_to_float128(a, st))
      [] from = "double" ->
            (CASE to = "single" -> C!float64_to_float32(a, st)
               [] to = "wideExtended" -> C!float64_to_floatx80(a, st)
               [] to = "wideQuad" -> C!float64_to_float128(a, st))
      [] from = "wideExtended" ->
            (CASE to = "single" -> C!floatx80_to_float32(a, st)
               [] to = "double" -> C!floatx80_to_float64(a, st)
               [] to = "wideQuad" -> C!floatx80_to_float128(a, st))
      [] from = "wideQuad" ->
            (CASE to = "single" -> C!float128_to_float32(a, st)
               [] to = "double" -> C!float128_to_float64(a, st)
               [] to = "wideExtended" -> C!float128_to_floatx80(a, st))

CallConvert ==
    /\ call = Idle
    /\ \E from, to \in Wide :
        /\ from # to
        /\ \E a \in Edges[from], st \in Statuses["single"] :
              Returns("convert", from, <<a, to>>, st, Convert(from, to, a, st))

ConvertHalf(from, to, a, ieee, st) ==
    CASE to = "halfSingle" -> H!float16_to_float32(a, ieee, st)
      [] to = "halfDouble" -> H!float16_to_float64(a, ieee, st)
      [] from = "halfSingle" -> H!float32_to_float16(a, ieee, st)
      [] from = "halfDouble" -> H!float64_to_float16(a, ieee, st)

CallConvertHalf ==
    /\ call = Idle
    /\ \E wide \in {"halfSingle", "halfDouble"}, up, ieee \in BOOLEAN :
        LET from == IF up THEN "half" ELSE wide
            to == IF up THEN wide ELSE "half"
        IN  \E a \in Edges[from], st \in Statuses["single"] :
                Returns("convert_half", from, <<a, to, ieee>>, st,
                        ConvertHalf(from, to, a, ieee, st))

----------------------------------------------------------------------------
(* The multi-word operations, called by themselves on single, double and   *)
(* triple words.                                                           *)
Words == EdgeWords
Counts == 0 .. (3 * WordBits)

Shifted(op, a, n) ==
    CASE op = "jam64" -> <<M!shift64RightJamming(a[1], n)>>
      [] op = "extra64" -> M!shift64ExtraRightJamming(a[1], a[2], n)
      [] op = "right128" -> M!shift128Right(a[1], a[2], n)
      [] op = "jam128" -> M!shift128RightJamming(a[1], a[2], n)
      [] op = "extra128" -> M!shift128ExtraRightJamming(a[1], a[2], a[3], n)
      [] op = "left128" -> M!shortShift128Left(a[1], a[2], n)
      [] op = "left192" -> M!shortShift192Left(a[1], a[2], a[3], n)

CallShift ==
    /\ call = Idle
    /\ \E op \in {"jam64", "extra64", "right128", "jam128", "extra128",
                  "left128", "left192"} :
        \E a \in Words \X Words \X Words, n \in Counts :
            /\ op \in {"left128", "left192"} => n < WordBits
            /\ Returns("shift", op, <<a, n>>, Default, Raise({}, Shifted(op, a, n)))

Combined(op, a, b) ==
    CASE op = "add128" -> M!add128(a[1], a[2], b[1], b[2])
      [] op = "sub128" -> M!sub128(a[1], a[2], b[1], b[2])
      [] op = "add192" -> M!add192(a, b)
      [] op = "sub192" -> M!sub192(a, b)
      [] op = "mul64" -> M!mul64To128(a[1], b[1])
      [] op = "mul128By64" -> M!mul128By64To192(a[1], a[2], b[1])
      [] op = "mul128" -> M!mul128To256(a[1], a[2], b[1], b[2])
      [] op = "order128" -> <<M!le128(a[1], a[2], b[1], b[2]),
                              M!lt128(a[1], a[2], b[1], b[2])>>
      [] op = "div128" -> <<M!estimateDiv128To64(a[1], a[2], b[1])>>

CombineOps == {"add128", "sub128", "add192", "sub192", "mul64", "mul128By64", "mul128",
               "order128", "div128"}

CallCombine ==
    /\ call = Idle
    /\ \E op \in CombineOps, a, b \in Words \X Words \X Words :
        /\ op = "div128" => b[1] >= 2^(WordBits - 1)
        /\ Returns("combine", op, <<a, b>>, Default, Raise({}, Combined(op, a, b)))

Next == \/ CallShift \/ CallCombine
        \/ CallConvert \/ CallConvertHalf \/ CallToInteger \/ CallFromInteger
        \/ CallCompare \/ CallArith \/ CallSqrt \/ CallMulAdd \/ CallMinMax
        \/ CallRoundToInt \/ CallTrunc \/ CallScalbn \/ Return

Spec == Init /\ [][Next]_vars
=============================================================================
