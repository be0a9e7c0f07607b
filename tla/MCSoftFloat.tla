---------------------------- MODULE MCSoftFloat ----------------------------
(* Formats of a few bits: the narrow ones are enumerated at their edges,     *)
(* every width is as large as TLC's 32-bit integers allow in the products.   *)
EXTENDS SoftFloatSpec

MCSingle == [E |-> 5, F |-> 2, G |-> 3]
MCDouble == [E |-> 6, F |-> 6, G |-> 4]
MCExtended == [E |-> 7, W |-> 8, P64 |-> 2, P32 |-> 4]
MCQuad == [E |-> 7, FH |-> 1, V |-> 8]
MCWideExtended == [E |-> 7, W |-> 12, P64 |-> 2, P32 |-> 4]
MCWideQuad == [E |-> 7, FH |-> 7, V |-> 12]
MCHalf == [E |-> 3, F |-> 3]
MCHalfSingle == [E |-> 5, F |-> 6, G |-> 3]
MCHalfDouble == [E |-> 6, F |-> 8, G |-> 3]

MCFormats == {"single", "double", "extended", "quad"}
AllFormats == MCFormats \cup {"wideExtended", "wideQuad", "half", "halfSingle", "halfDouble"}

Samples(t, signs, exps, fracs) ==
    LET p == Format(t)
    IN  {Encode(t, (s * 2^p.E + e) * 2^p.F + f) : s \in signs, e \in exps, f \in fracs}

Fracs(p) == {0, 1, (2^p.F - 1) \div 3, 2^p.F - 1}

\* Zero and subnormal, least normal, one, the middle of the integers, the
\* largest numbers, infinity and NaN.
ExpsOf(p) == {0, 1, Bias(p), Bias(p) + p.F, 2 * Bias(p), 2 * Bias(p) + 1}

MCArgs == [t \in MCFormats |-> Samples(t, {0, 1}, ExpsOf(Format(t)), Fracs(Format(t)))]

\* The second operand is positive (the sign of the first one varies), but for
\* the zero and the NaNs.
MCSeconds == [t \in MCFormats |->
    LET p == Format(t)
    IN  Samples(t, {0}, ExpsOf(p), Fracs(p) \ {1})
        \cup Samples(t, {1}, {0, 2 * Bias(p) + 1}, {0, 1})]

\* Around the integers, up to the widest of them.
MCUnits == [t \in AllFormats |->
    LET p == Format(t)
        b == Bias(p)
    IN  Samples(t, {0, 1}, {0, 1, 2 * b + 1} \cup (b - 2) .. MinOf(2 * b, b + 14),
                Fracs(p) \cup {2^(p.F - 1), 2^(p.F - 1) + 1})]

\* Every exponent near the least and the largest of the narrower formats.
MCEdges == [t \in AllFormats |->
    LET p == Format(t)
        b == Bias(p)
        near == {b - 31, b + 31, b - 16, b + 16}
    IN  IF t = "half" THEN 0 .. (2^(1 + p.E + p.F) - 1)
        ELSE Samples(t, {0, 1},
                     {e \in 0 .. (2 * b + 1) :
                        \/ b < 32
                        \/ e \in {0, 1, b, 2 * b, 2 * b + 1}
                        \/ \E n \in near : e \in (n - 8) .. (n + 3)},
                     Fracs(p) \cup {2^(p.F - 1), 2^(p.F - 1) + 1})]

MCThird == [t \in {"single", "double"} |->
    LET p == Format(t)
        b == Bias(p)
    IN  Samples(t, {0}, {0, 1, b}, {1, 2^p.F - 1})
        \cup Samples(t, {1}, {0, b + 1}, {0})
        \cup Samples(t, {0}, {2 * b}, {0})
        \cup Samples(t, {0}, {2 * b + 1}, {0, 1})]
MCFlagged == {{}, {"negate_product"}, {"negate_result", "halve"},
              {"negate_c", "negate_product", "negate_result", "halve"}}

Base == {[Default EXCEPT !.mode = m] : m \in RoundingModes}
        \cup {[Default EXCEPT !.tinyBefore = TRUE], [Default EXCEPT !.ftz = TRUE],
              [Default EXCEPT !.fiz = TRUE], [Default EXCEPT !.dnan = TRUE]}
Shorter == {[s EXCEPT !.prec = n] : s \in {st \in Base : st.mode \in {"even", "up"}},
                                   n \in {32, 64}}
MCStatuses == [t \in MCFormats |-> Base \cup IF t = "extended" THEN Shorter ELSE {}]
MCScales == {-100, -3, 1, 40}
MCIntegers64 == (-40) .. 40 \cup {-2048, -2047, -1365, -1000, 1000, 1365, 2047, 2048, 3000, 4095}
MCEdgeWords == {0, 1, 8, 15}
=============================================================================
