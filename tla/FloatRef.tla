------------------------------ MODULE FloatRef ------------------------------
(***************************************************************************)
(* What the floating-point routines promise, without their algorithms: the *)
(* exact result of an operation, rounded once.  A format p has p.E bits of *)
(* exponent and p.F of fraction.  A number is (-1)^s * m * 2^e with a      *)
(* natural m; an exact result that needs more bits than are kept carries   *)
(* sticky, which says that the true magnitude lies strictly between        *)
(* m * 2^e and (m + 1) * 2^e.                                              *)
(***************************************************************************)
EXTENDS FloatBase

MaxOf(a, b) == IF a > b THEN a ELSE b
MinOf(a, b) == IF a < b THEN a ELSE b

Bias(p) == 2^(p.E - 1) - 1
LeastExp(p) == 1 - Bias(p)
LeastQuantum(p) == LeastExp(p) - p.F
InfinityMag(p) == (2^p.E - 1) * 2^p.F
QuietBit(p) == 2^(p.F - 1)

Code(p, s, mag) == s * 2^(p.E + p.F) + mag
SignOf(p, a) == a \div 2^(p.E + p.F)
Mag(p, a) == a % 2^(p.E + p.F)
NaN(p, a) == Mag(p, a) > InfinityMag(p)
Signaling(p, a) == NaN(p, a) /\ (a % 2^p.F) < QuietBit(p)
Infinite(p, a) == Mag(p, a) = InfinityMag(p)
Finite(p, a) == Mag(p, a) < InfinityMag(p)
Subnormal(p, a) == Mag(p, a) > 0 /\ Mag(p, a) < 2^p.F

(* The number an encoding stands for, when it is finite.                   *)
Number(p, a) == LET e == Mag(p, a) \div 2^p.F
                IN  [s |-> SignOf(p, a),
                     m |-> IF e = 0 THEN a % 2^p.F ELSE (a % 2^p.F) + 2^p.F,
                     e |-> MaxOf(e, 1) - Bias(p) - p.F,
                     sticky |-> FALSE]

Msb(m) == 29 - CountLeadingZeros(m, 30)
TopExp(x) == Msb(x.m) + x.e

(* Does the integer n, with rest below it where half is one half, go up?   *)
RoundsUp(s, n, rest, half, sticky, mode) ==
    CASE mode = "even" -> rest > half \/ (rest = half /\ (sticky \/ n % 2 = 1))
      [] mode = "away" -> rest >= half
      [] mode = "zero" -> FALSE
      [] mode = "up" -> s = 0 /\ (rest > 0 \/ sticky)
      [] mode = "down" -> s = 1 /\ (rest > 0 \/ sticky)

(* x on the grid of multiples of 2^q: how many of them, and is it exact?   *)
(* A sticky x has at least two bits below the grid.                        *)
OnGrid(x, q, mode) ==
    LET k == MinOf(q - x.e, 29)
        n == x.m \div 2^k
        rest == x.m % 2^k
    IN  IF q <= x.e THEN [n |-> x.m * 2^(x.e - q), exact |-> TRUE]
        ELSE [n |-> n + Bit(RoundsUp(x.s, n, rest, 2^(k - 1), x.sticky, mode)),
              exact |-> rest = 0 /\ ~x.sticky]

(* x on the grid of format p, as a magnitude without regard to the largest *)
(* exponent; tiny says that it is below the normal numbers, before or      *)
(* after a rounding to full precision.                                     *)
Placed(p, x, st) ==
    LET top == TopExp(x)
        q == MaxOf(top - p.F, LeastQuantum(p))
        r == OnGrid(x, q, st.mode)
    IN  [mag |-> (q - LeastQuantum(p)) * 2^p.F + r.n,
         exact |-> r.exact,
         tiny |-> /\ top < LeastExp(p)
                  /\ \/ st.tinyBefore
                     \/ top + 1 < LeastExp(p)
                     \/ OnGrid(x, top - p.F, st.mode).n < 2^(p.F + 1)]

InexactFlags(r) == FlagIf(~r.exact, "inexact") \cup FlagIf(r.tiny /\ ~r.exact, "underflow")

Rounded(p, x, st) ==
    LET r == Placed(p, x, st)
        toInfinity == \/ st.mode \in {"even", "away"}
                      \/ st.mode = "up" /\ x.s = 0
                      \/ st.mode = "down" /\ x.s = 1
    IN  IF TopExp(x) < LeastExp(p) /\ st.ftz
        THEN Raise({"output_denormal"}, Code(p, x.s, 0))
        ELSE IF r.mag >= InfinityMag(p)
        THEN Raise({"overflow", "inexact"},
                   Code(p, x.s, InfinityMag(p) - Bit(~toInfinity)))
        ELSE Raise(InexactFlags(r), Code(p, x.s, r.mag))

----------------------------------------------------------------------------
(* Exact results of operations on numbers that are not zero.               *)
Times(x, y) == [s |-> Xor(x.s, y.s), m |-> x.m * y.m, e |-> x.e + y.e, sticky |-> FALSE]

(* A quotient and a root with more bits than any rounding needs.           *)
Over(p, x, y) == LET k == MaxOf(0, p.F + 3 + Msb(y.m) - Msb(x.m))
                 IN  [s |-> Xor(x.s, y.s), m |-> (x.m * 2^k) \div y.m,
                      e |-> x.e - y.e - k, sticky |-> (x.m * 2^k) % y.m # 0]

RECURSIVE IntegerRoot(_)
IntegerRoot(n) == IF n = 0 THEN 0
                  ELSE LET high == 2 * IntegerRoot(n \div 4)
                       IN  IF (high + 1) * (high + 1) <= n THEN high + 1 ELSE high

Root(p, x) == LET k == 2 * p.F + 4 - 2 * (Msb(x.m) \div 2) + (x.e % 2)
                  m == x.m * 2^k
                  r == IntegerRoot(m)
              IN  [s |-> 0, m |-> r, e |-> (x.e - k) \div 2, sticky |-> r * r # m]

(* A sum: exact, unless the smaller number lies below every bit that could *)
(* matter, when it only moves the larger one off the grid.                 *)
Plus(p, x, y) ==
    LET xBig == TopExp(x) >= TopExp(y)
        big == IF xBig THEN x ELSE y
        small == IF xBig THEN y ELSE x
        t == MaxOf(0, p.F + 3 - Msb(big.m))
        far == TopExp(small) + 1 <= big.e - t
        e == MinOf(big.e, small.e)
        a == big.m * 2^(big.e - e)
        b == small.m * 2^(small.e - e)
    IN  IF far
        THEN [s |-> big.s, m |-> big.m * 2^t - Bit(big.s # small.s),
              e |-> big.e - t, sticky |-> TRUE]
        ELSE [s |-> IF a >= b THEN big.s ELSE small.s,
              m |-> IF big.s = small.s THEN a + b ELSE IF a >= b THEN a - b ELSE b - a,
              e |-> e, sticky |-> FALSE]

(* x - n * y for the integer n nearest x / y, the even one of two: the     *)
(* magnitude of x is reduced modulo 2y by doubling.                        *)
RECURSIVE PowerMod(_, _, _)
PowerMod(m, d, n) == IF d = 0 THEN m % n ELSE (2 * PowerMod(m, d - 1, n)) % n

Remainder(x, y) ==
    LET d == x.e - y.e
        ym == IF d >= 0 THEN y.m ELSE y.m * 2^MinOf(-d, 14)
        r == IF d >= 0 THEN PowerMod(x.m, d, 2 * y.m) ELSE x.m % (2 * ym)
        z == IF 2 * r <= ym THEN r
             ELSE IF 2 * r < 3 * ym THEN r - ym ELSE r - 2 * ym
    IN  [s |-> IF z < 0 THEN 1 - x.s ELSE x.s, m |-> IF z < 0 THEN -z ELSE z,
         e |-> MinOf(x.e, y.e), sticky |-> FALSE]

----------------------------------------------------------------------------
(* A number as an integer in low .. high; out of range it is invalid and   *)
(* clamped.                                                                *)
AsInteger(x, low, high, mode) ==
    LET r == OnGrid(x, 0, mode)
        v == IF x.s = 1 THEN -r.n ELSE r.n
    IN  IF x.m = 0 THEN Raise({}, 0)
        ELSE IF TopExp(x) > 20 THEN Raise({"invalid"}, IF x.s = 1 THEN low ELSE high)
        ELSE IF v < low THEN Raise({"invalid"}, low)
        ELSE IF v > high THEN Raise({"invalid"}, high)
        ELSE Raise(FlagIf(~r.exact, "inexact"), v)

(* An integer as a number.                                                 *)
OfInteger(n) == [s |-> Bit(n < 0), m |-> IF n < 0 THEN -n ELSE n, e |-> 0, sticky |-> FALSE]
=============================================================================
