----------------------------- MODULE FloatBase -----------------------------
(***************************************************************************)
(* What the floating-point routines of softfloat.c share: the status they  *)
(* are given, the flags they raise, and the word operations of             *)
(* softfloat-macros.h.  The widths of words and formats are parameters of  *)
(* every operator, so that the same text stands for the 64-bit code and    *)
(* for the small words TLC runs.  A pair of words <high, low> is the one   *)
(* integer it stands for; module Words holds the word-by-word algorithms   *)
(* and checks them against that reading.                                   *)
(*                                                                         *)
(* A routine returns [v |-> value, f |-> flags it raised].                 *)
(***************************************************************************)
EXTENDS Integers

(* float_status: rounding mode, tininess detection, the two flush modes,   *)
(* default-NaN mode and the precision floatx80 results are rounded to.     *)
RoundingModes == {"even", "down", "up", "zero", "away"}

Status == [mode : RoundingModes, tinyBefore : BOOLEAN, ftz : BOOLEAN,
           fiz : BOOLEAN, dnan : BOOLEAN, prec : {80, 64, 32}]

Flags == {"invalid", "divbyzero", "overflow", "underflow", "inexact",
          "input_denormal", "output_denormal"}

(* float_raise: the flags of a status only accumulate.                     *)
Raise(flags, v) == [v |-> v, f |-> flags]
AddFlags(r, flags) == [r EXCEPT !.f = @ \cup flags]
FlagIf(b, flag) == IF b THEN {flag} ELSE {}
Bit(b) == IF b THEN 1 ELSE 0
Xor(s, t) == (s + t) % 2

----------------------------------------------------------------------------
(* Shifts.  Jam is shift32RightJamming, shift64RightJamming and            *)
(* shift128RightJamming on a w-bit word: the bits shifted out are or-ed    *)
(* into the last bit that stays.                                           *)
Or1(a, b) == a + Bit(b /\ a % 2 = 0)

ClearBit0If(a, b) == IF b THEN a - (a % 2) ELSE a

ShiftRight(a, n, w) == IF n < w THEN a \div 2^n ELSE 0

Jam(a, n, w) == CASE n = 0 -> a
                  [] n > 0 /\ n < w -> Or1(a \div 2^n, a % 2^n # 0)
                  [] OTHER -> Bit(a # 0)

(* shift64ExtraRightJamming and shift128ExtraRightJamming, where a is one  *)
(* word of x bits or two: the n bits shifted out of a fall into the extra  *)
(* word below it, and what falls out of that one is jammed into its last   *)
(* bit.  Beyond a word's length all of the lower word of a only counts as  *)
(* not zero.                                                               *)
ExtraRightJam(a, extra, n, w, x) ==
    CASE n = 0 -> [a |-> a, x |-> extra]
      [] n > 0 /\ n <= x -> [a |-> a \div 2^n, x |-> Or1((a % 2^n) * 2^(x - n), extra # 0)]
      [] n > x /\ n <= w -> LET top == a \div 2^x
                            IN  [a |-> top \div 2^(n - x),
                                 x |-> Or1((top * 2^(w - n)) % 2^x, a % 2^x # 0 \/ extra # 0)]
      [] OTHER -> [a |-> 0, x |-> Bit(a # 0 \/ extra # 0)]

ShiftLeft(a, n, w) == (a * 2^n) % 2^w

(* countLeadingZeros32 and countLeadingZeros64.                            *)
CountLeadingZeros(a, w) == IF a = 0 THEN w
                           ELSE CHOOSE n \in 0..(w - 1) :
                                    a < 2^(w - n) /\ a >= 2^(w - n - 1)

(* A w-bit word read as a signed integer.                                  *)
Signed(a, w) == IF a % 2^w >= 2^(w - 1) THEN (a % 2^w) - 2^w ELSE a % 2^w

(* estimateDiv128To64: the quotient of the pair <a0, a1> by the normalised *)
(* w-bit b, from two divisions by the top half of b.                       *)
RECURSIVE EstimateFix(_, _, _, _)
EstimateFix(rem, z, b, h) == IF rem < 0 THEN EstimateFix(rem + b * 2^h, z - 2^h, b, h)
                             ELSE [rem |-> rem, z |-> z]

EstimateDiv(a0, a1, b, w) ==
    LET h == w \div 2
        b0 == b \div 2^h
        z == IF b0 * 2^h <= a0 THEN 2^w - 2^h ELSE (a0 \div b0) * 2^h
        LowHalf(rem) == IF b0 * 2^h <= rem THEN 2^h - 1 ELSE rem \div b0
        Whole(fix) == fix.z + LowHalf((fix.rem \div 2^h) % 2^w)
    IN  IF b <= a0 THEN 2^w - 1
        ELSE Whole(EstimateFix(a0 * 2^w + a1 - b * z, z, b, h))

(* The loops that walk an estimated quotient of num by b down until the    *)
(* remainder is not negative.                                              *)
RECURSIVE QuotientDown(_, _, _)
QuotientDown(z, num, b) == IF b * z > num THEN QuotientDown(z - 1, num, b) ELSE z

(* The last word of a quotient, lowered and with its sticky bit.           *)
LastQuotient(z, num, b) == LET low == QuotientDown(z, num, b)
                           IN  Or1(low, b * low # num)

(* What the remainder loops keep of an estimate: n less, but not negative. *)
Lowered(q, n) == IF q > n THEN q - n ELSE 0

(* estimateSqrt32 works from a table of 16 entries; callers rely on what   *)
(* it promises, an h-bit z strictly within 2 of the square root of a * 2^h *)
(* (a is halved when the exponent is odd), so every such z is a possible   *)
(* result.                                                                 *)
SqrtEstimates(aExp, a, h) ==
    LET r == (IF aExp % 2 = 1 THEN a \div 2 ELSE a) * 2^h
    IN  {z \in 2^(h - 1) .. (2^h - 1) :
            (z + 2) * (z + 2) > r /\ (z - 2) * (z - 2) < r}

(* The loops that walk a square root down until its square fits.           *)
RECURSIVE RootDown(_, _)
RootDown(z, square) == IF z * z > square THEN RootDown(z - 1, square) ELSE z

(* The second word of a root, lowered until its square fits the three      *)
(* words of remainder.                                                     *)
RECURSIVE RootWordDown(_, _, _, _)
RootWordDown(z, rem, double, w) ==
    IF rem < 0 THEN RootWordDown(z - 1, rem + double * 2^w + 2 * (z - 1) + 1, double, w)
    ELSE Or1(z, rem # 0)

(* The last loop of the remainders: subtract r.b from r.a until the w-bit  *)
(* result is negative, keep the one before it, and take of the two the one *)
(* nearest zero, with the even quotient on a tie.                          *)
RECURSIVE RemainderDown(_, _)
RemainderDown(r, w) ==
    LET z == (r.a - r.b) % 2^w
        mean == Signed(z + r.a, w)
    IN  IF z < 2^(w - 1) THEN RemainderDown([r EXCEPT !.a = z, !.q = @ + 1], w)
        ELSE IF mean < 0 \/ (mean = 0 /\ (r.q + 1) % 2 = 1) THEN Signed(r.a, w)
        ELSE Signed(z, w)

(* pickNaN, the x87 branch: is b the NaN to return?                        *)
PickNaN(aQuiet, aSignaling, bQuiet, bSignaling, aLarger) ==
    CASE aSignaling -> (bSignaling /\ ~aLarger) \/ (~bSignaling /\ bQuiet)
      [] ~aSignaling /\ aQuiet -> ~bSignaling /\ bQuiet /\ ~aLarger
      [] OTHER -> TRUE
=============================================================================
