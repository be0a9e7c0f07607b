------------------------------- MODULE Words -------------------------------
(***************************************************************************)
(* The multi-word arithmetic of softfloat-macros.h, word by word: what the *)
(* C code does with the halves of a 128-bit or 192-bit quantity.  W is the *)
(* width of a word.  Every other module of the floating-point model takes  *)
(* a pair for the integer it stands for; SoftFloat checks that the two     *)
(* readings agree.                                                         *)
(*                                                                         *)
(* The bitwise or of two words that share no bit is their sum.             *)
(***************************************************************************)
EXTENDS FloatBase, Sequences

CONSTANT W

Word(n) == n % 2^W
Shl(a, n) == Word(a * 2^n)
Shr(a, n) == a \div 2^n
Neg(n) == (-n) % W
NonZero(a) == Bit(a # 0)

Pair(a) == a[1] * 2^W + a[2]
Triple(a) == Pair(a) * 2^W + a[3]

shift64RightJamming(a, n) ==
    IF n = 0 THEN a
    ELSE IF n < W THEN Or1(Shr(a, n), Shl(a, Neg(n)) # 0)
    ELSE NonZero(a)

shift64ExtraRightJamming(a0, a1, n) ==
    CASE n = 0 -> <<a0, a1>>
      [] n > 0 /\ n < W -> <<Shr(a0, n), Or1(Shl(a0, Neg(n)), a1 # 0)>>
      [] n = W -> <<0, Or1(a0, a1 # 0)>>
      [] OTHER -> <<0, Bit(a0 # 0 \/ a1 # 0)>>

shift128Right(a0, a1, n) ==
    CASE n = 0 -> <<a0, a1>>
      [] n > 0 /\ n < W -> <<Shr(a0, n), Shl(a0, Neg(n)) + Shr(a1, n)>>
      [] OTHER -> <<0, IF n < 2 * W THEN Shr(a0, n % W) ELSE 0>>

shift128RightJamming(a0, a1, n) ==
    CASE n = 0 -> <<a0, a1>>
      [] n > 0 /\ n < W -> <<Shr(a0, n), Or1(Shl(a0, Neg(n)) + Shr(a1, n),
                                             Shl(a1, Neg(n)) # 0)>>
      [] n = W -> <<0, Or1(a0, a1 # 0)>>
      [] n > W /\ n < 2 * W -> <<0, Or1(Shr(a0, n % W), Shl(a0, Neg(n)) # 0 \/ a1 # 0)>>
      [] OTHER -> <<0, Bit(a0 # 0 \/ a1 # 0)>>

shift128ExtraRightJamming(a0, a1, a2, n) ==
    CASE n = 0 -> <<a0, a1, a2>>
      [] n > 0 /\ n < W -> <<Shr(a0, n), Shl(a0, Neg(n)) + Shr(a1, n),
                             Or1(Shl(a1, Neg(n)), a2 # 0)>>
      [] n = W -> <<0, a0, Or1(a1, a2 # 0)>>
      [] n > W /\ n < 2 * W -> <<0, Shr(a0, n % W),
                                 Or1(Shl(a0, Neg(n)), a1 # 0 \/ a2 # 0)>>
      [] OTHER -> <<0, 0, Or1(IF n = 2 * W THEN a0 ELSE NonZero(a0), a1 # 0 \/ a2 # 0)>>

shortShift128Left(a0, a1, n) ==
    <<IF n = 0 THEN a0 ELSE Shl(a0, n) + Shr(a1, Neg(n)), Shl(a1, n)>>

shortShift192Left(a0, a1, a2, n) ==
    <<Shl(a0, n) + (IF n > 0 THEN Shr(a1, Neg(n)) ELSE 0),
      Shl(a1, n) + (IF n > 0 THEN Shr(a2, Neg(n)) ELSE 0), Shl(a2, n)>>

----------------------------------------------------------------------------
(* Sums and differences: a carry shows as a sum below its first operand.   *)
add128(a0, a1, b0, b1) ==
    LET z1 == Word(a1 + b1)
    IN  <<Word(a0 + b0 + Bit(z1 < a1)), z1>>

add192_LostCarry(a, b) ==
    LET z2 == Word(a[3] + b[3])
        z1 == Word(a[2] + b[2])
    IN  <<Word(a[1] + b[1] + Bit(z1 < a[2])), Word(z1 + Bit(z2 < a[3])), z2>>

add192(a, b) ==
    LET z2 == Word(a[3] + b[3])
        carry1 == Bit(z2 < a[3])
        z1 == Word(a[2] + b[2])
        carry0 == Bit(z1 < a[2])
        y1 == Word(z1 + carry1)
    IN  <<Word(a[1] + b[1] + Bit(y1 < carry1) + carry0), y1, z2>>

sub128(a0, a1, b0, b1) == <<Word(a0 - b0 - Bit(a1 < b1)), Word(a1 - b1)>>

sub192(a, b) ==
    LET borrow1 == Bit(a[3] < b[3])
        z1 == Word(a[2] - b[2])
        borrow0 == Bit(a[2] < b[2])
    IN  <<Word(a[1] - b[1] - Bit(z1 < borrow1) - borrow0), Word(z1 - borrow1),
          Word(a[3] - b[3])>>

(* Products of half words.                                                 *)
mul64To128(a, b) ==
    LET h == W \div 2
        low == Word((a % 2^h) * (b % 2^h))
        middleB == (a \div 2^h) * (b % 2^h)
        middle == Word((a % 2^h) * (b \div 2^h) + middleB)
        high == (a \div 2^h) * (b \div 2^h)
        z1 == Word(low + Shl(middle, h))
    IN  <<Word(high + Bit(middle < middleB) * 2^h + Shr(middle, h)
               + Bit(z1 < Shl(middle, h))), z1>>

mul128By64To192(a0, a1, b) ==
    LET low == mul64To128(a1, b)
        high == mul64To128(a0, b)
    IN  add128(high[1], high[2], 0, low[1]) \o <<low[2]>>

mul128To256(a0, a1, b0, b1) ==
    LET low == mul64To128(a1, b1)
        middle == mul64To128(a1, b0)
        mid1 == add128(middle[1], middle[2], 0, low[1])
        high == mul64To128(a0, b0)
        top1 == add128(high[1], high[2], 0, mid1[1])
        cross == mul64To128(a0, b1)
        mid2 == add128(cross[1], cross[2], 0, mid1[2])
        top2 == add128(top1[1], top1[2], 0, mid2[1])
    IN  top2 \o <<mid2[2], low[2]>>

(* The loop of estimateDiv128To64 works on the pair rem0, rem1.            *)
RECURSIVE estimateFix(_, _, _)
estimateFix(rem, z, b) ==
    IF rem[1] >= 2^(W - 1)
    THEN estimateFix(add128(rem[1], rem[2], b \div 2^(W \div 2), Shl(b, W \div 2)),
                     Word(z - 2^(W \div 2)), b)
    ELSE [rem |-> rem, z |-> z]

estimateDiv128To64(a0, a1, b) ==
    LET h == W \div 2
        b0 == Shr(b, h)
        z == IF Shl(b0, h) <= a0 THEN 2^W - 2^h ELSE Shl(a0 \div b0, h)
        term == mul64To128(b, z)
        fix == estimateFix(sub128(a0, a1, term[1], term[2]), z, b)
        rem0 == Shl(fix.rem[1], h) + Shr(fix.rem[2], h)
    IN  IF b <= a0 THEN 2^W - 1
        ELSE fix.z + (IF Shl(b0, h) <= rem0 THEN 2^h - 1 ELSE rem0 \div b0)

le128(a0, a1, b0, b1) == a0 < b0 \/ (a0 = b0 /\ a1 <= b1)
lt128(a0, a1, b0, b1) == a0 < b0 \/ (a0 = b0 /\ a1 < b1)
=============================================================================
