---------------------------- MODULE FloatCompare ----------------------------
(***************************************************************************)
(* The comparisons of softfloat.c, the same text for every format: the     *)
(* encodings are compared as integers, signs and zeros apart.  The quiet   *)
(* ones raise invalid only for a signaling NaN.  The formats without a     *)
(* squash of their input subnormals give one that does nothing.            *)
(***************************************************************************)
EXTENDS FloatBase

CONSTANTS IsNaN(_), IsSignalingNaN(_), IsZero(_), Sign(_), Squash(_, _)

Unordered(a, b) == IsNaN(a) \/ IsNaN(b)

CompareFlags(a, b, quiet) ==
    FlagIf(/\ Unordered(a, b)
           /\ ~quiet \/ IsSignalingNaN(a) \/ IsSignalingNaN(b), "invalid")

Compared(a, b, quiet, st, Test(_, _)) ==
    LET x == Squash(a, st)
        y == Squash(b, st)
    IN  Raise(x.f \cup y.f \cup CompareFlags(x.v, y.v, quiet), Test(x.v, y.v))

BothZero_SameSign(a, b) == IsZero(a) /\ IsZero(b) /\ Sign(a) = Sign(b)

BothZero(a, b) == IsZero(a) /\ IsZero(b)

Eq(a, b, quiet, st) ==
    Compared(a, b, quiet, st,
             LAMBDA x, y : ~Unordered(x, y) /\ (x = y \/ BothZero(x, y)))

Le(a, b, quiet, st) ==
    LET Test(x, y) == /\ ~Unordered(x, y)
                      /\ IF Sign(x) # Sign(y) THEN Sign(x) = 1 \/ BothZero(x, y)
                         ELSE x = y \/ (Sign(x) = 1) # (x < y)
    IN  Compared(a, b, quiet, st, Test)

Lt(a, b, quiet, st) ==
    LET Test(x, y) == /\ ~Unordered(x, y)
                      /\ IF Sign(x) # Sign(y) THEN Sign(x) = 1 /\ ~BothZero(x, y)
                         ELSE x # y /\ (Sign(x) = 1) # (x < y)
    IN  Compared(a, b, quiet, st, Test)

IsUnordered(a, b, quiet, st) == Compared(a, b, quiet, st, Unordered)

(* float32_compare_internal: less, equal, greater and unordered are -1, 0, *)
(* 1 and 2.                                                                *)
Compare(a, b, quiet, st) ==
    LET Relation(x, y) ==
            CASE Unordered(x, y) -> 2
              [] ~Unordered(x, y) /\ (x = y \/ BothZero(x, y)) -> 0
              [] OTHER -> 1 - 2 * (IF Sign(x) # Sign(y) THEN Sign(x)
                                   ELSE Xor(Sign(x), Bit(x < y)))
    IN  Compared(a, b, quiet, st, Relation)
=============================================================================
