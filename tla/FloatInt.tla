------------------------------ MODULE FloatInt ------------------------------
(***************************************************************************)
(* How the floating-point routines round a significand with bits below the *)
(* last one kept, and the integers they make of it.  Integers have I16,    *)
(* I32 and I64 bits; a significand on its way to an I32-bit one has IG     *)
(* bits of fraction, one on its way to an I64-bit one an extra word.       *)
(***************************************************************************)
EXTENDS FloatBase

CONSTANTS I16, I32, I64, IG

(* Rounding off g bits.                                                    *)
RoundIncrement(s, st, g) ==
    CASE st.mode \in {"even", "away"} -> 2^(g - 1)
      [] st.mode = "zero" -> 0
      [] st.mode = "up" -> IF s = 1 THEN 0 ELSE 2^g - 1
      [] st.mode = "down" -> IF s = 1 THEN 2^g - 1 ELSE 0

RoundSig(sig, inc, st, g) ==
    ClearBit0If((sig + inc) \div 2^g, st.mode = "even" /\ sig % 2^g = 2^(g - 1))

IntMax(n) == 2^(n - 1) - 1
IntMin(n) == -(2^(n - 1))

RoundAndPackInt32(s, sig, st) ==
    LET r == RoundSig(sig, RoundIncrement(s, st, IG), st, IG)
        z == Signed(IF s = 1 THEN -r ELSE r, I32)
    IN  IF r >= 2^I32 \/ (z # 0 /\ (z < 0) # (s = 1))
        THEN Raise({"invalid"}, IF s = 1 THEN IntMin(I32) ELSE IntMax(I32))
        ELSE Raise(FlagIf(sig % 2^IG # 0, "inexact"), z)

(* The longer formats round on an extra word of w bits: its top bit is one *)
(* half.                                                                   *)
Increment(s, extra, w, st) ==
    CASE st.mode \in {"even", "away"} -> extra >= 2^(w - 1)
      [] st.mode = "zero" -> FALSE
      [] st.mode = "up" -> s = 0 /\ extra # 0
      [] st.mode = "down" -> s = 1 /\ extra # 0

Incremented(sig, s, extra, w, st) ==
    IF Increment(s, extra, w, st)
    THEN ClearBit0If(sig + 1, (2 * extra) % 2^w = 0 /\ st.mode = "even")
    ELSE sig

RoundAndPackInt64(s, sig, extra, st) ==
    LET r == Incremented(sig, s, extra, I64, st)
        z == Signed(IF s = 1 THEN -r ELSE r, I64)
    IN  IF (Increment(s, extra, I64, st) /\ sig + 1 = 2^I64) \/ (z # 0 /\ (z < 0) # (s = 1))
        THEN Raise({"invalid"}, IF s = 1 THEN IntMin(I64) ELSE IntMax(I64))
        ELSE Raise(FlagIf(extra # 0, "inexact"), z)

RoundAndPackUint64(s, sig, extra, st) ==
    LET r == Incremented(sig, s, extra, I64, st)
    IN  IF Increment(s, extra, I64, st) /\ sig + 1 = 2^I64 THEN Raise({"invalid"}, 2^I64 - 1)
        ELSE IF s = 1 /\ r # 0 THEN Raise({"invalid"}, 0)
        ELSE Raise(FlagIf(extra # 0, "inexact"), r)
=============================================================================
