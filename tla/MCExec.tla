------------------------------- MODULE MCExec -------------------------------
(* Words of eight bits, registers at the edges of the signed and unsigned     *)
(* ranges, and the instruction words that differ in what they do.             *)
EXTENDS Exec

CONSTANT Patterns

\* Two words of memory in two fillings, with hi and lo at either end.
MCMem(filling) == [x \in 0 .. 7 |-> IF filling = 0 THEN (x + 1) % 4 ELSE 3 - (((3 * x) \div 2) % 4)]

MCCpus ==
  {[gpr |-> [r \in Reg |-> CASE r = 1 -> a [] r = 2 -> b [] OTHER -> 5], hi |-> hl, lo |-> hl, mem |-> MCMem(hl),
    exc |-> "none", badvaddr |-> 0] : a \in Patterns, b \in Patterns, hl \in {0, 255}}

Word_(op, func, rs, rt, rd, shamt, imm) ==
  [op |-> op, func |-> func, rs |-> rs, rt |-> rt, rd |-> rd, shamt |-> shamt, imm |-> imm,
   addr |-> 0, sel |-> 0]

\* Op 0, 28 and 31 with every function and the operands their handlers tell apart.
MCRegister ==
  {Word_(op, func, rs, 2, rd, shamt, 0) :
     op \in {0, 28, 31}, func \in {0, 2, 3, 4, 6, 7}, rs \in {0, 1}, rd \in {0, 2}, shamt \in {0, 1, 7}}
  \union {Word_(op, func, 1, 2, rd, 0, 0) : op \in {0, 28}, func \in 8 .. 63, rd \in {0, 1}}
  \union {Word_(0, func, rs, 0, 1, 0, 0) : func \in {16, 17, 18, 19}, rs \in {0, 1}}
  \union {Word_(0, func, 1, 0, 0, 0, 0) : func \in {17, 19}}
  \union {Word_(31, func, 1, 2, rd, shamt, 0) : func \in {0, 4}, rd \in {1, 3, 7}, shamt \in {0, 3, 5}}
  \union {Word_(31, 32, 0, 2, 1, shamt, 0) : shamt \in {2, 16, 24}}

\* The other opcodes, with immediates of both signs and at the edges.
MCImmediate ==
  {Word_(op, 0, 1, 2, 0, 0, imm) : op \in (0 .. 63) \ {0, 1, 16, 17, 28, 31}, imm \in {-8, -1, 0, 7}}
  \union {Word_(15, 0, 0, 2, 0, 0, 5)}
  \union {Word_(1, 0, 1, rt, 0, 0, 0) : rt \in 0 .. 31}
  \union {Word_(op, func, rs, 0, 0, 0, 0) : op \in {16, 17}, func \in {0, 1, 24, 63}, rs \in {0, 4, 16}}

MCInsts == MCRegister \union MCImmediate
=============================================================================
