-------------------------------- MODULE Exec --------------------------------
(***************************************************************************)
(* The decoder and the integer instructions: src/cpu/exec/*.h between the   *)
(* fetch of an instruction and label inst_end.  Branches, traps and system  *)
(* instructions are in modules Cpu and Mmu, floating point is not modelled. *)
(* A word is four bytes of ByteBits bits; registers are numbered from zero. *)
(***************************************************************************)
EXTENDS Integers, Sequences

CONSTANTS
  ByteBits,   \* 8 in the code
  MemSize,    \* bytes below MemSize are mapped, the others fault
  Cpus,       \* states before an instruction
  Insts,      \* instructions
  Garbage     \* what malloc leaves in the fields of a decode_state_t

Pow2[n \in Nat] == IF n = 0 THEN 1 ELSE 2 * Pow2[n - 1]

W == 4 * ByteBits
M == Pow2[W]

Byte == 0 .. Pow2[ByteBits] - 1
Word == 0 .. M - 1
Reg == 0 .. W - 1   \* a field of five bits names a register or a place in a word
Mem == [0 .. MemSize - 1 -> Byte]

ASSUME ExecAssumption ==
  /\ ByteBits \in Nat \ {0}
  /\ MemSize \in Nat /\ MemSize % 4 = 0 /\ MemSize <= M
  /\ Cpus \subseteq [gpr : [Reg -> Word], hi : Word, lo : Word, mem : Mem,
                     exc : {"none"}, badvaddr : Word]

Fields == {"rs", "rt", "rd", "shamt", "func", "imm", "addr", "sel"}

VARIABLES
  cpu,    \* gpr, hi, lo and memory; exc and badvaddr of the instruction
  inst,   \* the instruction executed
  ops,    \* the fields its handler reads: the decode_state_t
  phase   \* "ready" or "done"

vars == <<cpu, inst, ops, phase>>

-----------------------------------------------------------------------------
(* Decoding *)

\* Rows of exec-handlers.h; what a table does not name is inv.
special_table ==
  <<"sll", "movci", "srl", "sra", "sllv", "inv", "srlv", "srav",
    "jr", "jalr", "movz", "movn", "syscall", "breakpoint", "inv", "sync",
    "mfhi", "mthi", "mflo", "mtlo", "inv", "inv", "inv", "inv",
    "mult", "multu", "divide", "divu", "inv", "inv", "inv", "inv",
    "add", "addu", "sub", "subu", "and", "or", "xor", "nor",
    "inv", "inv", "slt", "sltu", "inv", "inv", "inv", "inv",
    "tge", "tgeu", "tlt", "tltu", "teq", "inv", "tne">>
opcode_table ==
  <<"exec_special", "exec_regimm", "j", "jal", "beq", "bne", "blez", "bgtz",
    "addi", "addiu", "slti", "sltiu", "andi", "ori", "xori", "lui",
    "exec_cop0", "exec_cop1", "inv", "inv", "beql", "bnel", "blezl", "bgtzl",
    "inv", "inv", "inv", "inv", "exec_special2", "inv", "inv", "exec_special3",
    "lb", "lh", "lwl", "lw", "lbu", "lhu", "lwr", "inv",
    "sb", "sh", "swl", "sw", "inv", "inv", "swr", "cache",
    "ll", "lwc1", "inv", "pref", "inv", "ldc1", "inv", "inv",
    "sc", "swc1", "inv", "inv", "inv", "sdc1">>
regimm_table ==
  <<"bltz", "bgez", "bltzl", "bgezl", "inv", "inv", "inv", "inv",
    "tgei", "tgeiu", "tlti", "tltiu", "teqi", "inv", "tnei", "inv",
    "bltzal", "bgezal", "bltzall", "bgezall", "inv", "inv", "inv", "inv",
    "inv", "inv", "inv", "inv", "inv", "inv", "inv", "synci">>
special2_table ==
  [f \in {1, 2, 3, 5, 6, 33, 34} |->
     CASE f = 1 -> "madd" [] f = 2 -> "maddu" [] f = 3 -> "mul" [] f = 5 -> "msub"
       [] f = 6 -> "msubu" [] f = 33 -> "clz" [] f = 34 -> "clo"]
special3_table ==
  [f \in {1, 3, 5, 33} |->
     CASE f = 1 -> "ext" [] f = 3 -> "mul" [] f = 5 -> "ins" [] f = 33 -> "exec_bshfl"]
bshfl_table ==
  [f \in {3, 17, 25} |-> CASE f = 3 -> "wsbh" [] f = 17 -> "seb" [] f = 25 -> "seh"]
cop0_table_func ==
  [f \in {2, 3, 7, 9, 25, 33} |->
     CASE f = 2 -> "tlbr" [] f = 3 -> "tlbwi" [] f = 7 -> "tlbwr" [] f = 9 -> "tlbp"
       [] f = 25 -> "eret" [] f = 33 -> "wait"]
cop0_table_rs == [f \in {1, 5} |-> CASE f = 1 -> "mfc0" [] f = 5 -> "mtc0"]

Entry(table, i) == IF i + 1 \in DOMAIN table THEN table[i + 1] ELSE "inv"

\* The tables of coprocessor 1 are not told apart.
decoder_get_handler(i) ==
  CASE i.op = 0 -> Entry(special_table, i.func)
    [] i.op = 1 -> Entry(regimm_table, i.rt)
    [] i.op = 16 -> IF i.rs >= 16 THEN Entry(cop0_table_func, i.func)
                    ELSE Entry(cop0_table_rs, i.rs)
    [] i.op = 17 -> "fpu"
    [] i.op = 28 -> Entry(special2_table, i.func)
    [] i.op = 31 /\ i.func = 32 -> Entry(bshfl_table, i.shamt)
    [] i.op = 31 /\ i.func # 32 -> Entry(special3_table, i.func)
    [] OTHER -> Entry(opcode_table, i.op)

\* Mutant: the shift amount is copied for op 0 only.
DecodedFields_NoShamt(i) ==
  CASE i.op = 0 -> {"rs", "rt", "rd", "shamt", "func"}
    [] i.op \in {2, 3} -> {"addr"}
    [] i.op = 16 -> IF i.rs >= 16 THEN {} ELSE {"rt", "rd", "sel"}
    [] i.op \in {28, 31} -> {"rs", "rt", "rd"}
    [] OTHER -> {"rs", "rt", "imm"}

DecodedFields(i) ==
  CASE i.op = 0 -> {"rs", "rt", "rd", "shamt", "func"}
    [] i.op \in {2, 3} -> {"addr"}
    [] i.op = 16 -> IF i.rs >= 16 THEN {} ELSE {"rt", "rd", "sel"}
    [] i.op = 31 /\ i.func = 32 -> {"rt", "rd"}
    [] i.op = 28 \/ (i.op = 31 /\ i.func # 32) -> {"rs", "rt", "rd", "shamt"}
    [] OTHER -> {"rs", "rt", "imm"}

\* The other fields keep what was there.
decoder_set_state(ds, i) == [f \in Fields |-> IF f \in DecodedFields(i) THEN i[f] ELSE ds]

-----------------------------------------------------------------------------
(* Words *)

Bit(x, k) == (x \div Pow2[k]) % 2
S(x) == IF x >= M \div 2 THEN x - M ELSE x                  \* (int32_t)x
Sext(x, n) == LET y == x % Pow2[n] IN (IF y >= Pow2[n - 1] THEN y - Pow2[n] ELSE y) % M
Shl(x, n) == (x * Pow2[n]) % M
Shr(x, n) == x \div Pow2[n]
Sar(x, n) == (S(x) \div Pow2[n]) % M
Not_(x) == M - 1 - x
Bool(b) == IF b THEN 1 ELSE 0

\* The number with the n digits d[0], d[1], ... of w bits.
Digits(d, n, w) ==
  LET f[k \in 0 .. n] == IF k = 0 THEN 0 ELSE f[k - 1] + d[k - 1] * Pow2[(k - 1) * w]
  IN f[n]

And(x, y) == Digits([k \in 0 .. W - 1 |-> Bit(x, k) * Bit(y, k)], W, 1)
Or(x, y) == Digits([k \in 0 .. W - 1 |-> Bool(Bit(x, k) = 1 \/ Bit(y, k) = 1)], W, 1)
Xor(x, y) == Digits([k \in 0 .. W - 1 |-> Bool(Bit(x, k) # Bit(y, k))], W, 1)

I_SI(o) == o.imm % M                                         \* o.imm is signed
I_UI(o) == o.imm % Pow2[W \div 2]

\* A shift of 32 - sa by sa = 0 is undefined; the word or zero, it is or-ed away.
rotr(x, sa) == Or(Shr(x, sa), Shl(x, W - sa))

clo(x) == LET f[k \in 0 .. W] == IF k = 0 THEN 0 ELSE IF Bit(x, k - 1) = 0 THEN 0 ELSE 1 + f[k - 1]
          IN f[W]
clz(x) == IF x = 0 THEN W ELSE clo(Not_(x))                  \* __builtin_clz

Bytes(x) == [k \in 0 .. 3 |-> (x \div Pow2[k * ByteBits]) % Pow2[ByteBits]]
Joined(b, n) == Digits(b, n, ByteBits)
wsbh(x) == Joined([k \in 0 .. 3 |-> Bytes(x)[IF k % 2 = 0 THEN k + 1 ELSE k - 1]], 4)

Mask(n) == (Pow2[n] - 1) % M

\* Mutant: the mask is one bit short.
ins_Short(rs, rt, lsb, msb) ==
  LET mask == Mask(msb - lsb) IN Or(And(rt, Not_(Shl(mask, lsb))), Shl(And(rs, mask), lsb))

ins(rs, rt, lsb, msb) ==
  LET mask == Mask(msb - lsb + 1) IN Or(And(rt, Not_(Shl(mask, lsb))), Shl(And(rs, mask), lsb))
ext(rs, lsb, msbd) == Shr(And(rs, Shl(Mask(msbd + 1), lsb)), lsb)

\* Mutant: the carry into the sign is taken for the overflow.
OverflowBits_Carry(sum) == Bit(sum % (M * M), W) = 1

\* L64_t: the low bit of hi against the sign of lo.
OverflowBits(sum) == Bit(sum % (M * M), W) # Bit(sum % (M * M), W - 1)

\* C division, towards zero; the host traps on a zero divisor and on overflow.
Abs(x) == IF x < 0 THEN -x ELSE x
Quotient(x, y) == IF (x < 0) = (y < 0) THEN Abs(x) \div Abs(y) ELSE -(Abs(x) \div Abs(y))
DivTraps(x, y) == y = 0 \/ (x = -(M \div 2) /\ y = -1)

-----------------------------------------------------------------------------
(* Handlers that set one register *)

\* arith.h, setcc.h, shift.h, arith-ex.h: the value for rd; a is rs, b is rt.
ToRd == {"or", "xor", "and", "addu", "subu", "mul", "nor", "add", "sub", "slt", "sltu",
         "movn", "movz", "sll", "sllv", "sra", "srav", "srl", "srlv", "clz", "clo", "seb", "seh",
         "wsbh", "mfhi", "mflo"}
RdValue(h, o, c, a, b) ==
  CASE h = "or" -> Or(a, b)
    [] h = "xor" -> Xor(a, b)
    [] h = "and" -> And(a, b)
    [] h \in {"addu", "add"} -> (a + b) % M
    [] h \in {"subu", "sub"} -> (a - b) % M
    [] h = "mul" -> (a * b) % M
    [] h = "nor" -> Not_(Or(a, b))
    [] h = "slt" -> Bool(S(a) < S(b))
    [] h = "sltu" -> Bool(a < b)
    [] h = "movn" -> IF b # 0 THEN a ELSE c.gpr[o.rd]
    [] h = "movz" -> IF b = 0 THEN a ELSE c.gpr[o.rd]
    [] h = "sll" -> Shl(b, o.shamt)
    [] h = "sllv" -> Shl(b, a % W)
    [] h = "sra" -> Sar(b, o.shamt)
    [] h = "srav" -> Sar(b, a % W)
    [] h = "srl" -> IF o.rs % 2 = 1 THEN rotr(b, o.shamt) ELSE Shr(b, o.shamt)
    [] h = "srlv" -> IF o.shamt % 2 = 1 THEN rotr(b, a % W) ELSE Shr(b, a % W)
    [] h = "clz" -> clz(a)
    [] h = "clo" -> clo(a)
    [] h = "seb" -> Sext(b, ByteBits)
    [] h = "seh" -> Sext(b, 2 * ByteBits)
    [] h = "wsbh" -> wsbh(b)
    [] h = "mfhi" -> c.hi
    [] h = "mflo" -> c.lo

\* The value for rt.
ToRt == {"lui", "addi", "addiu", "andi", "ori", "xori", "slti", "sltiu", "ins", "ext"}
RtValue(h, o, a, b) ==
  CASE h = "lui" -> Shl(I_UI(o), W \div 2)
    [] h \in {"addi", "addiu"} -> (a + I_SI(o)) % M
    [] h = "andi" -> And(a, I_UI(o))
    [] h = "ori" -> Or(a, I_UI(o))
    [] h = "xori" -> Xor(a, I_UI(o))
    [] h = "slti" -> Bool(S(a) < S(I_SI(o)))
    [] h = "sltiu" -> Bool(a < I_SI(o))
    [] h = "ins" -> ins(a, b, o.shamt, o.rd)
    [] h = "ext" -> ext(a, o.shamt, o.rd)

\* Fields InstAssert wants to be zero.
ZeroFields(h, o) ==
  CASE h \in {"or", "xor", "and", "addu", "subu", "mul", "nor", "add", "sub", "slt", "sltu",
              "movn", "movz", "sllv", "srav"} -> {"shamt"}
    [] h \in {"sll", "sra", "lui"} -> {"rs"}
    [] h = "srl" -> IF o.rs % 2 = 1 THEN {} ELSE {"rs"}
    [] h = "srlv" -> IF o.shamt % 2 = 1 THEN {} ELSE {"shamt"}
    [] h \in {"madd", "maddu", "msub", "msubu", "mult", "multu", "divide", "divu"} -> {"rd", "shamt"}
    [] h \in {"mfhi", "mflo"} -> {"rs", "rt", "shamt"}
    [] h \in {"mthi", "mtlo"} -> {"rt", "rd", "shamt"}
    [] OTHER -> {}

Overflows(h, o, a, b) ==
  OverflowBits(CASE h = "add" -> S(a) + S(b)
                 [] h = "sub" -> S(a) - S(b)
                 [] h = "addi" -> S(a) + S(I_SI(o)))

-----------------------------------------------------------------------------
(* mdu.h *)

Products == {"madd", "maddu", "msub", "msubu", "mult", "multu"}

WithHiLo(c, v) == [c EXCEPT !.hi = (v \div M) % M, !.lo = v % M]

Multiplied(h, c, a, b) ==
  LET signed == h \in {"madd", "msub", "mult"}
      product == IF signed THEN S(a) * S(b) ELSE a * b
      hilo == c.hi * M + c.lo
  IN WithHiLo(c, CASE h \in {"mult", "multu"} -> product
                   [] h \in {"madd", "maddu"} -> hilo + product
                   [] h \in {"msub", "msubu"} -> hilo - product)

Divided(h, c, a, b) ==
  LET x == IF h = "divide" THEN S(a) ELSE a
      y == IF h = "divide" THEN S(b) ELSE b
      quot == Quotient(x, y)
  IN [c EXCEPT !.lo = quot % M, !.hi = (x - y * quot) % M]

-----------------------------------------------------------------------------
(* memory.h *)

Loads == {"lb", "lbu", "lh", "lhu", "lw", "ll", "lwl", "lwr"}
Stores == {"sb", "sh", "sw", "sc", "swl", "swr"}
Align(h) == CASE h \in {"lw", "ll", "sw", "sc"} -> 4
              [] h \in {"lh", "lhu", "sh"} -> 2
              [] OTHER -> 1

Mapped(addr) == addr < MemSize
vaddr_read(mem, addr, len) ==
  IF Mapped(addr) THEN Joined([k \in 0 .. len - 1 |-> mem[addr + k]], len) ELSE 0
vaddr_write(mem, addr, len, data) ==
  IF Mapped(addr)
  THEN [x \in DOMAIN mem |-> IF x \in addr .. addr + len - 1 THEN Bytes(data)[x - addr] ELSE mem[x]]
  ELSE mem

lwl(mem, raddr, rt) ==
  LET len == (raddr % 4) + 1
      rdata == vaddr_read(mem, (raddr \div 4) * 4, len)
      n == len * ByteBits
  IN IF len < 4 THEN Or(Shl(rdata, W - n), Shr(Shl(rt, n), n)) ELSE rdata

\* Mutant: the bytes of rt that stay are the low ones.
lwr_KeepsLow(mem, raddr, rt) ==
  LET idx == raddr % 4
      rdata == vaddr_read(mem, raddr, 4 - idx)
      n == idx * ByteBits
  IN Or(Shr(Shl(rdata, n), n), Shr(Shl(rt, W - n), W - n))

lwr(mem, raddr, rt) ==
  LET idx == raddr % 4
      len == 4 - idx
      rdata == vaddr_read(mem, raddr, len)
      n == idx * ByteBits
      kept == len * ByteBits
  IN IF len < 4 THEN Or(Shr(Shl(rdata, n), n), Shl(Shr(rt, kept), kept)) ELSE Shr(Shl(rdata, n), n)

LoadValue(h, mem, addr, rt) ==
  CASE h = "lb" -> Sext(vaddr_read(mem, addr, 1), ByteBits)
    [] h = "lbu" -> vaddr_read(mem, addr, 1)
    [] h = "lh" -> Sext(vaddr_read(mem, addr, 2), 2 * ByteBits)
    [] h = "lhu" -> vaddr_read(mem, addr, 2)
    [] h \in {"lw", "ll"} -> vaddr_read(mem, addr, 4)
    [] h = "lwl" -> lwl(mem, addr, rt)
    [] h = "lwr" -> lwr(mem, addr, rt)

Stored(h, mem, addr, rt) ==
  CASE h = "sb" -> vaddr_write(mem, addr, 1, rt)
    [] h = "sh" -> vaddr_write(mem, addr, 2, rt)
    [] h \in {"sw", "sc"} -> vaddr_write(mem, addr, 4, rt)
    [] h = "swl" -> vaddr_write(mem, (addr \div 4) * 4, (addr % 4) + 1,
                                Shr(rt, (3 - (addr % 4)) * ByteBits))
    [] h = "swr" -> vaddr_write(mem, addr, 4 - (addr % 4), rt)

-----------------------------------------------------------------------------
(* Execution *)

\* addr is the address accessed; lwl and swl replace the aligned one by their own.
Raise(c, exc, addr) == [c EXCEPT !.exc = exc, !.badvaddr = addr]

\* Mutant: a load writes its register before it looks at has_exception.
LoadInto_Early(h, c, rt, addr) ==
  LET d == [c EXCEPT !.gpr[rt] = LoadValue(h, c.mem, addr, c.gpr[rt])]
  IN IF Mapped(addr) THEN d ELSE Raise(d, "TLBL", addr)

\* ll writes what the tlb hole answers, zero.
LoadInto(h, c, rt, addr) ==
  IF Mapped(addr) THEN [c EXCEPT !.gpr[rt] = LoadValue(h, c.mem, addr, c.gpr[rt])]
  ELSE Raise(IF h = "ll" THEN [c EXCEPT !.gpr[rt] = 0] ELSE c, "TLBL", addr)

StoreFrom(h, c, rt, addr) ==
  IF Mapped(addr)
  THEN [c EXCEPT !.mem = Stored(h, @, addr, c.gpr[rt]),
                 !.gpr[rt] = IF h = "sc" THEN 1 ELSE @]
  ELSE Raise(c, "TLBS", addr)

\* InstAssert puts pc into badvaddr, which is left out.
\* One handler, with the fields o, on the state c0 left by the last instruction.
Execute(h, o, c0) ==
  LET c == [c0 EXCEPT !.gpr[0] = 0]
      a == c.gpr[o.rs]
      b == c.gpr[o.rt]
      addr == (a + I_SI(o)) % M
  IN IF \E f \in ZeroFields(h, o) : o[f] # 0 THEN Raise(c, "RI", c.badvaddr)
     ELSE IF h \in {"add", "sub", "addi"} /\ Overflows(h, o, a, b) THEN Raise(c, "Ov", c.badvaddr)
     ELSE IF h = "ins" /\ o.shamt > o.rd THEN Raise(c, "abort", c.badvaddr)
     ELSE IF h \in Loads \union Stores /\ addr % Align(h) # 0
     THEN Raise(c, IF h \in Loads THEN "AdEL" ELSE "AdES", addr)
     ELSE CASE h \in Loads -> LoadInto(h, c, o.rt, addr)
            [] h \in Stores -> StoreFrom(h, c, o.rt, addr)
            [] h \in Products -> Multiplied(h, c, a, b)
            [] h \in {"divide", "divu"} ->
                 IF IF h = "divide" THEN DivTraps(S(a), S(b)) ELSE b = 0
                 THEN Raise(c, "SIGFPE", c.badvaddr)
                 ELSE Divided(h, c, a, b)
            [] h = "mthi" -> [c EXCEPT !.hi = a]
            [] h = "mtlo" -> [c EXCEPT !.lo = a]
            [] h \in ToRd -> [c EXCEPT !.gpr[o.rd] = RdValue(h, o, c, a, b)]
            [] h \in ToRt -> [c EXCEPT !.gpr[o.rt] = RtValue(h, o, a, b)]
            [] h = "inv" -> Raise(c, "RI", c.badvaddr)
            [] OTHER -> c  \* pref, and what other modules model

\* The handlers modelled here.
Integer == Loads \union Stores \union Products \union ToRd \union ToRt
           \union {"divide", "divu", "mthi", "mtlo", "inv", "pref"}

\* What decoder_set_state takes from an instruction; imm is sign extended.
ASSUME InstAssumption ==
  \A i \in Insts :
    /\ DOMAIN i = Fields \union {"op"}
    /\ i.imm \in -(M \div 2) .. (M \div 2) - 1
    /\ decoder_get_handler(i) \in Integer \ {"inv"} =>
         \A f \in DecodedFields(i) \intersect {"rs", "rt", "rd", "shamt"} : i[f] \in Reg

Init ==
  /\ cpu \in Cpus
  /\ inst = [f \in Fields \union {"op"} |-> 0]
  /\ ops = [f \in Fields |-> 0]
  /\ phase = "ready"

\* make_entry: decode, then go to the handler.
make_entry(i, ds) ==
  /\ phase = "ready" /\ phase' = "done"
  /\ inst' = i
  /\ ops' = decoder_set_state(ds, i)
  /\ cpu' = IF decoder_get_handler(i) \in Integer
            THEN Execute(decoder_get_handler(i), ops', cpu)
            ELSE cpu

Next == \E i \in Insts, ds \in Garbage : make_entry(i, ds)

Spec == Init /\ [][Next]_vars

-----------------------------------------------------------------------------
(* Properties *)

handler == decoder_get_handler(inst)

\* Executing from the cached fields gives what executing from the instruction
\* word gives: no integer handler reads a field decoder_set_state has not set.
CachedSame ==
  [][handler' \in Integer => cpu' = Execute(handler', inst', cpu)]_vars

\* The operands; register zero reads as zero.
Old(r) == IF r = 0 THEN 0 ELSE cpu.gpr[r]

EffectiveAddr == (Old(inst'.rs) + inst'.imm) % M

\* An instruction that faults can be executed again: it has changed no register
\* and no memory (has_exception in memory.h, overflow in arith.h), and badvaddr
\* is the address it computes, also for the parts of an unaligned word; ll is
\* an exception, it writes rt.
Restartable ==
  [][/\ cpu'.exc # "none" /\ handler' # "ll" =>
          /\ cpu'.gpr = [cpu.gpr EXCEPT ![0] = 0]
          /\ cpu'.hi = cpu.hi /\ cpu'.lo = cpu.lo /\ cpu'.mem = cpu.mem
     /\ cpu'.exc \in {"TLBL", "TLBS", "AdEL", "AdES"} => cpu'.badvaddr = EffectiveAddr]_vars

Signed2(c) == LET v == c.hi * M + c.lo IN IF v >= (M * M) \div 2 THEN v - M * M ELSE v

Fits(v, words) == v \in -(words \div 2) .. (words \div 2) - 1

\* Signed arithmetic is exact: add, addi and sub trap exactly when the result does
\* not fit a word, and the double word of hi and lo moves by the product (madd,
\* msub, mult) as long as it does not overflow.
SignedExact ==
  [][LET x == S(Old(inst'.rs))
         y == IF handler' = "addi" THEN inst'.imm ELSE S(Old(inst'.rt))
         sum == IF handler' = "sub" THEN x - y ELSE x + y
         acc == CASE handler' = "madd" -> Signed2(cpu) + x * y
                  [] handler' = "msub" -> Signed2(cpu) - x * y
                  [] OTHER -> x * y
     IN /\ handler' \in {"add", "addi", "sub"} /\ cpu'.exc # "RI" =>
             (cpu'.exc = "Ov" <=> ~Fits(sum, M))
        /\ handler' \in {"madd", "msub", "mult"} /\ cpu'.exc = "none" /\ Fits(acc, M * M) =>
             Signed2(cpu') = acc]_vars

\* What the k-th bit of the result of a shift, rotation or field instruction is.
ResultBit(h, i, a, b, k) ==
  LET sa == IF h \in {"sllv", "srav", "srlv"} THEN a % W ELSE i.shamt
      At(x, n) == IF n \in 0 .. W - 1 THEN Bit(x, n) ELSE 0
      rotates == (h = "srl" /\ i.rs % 2 = 1) \/ (h = "srlv" /\ i.shamt % 2 = 1)
  IN CASE h \in {"sll", "sllv"} -> At(b, k - sa)
       [] h \in {"sra", "srav"} -> IF k + sa < W THEN Bit(b, k + sa) ELSE Bit(b, W - 1)
       [] h \in {"srl", "srlv"} -> IF rotates THEN Bit(b, (k + sa) % W) ELSE At(b, k + sa)
       [] h = "ext" -> IF k <= i.rd THEN At(a, k + i.shamt) ELSE 0
       [] h = "ins" -> IF k \in i.shamt .. i.rd THEN Bit(a, k - i.shamt) ELSE Bit(b, k)
       [] h = "wsbh" -> LET byte == k \div ByteBits
                            other == IF byte % 2 = 0 THEN byte + 1 ELSE byte - 1
                        IN Bit(b, other * ByteBits + (k % ByteBits))
       [] h \in {"seb", "seh"} -> LET n == IF h = "seb" THEN ByteBits ELSE 2 * ByteBits
                                  IN Bit(b, IF k < n THEN k ELSE n - 1)

\* Shifts, rotations and bit fields move every bit to its place, at the ends of
\* the word too (shift.h, ins, ext, wsbh, seb, seh).
BitsInPlace ==
  [][LET h == handler'
         result == cpu'.gpr[IF h \in {"ext", "ins"} THEN inst'.rt ELSE inst'.rd]
     IN h \in {"sll", "sllv", "sra", "srav", "srl", "srlv", "ext", "ins", "wsbh", "seb", "seh"}
        /\ cpu'.exc = "none" =>
          \A k \in 0 .. W - 1 :
            Bit(result, k) = ResultBit(h, inst', Old(inst'.rs), Old(inst'.rt), k)]_vars

\* A word at any address is loaded by lwl and lwr and stored by swl and swr, in
\* either order, and no byte beside it changes.
Unaligned ==
  phase = "ready" => \A addr \in 0 .. MemSize - 4 :
    LET m == cpu.mem
        rt == cpu.gpr[1]
        both == Stored("swr", Stored("swl", m, addr + 3, rt), addr, rt)
    IN /\ lwr(m, addr, lwl(m, addr + 3, rt)) = Joined([k \in 0 .. 3 |-> m[addr + k]], 4)
       /\ lwl(m, addr + 3, lwr(m, addr, rt)) = Joined([k \in 0 .. 3 |-> m[addr + k]], 4)
       /\ both = [x \in DOMAIN m |-> IF x \in addr .. addr + 3 THEN Bytes(rt)[x - addr] ELSE m[x]]
       /\ Stored("swl", Stored("swr", m, addr, rt), addr + 3, rt) = both
=============================================================================
