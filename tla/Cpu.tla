-------------------------------- MODULE Cpu --------------------------------
(***************************************************************************)
(* The instruction loop of cpu_exec (src/cpu/cpu.c) with the handlers it   *)
(* includes from src/cpu/exec/: delay slots, exceptions, interrupts and    *)
(* the count/compare timer.                                                *)
(*                                                                         *)
(* One step is one turn of the loop: fetch, handler, inst_end and          *)
(* check_exception.  The guest program is arbitrary: every step chooses    *)
(* the instruction class it executes and the operands it reads.  General   *)
(* registers are left out; what reaches the control state of the machine   *)
(* (branch targets, words written to cp0) is an input of the step.  The    *)
(* emulator runs in batch mode (work_mode & MODE_BATCH).                   *)
(***************************************************************************)
EXTENDS Integers

CONSTANTS
  AddrSpace,    \* number of byte addresses, 2^32 in the code
  EntryPC,      \* entry argument of init_cpu
  BootVec,      \* 0xbfc00200, exception base while status.BEV = 1
  KernelVec,    \* 0x80000000, exception base while status.BEV = 0
  RefillOff,    \* 0x000
  GeneralOff,   \* 0x180
  IntrOff,      \* 0x200
  CountSpace,   \* number of values of cp0.count, 2^32 in the code
  MARCH_NOOP,   \* CONFIG_MARCH_NOOP: epc is overwritten by nested exceptions
  CONFIG_INTR   \* CONFIG_INTR: the cycle counter ticks and raises line 7

CONSTANTS       \* what the guest program may do
  Targets,      \* branch targets and words written to EPC
  StatusWords,  \* words written to cp0.status
  CauseWords,   \* words written to cp0.cause
  CountWords,   \* words written to cp0.count and cp0.compare
  FaultCodes,   \* codes of exceptions raised by handlers that fall through
  RefusedCodes, \* codes of exceptions raised by handlers that leave by exit
  DeviceLines   \* interrupt lines driven by devices

Addr == 0 .. AddrSpace - 1
Lines == 0 .. 7
TimerLine == 7
ExcCodes == {"INTR", "TLBM", "TLBL", "TLBS", "AdEL", "AdES", "SYSCALL", "BP",
             "RI", "OV"}
Vectors == {base + off : base \in {BootVec, KernelVec},
                         off \in {RefillOff, GeneralOff, IntrOff}}
StatusWord == [EXL : BOOLEAN, ERL : BOOLEAN, IE : BOOLEAN, BEV : BOOLEAN,
               IM : SUBSET Lines]
CauseWord == [IV : BOOLEAN, IP : SUBSET Lines]

ASSUME AddrAssumption ==
  /\ AddrSpace \in Nat /\ AddrSpace > 8
  /\ EntryPC \in Addr
  /\ BootVec \in Nat /\ KernelVec \in Nat
  /\ RefillOff \in Nat /\ GeneralOff \in Nat /\ IntrOff \in Nat
  /\ Vectors \subseteq Addr

ASSUME ConfigAssumption ==
  /\ MARCH_NOOP \in BOOLEAN
  /\ CONFIG_INTR \in BOOLEAN
  /\ CountSpace \in Nat /\ CountSpace > 1

ASSUME InputAssumption ==
  /\ Targets \subseteq Addr
  /\ StatusWords \subseteq StatusWord
  /\ CauseWords \subseteq CauseWord
  /\ CountWords \subseteq 0 .. CountSpace - 1
  /\ FaultCodes \subseteq ExcCodes
  /\ RefusedCodes \subseteq {"RI", "AdEL", "AdES"}
  /\ DeviceLines \subseteq Lines \ {0, 1, TimerLine}

VARIABLES
  cpu,          \* CPU_state and the fields of cp0 that steer control
  nemu_state,   \* NEMU_RUNNING, or the process is gone
  loaded,       \* the device lines as a call of nemu_set_irq under way has read
                \* them: a signal that came after the read is missing in it
  slot,         \* history: the branch whose delay slot comes next
  resume        \* history: where the interrupted program must be resumed, and
                \* whether a second exception has overwritten it

vars == <<cpu, nemu_state, loaded, slot, resume>>

NoBranch == [at |-> -1, to |-> -1]
Branch == [at : Addr, to : Addr]

CpuState ==
  [pc : Addr, br_target : Addr, is_delayslot : BOOLEAN,
   has_exception : BOOLEAN, epc : Addr, BD : BOOLEAN, ExcCode : ExcCodes,
   EXL : BOOLEAN, ERL : BOOLEAN, IE : BOOLEAN, BEV : BOOLEAN,
   IM : SUBSET Lines, IV : BOOLEAN, IP : SUBSET Lines,
   count : 0 .. CountSpace - 1, compare : 0 .. CountSpace - 1]

\* Address arithmetic of vaddr_t: it wraps at the end of the address space.
Wrap(a) ==
  IF a >= AddrSpace THEN a - AddrSpace
  ELSE IF a < 0 THEN a + AddrSpace ELSE a

-----------------------------------------------------------------------------
(* The functions the loop calls, as operators on the CPU state. *)

nemu_set_irq(c, irqno, val) ==
  [c EXCEPT !.IP = IF val THEN @ \union {irqno} ELSE @ \ {irqno}]

\* nemu_set_irq reads cause.IP, changes a bit and writes it back, and signals
\* are not blocked meanwhile: an interrupted call works on what it had read.
\* Only devices write from signal handlers, all other lines are current.
Missed == {i \in DeviceLines : (i \in loaded) # (i \in cpu.IP)}
Loaded(c) == [c EXCEPT !.IP = (@ \ Missed) \union (loaded \intersect Missed)]

\* An exception inside a handler (EXL = 1) does not save its state again,
\* except on MARCH_NOOP.
Outermost(c) == MARCH_NOOP \/ ~c.EXL

VectorOf(c, code, refill) ==
  LET vecOff == IF ~Outermost(c) THEN GeneralOff
                ELSE IF refill THEN RefillOff
                ELSE IF code = "INTR" /\ c.IV THEN IntrOff
                ELSE GeneralOff
  IN (IF c.BEV THEN BootVec ELSE KernelVec) + vecOff

\* Mutant: epc is not moved back to the branch.
raise_exception_EpcInSlot(c, code, refill) ==
  [c EXCEPT !.has_exception = TRUE, !.is_delayslot = ~Outermost(c) /\ @,
            !.epc = IF Outermost(c) THEN c.pc ELSE @,
            !.BD = IF Outermost(c) THEN c.is_delayslot ELSE @,
            !.ExcCode = code, !.EXL = TRUE,
            !.br_target = VectorOf(c, code, refill)]

raise_exception(c, code, refill) ==
  [c EXCEPT
    !.has_exception = TRUE,
    !.is_delayslot = ~Outermost(c) /\ @,
    !.epc = IF ~Outermost(c) THEN @
            ELSE IF c.is_delayslot THEN Wrap(c.pc - 4) ELSE c.pc,
    !.BD = IF Outermost(c) THEN c.is_delayslot ELSE @,
    !.ExcCode = code,
    !.EXL = TRUE,
    !.br_target = VectorOf(c, code, refill)]

\* An interrupt is pending on an enabled line and the CPU accepts interrupts.
IntrDue(c) ==
  /\ ~c.ERL /\ ~c.EXL /\ c.IE
  /\ c.IM \intersect c.IP # {}

\* Mutant: the match is tested before the counter is incremented.
Tick_TestFirst(c) ==
  LET next == IF c.count + 1 = CountSpace THEN 0 ELSE c.count + 1
      d == [c EXCEPT !.count = next]
  IN IF c.count = c.compare THEN nemu_set_irq(Loaded(d), TimerLine, TRUE) ELSE d

Tick(c) ==
  LET next == IF c.count + 1 = CountSpace THEN 0 ELSE c.count + 1
      d == [c EXCEPT !.count = next]
  IN IF next = c.compare THEN nemu_set_irq(Loaded(d), TimerLine, TRUE) ELSE d

\* Mutant: the lines are sampled before the timer raises its own.
check_intrs_SampledEarly(c) ==
  LET d == IF CONFIG_INTR THEN Tick(c) ELSE c
  IN IF IntrDue(c) THEN raise_exception(d, "INTR", FALSE) ELSE d

check_intrs(c) ==
  LET d == IF CONFIG_INTR THEN Tick(c) ELSE c
  IN IF IntrDue(d) THEN raise_exception(d, "INTR", FALSE) ELSE d

\* Mutant: pc leaves the address space.
inst_end_NoWrap(c) ==
  IF c.is_delayslot
  THEN [c EXCEPT !.pc = c.br_target, !.is_delayslot = FALSE]
  ELSE [c EXCEPT !.pc = c.pc + 4]

\* Mutant: the flag survives the delay slot.
inst_end_KeepsSlot(c) ==
  [c EXCEPT !.pc = IF c.is_delayslot THEN c.br_target ELSE Wrap(c.pc + 4)]

inst_end(c) ==
  IF c.is_delayslot
  THEN [c EXCEPT !.pc = c.br_target, !.is_delayslot = FALSE]
  ELSE [c EXCEPT !.pc = Wrap(c.pc + 4)]

prepare_delayslot(c) ==
  [c EXCEPT !.is_delayslot = TRUE, !.pc = Wrap(c.pc + 4)]

\* The tail of a turn of the loop, from label check_exception on.
check_exception(c) ==
  LET d == IF c.has_exception THEN c ELSE check_intrs(c)
  IN IF d.has_exception
     THEN [d EXCEPT !.has_exception = FALSE, !.pc = d.br_target]
     ELSE d

-----------------------------------------------------------------------------
(* The handlers.  Most of them run on to label inst_end; a few leave by     *)
(* label exit and skip it.                                                  *)

Retire(c) == check_exception(inst_end(c))

\* The end of a turn: no call of nemu_set_irq is under way.
TurnEnds ==
  /\ loaded' = cpu'.IP \intersect DeviceLines
  /\ UNCHANGED nemu_state

Running == nemu_state = "RUNNING"
Fetched == Running /\ cpu.pc % 4 = 0

\* History of a handler that left the CPU in state c, next instruction in
\* delay slot s: an interrupt taken now must resume at that instruction, or
\* at the branch that owns it.
ResumeAt(pc, s) ==
  [at |-> IF s = NoBranch THEN pc ELSE s.at, BD |-> s # NoBranch, lost |-> FALSE]

InterruptedFrom(c, s, r) ==
  LET taken == ~c.EXL /\ cpu'.EXL
  IN /\ resume' = IF taken THEN ResumeAt(c.pc, s) ELSE r
     /\ slot' = IF taken THEN NoBranch ELSE s

Interrupted(c, s) == InterruptedFrom(c, s, resume)

\* History of a handler that raised an exception on the instruction at pc.
Faulted ==
  /\ resume' = IF Outermost(cpu) THEN ResumeAt(cpu.pc, slot) ELSE resume
  /\ slot' = NoBranch

\* The same if it raised two: on MARCH_NOOP the second one saves its state over
\* that of the first, which has cleared is_delayslot.
FaultedTwice ==
  /\ resume' = IF Outermost(cpu)
               THEN [ResumeAt(cpu.pc, slot) EXCEPT !.lost = MARCH_NOOP /\ slot # NoBranch]
               ELSE resume
  /\ slot' = NoBranch

\* Arithmetic, logic, moves, loads and stores that meet no exception.
ExecPlain ==
  /\ Fetched
  /\ cpu' = Retire(cpu)
  /\ Interrupted(inst_end(cpu), NoBranch)
  /\ TurnEnds

\* wait sleeps for a microsecond of host time and runs on to inst_end.
ExecWait ==
  /\ Fetched
  /\ cpu' = Retire(cpu)
  /\ Interrupted(inst_end(cpu), NoBranch)
  /\ TurnEnds

\* Exceptions whose handler runs on to inst_end: a TLB fault on the fetch (the
\* word read is then a nop) or on a load or store, syscall, break, add/addi/sub
\* overflow, and the reserved instructions of handler inv.
ExecFault(code, refill) ==
  /\ Fetched
  /\ refill => code \in {"TLBL", "TLBS"}
  /\ cpu' = Retire(raise_exception(cpu, code, refill))
  /\ Faulted
  /\ TurnEnds

\* ldc1 and sdc1 access two words of one page and do not look at has_exception
\* in between: what the first access raises the second one raises again.
ExecFaultTwice(code, refill) ==
  /\ Fetched
  /\ code \in {"TLBL", "TLBS", "TLBM"}
  /\ refill => code # "TLBM"
  /\ cpu' = Retire(raise_exception(raise_exception(cpu, code, refill), code, refill))
  /\ FaultedTwice
  /\ TurnEnds

\* Exceptions that leave by label exit: InstAssert and CHECK_ALIGNED_ADDR.
ExecRefused(code) ==
  /\ Fetched
  /\ cpu' = check_exception(raise_exception(cpu, code, FALSE))
  /\ Faulted
  /\ TurnEnds

\* A program counter that is not a multiple of 4 (jr, jalr, eret).
FetchMisaligned ==
  /\ Running
  /\ cpu.pc % 4 # 0
  /\ cpu' = check_exception(raise_exception(cpu, "AdEL", FALSE))
  /\ Faulted
  /\ TurnEnds

\* Branches and jumps, and likely branches that are taken.  A branch that is
\* not taken has target pc + 8.
ExecBranch(target) ==
  LET c == prepare_delayslot([cpu EXCEPT !.br_target = target])
  IN /\ Fetched
     /\ cpu' = check_exception(c)
     /\ Interrupted(c, [at |-> cpu.pc, to |-> target])
     /\ TurnEnds

\* A likely branch that is not taken skips its delay slot.
ExecLikelyNotTaken ==
  LET c == inst_end([cpu EXCEPT !.br_target = Wrap(cpu.pc + 8),
                                !.pc = Wrap(cpu.pc + 4)])
  IN /\ Fetched
     /\ cpu' = check_exception(c)
     /\ Interrupted(c, NoBranch)
     /\ TurnEnds

\* No instruction can write ErrorEPC, it keeps its initial value 0.
eret(c) ==
  IF c.ERL
  THEN [c EXCEPT !.has_exception = TRUE, !.br_target = 0, !.ERL = FALSE]
  ELSE [c EXCEPT !.has_exception = TRUE, !.br_target = c.epc, !.EXL = FALSE]

ExecEret ==
  /\ Fetched
  /\ cpu' = Retire(eret(cpu))
  /\ slot' = NoBranch
  /\ UNCHANGED resume
  /\ TurnEnds

mtc0_status(c, w) ==
  [c EXCEPT !.BEV = w.BEV, !.IM = w.IM, !.ERL = w.ERL, !.EXL = w.EXL,
            !.IE = w.IE]

mtc0_compare(c, v) ==
  nemu_set_irq(Loaded([c EXCEPT !.compare = v]), TimerLine, FALSE)

\* Mutant: every line is written.
mtc0_cause_AllLines(c, w) == [c EXCEPT !.IV = w.IV, !.IP = w.IP]

\* Only the two software lines of cause.IP are written.
mtc0_cause(c, w) ==
  LET d == nemu_set_irq(Loaded([c EXCEPT !.IV = w.IV]), 0, 0 \in w.IP)
  IN nemu_set_irq(Loaded(d), 1, 1 \in w.IP)

\* mtc0 of a register that leaves the CPU in state c.
ExecMtc0(c) ==
  /\ Fetched
  /\ cpu' = Retire(c)
  /\ Interrupted(inst_end(c), NoBranch)
  /\ TurnEnds

ExecMtc0Status == \E w \in StatusWords : ExecMtc0(mtc0_status(cpu, w))
ExecMtc0Compare == \E v \in CountWords : ExecMtc0(mtc0_compare(cpu, v))
ExecMtc0Cause == \E w \in CauseWords : ExecMtc0(mtc0_cause(cpu, w))
ExecMtc0Count == \E v \in CountWords : ExecMtc0([cpu EXCEPT !.count = v])

\* Software that writes EPC chooses another point to resume at.
ExecMtc0Epc(a) ==
  LET c == [cpu EXCEPT !.epc = a]
  IN /\ Fetched
     /\ cpu' = Retire(c)
     /\ InterruptedFrom(inst_end(c), NoBranch, [resume EXCEPT !.at = a])
     /\ TurnEnds

\* The process ends in the middle of a handler: a write to the trap register of
\* cp0 or to the trap device leaves by nemu_exit, a trap instruction, a trap of
\* the host's divider or a failed assertion aborts it.
ExecStop ==
  /\ Fetched
  /\ nemu_state' = "EXITED"
  /\ UNCHANGED <<cpu, loaded, slot, resume>>

\* A load or store of a device register that drives the device's line.  A signal
\* of the same device inside the access is as good as one before it: the access
\* has the last word.
ExecDevice(irqno, val) ==
  /\ irqno \notin Missed
  /\ ExecMtc0(nemu_set_irq(Loaded(cpu), irqno, val))

\* A device drives its line from a signal handler.  The signal comes between two
\* calls of nemu_set_irq or inside one, which then does not see it; it may
\* itself be interrupted by another signal.
DeviceIrq(irqno, val) ==
  /\ Running
  /\ \E c \in {cpu, Loaded(cpu)} : cpu' = nemu_set_irq(c, irqno, val)
  /\ loaded' \in {loaded, cpu'.IP \intersect DeviceLines}
  /\ UNCHANGED <<nemu_state, slot, resume>>

Init ==
  /\ cpu = [pc |-> EntryPC, br_target |-> 0, is_delayslot |-> FALSE,
            has_exception |-> FALSE, epc |-> 0, BD |-> FALSE,
            ExcCode |-> "INTR", EXL |-> FALSE, ERL |-> FALSE, IE |-> FALSE,
            BEV |-> TRUE, IM |-> {}, IV |-> FALSE, IP |-> {},
            count |-> 0, compare |-> CountSpace - 1]
  /\ nemu_state = "RUNNING"
  /\ loaded = {}
  /\ slot = NoBranch
  /\ resume = [at |-> 0, BD |-> FALSE, lost |-> FALSE]

Next ==
  \/ ExecPlain
  \/ ExecWait
  \/ \E code \in FaultCodes, refill \in BOOLEAN : ExecFault(code, refill)
  \/ \E code \in FaultCodes, refill \in BOOLEAN : ExecFaultTwice(code, refill)
  \/ \E code \in RefusedCodes : ExecRefused(code)
  \/ FetchMisaligned
  \/ \E t \in Targets \union {Wrap(cpu.pc + 8)} : ExecBranch(t)
  \/ ExecLikelyNotTaken
  \/ ExecEret
  \/ ExecMtc0Status
  \/ ExecMtc0Compare
  \/ ExecMtc0Cause
  \/ ExecMtc0Count
  \/ \E a \in Targets : ExecMtc0Epc(a)
  \/ ExecStop
  \/ \E i \in DeviceLines, v \in BOOLEAN : ExecDevice(i, v)
  \/ \E i \in DeviceLines, v \in BOOLEAN : DeviceIrq(i, v)

Spec == Init /\ [][Next]_vars

-----------------------------------------------------------------------------
(* Properties *)

\* Type invariant: every register stays within its width, no exception is left
\* half taken at the end of a turn of cpu_exec.
TypeOK ==
  /\ cpu \in CpuState
  /\ ~cpu.has_exception
  /\ nemu_state \in {"RUNNING", "EXITED"}
  /\ loaded \subseteq DeviceLines
  /\ slot \in Branch \union {NoBranch}
  /\ resume \in [at : Addr, BD : BOOLEAN, lost : BOOLEAN]

\* The flag is_delayslot is up exactly while the instruction after a branch is
\* due, pc is then the address after the branch and br_target its target
\* (prepare_delayslot, inst_end, raise_exception).
DelaySlotExact ==
  /\ cpu.is_delayslot <=> slot # NoBranch
  /\ slot # NoBranch => /\ cpu.pc = Wrap(slot.at + 4)
                        /\ cpu.br_target = slot.to

\* What holds on every machine (mips32r1 and noop): a flag left over by an exception inside a
\* handler (EXL = 1) is met at the general vector only, with br_target naming
\* the vector itself, so no other instruction is ever skipped or repeated; on
\* MARCH_NOOP none is left over.
DelaySlotKnown ==
  \/ DelaySlotExact
  \/ /\ ~MARCH_NOOP
     /\ slot = NoBranch
     /\ cpu.is_delayslot
     /\ cpu.EXL
     /\ cpu.pc = cpu.br_target
     /\ cpu.pc \in {BootVec + GeneralOff, KernelVec + GeneralOff}

\* EPC and Cause.BD always say where the interrupted program has to be resumed:
\* the instruction that took the outermost exception or that an interrupt came
\* before, and the branch when that instruction sits in a delay slot.  Nested
\* exceptions, later instructions and devices leave it alone.  The one case in
\* which the branch is forgotten is an ldc1 or sdc1 that faults in a delay slot on
\* MARCH_NOOP.
EpcResumes == ~resume.lost => cpu.epc = resume.at /\ (cpu.BD <=> resume.BD)

\* A pending and enabled interrupt is taken at the end of the instruction that
\* executes, whatever it is: only eret (which leaves has_exception set and so
\* skips check_intrs) and a device driving its line leave one waiting.
InterruptPrompt ==
  [][IntrDue(cpu') /\ nemu_state' = "RUNNING" =>
       ExecEret \/ \E i \in DeviceLines, v \in BOOLEAN : DeviceIrq(i, v)]_vars

\* A line of cause.IP changes on behalf of its owner only: a device's by that
\* device (its signal or an access to its registers), the timer's by a match and
\* a write to Compare, the software lines by a write to Cause.  The exception is
\* a call of nemu_set_irq that a signal of the device interrupted between its
\* read and its write of cause.IP: it puts the line back as it was before the
\* signal, so that a request may be lost or a withdrawn one come back.
IrqLinesHeld ==
  [][\A i \in (cpu.IP \ cpu'.IP) \union (cpu'.IP \ cpu.IP) :
       \/ i \in DeviceLines /\ (\/ DeviceIrq(i, i \in cpu'.IP)
                               \/ ExecDevice(i, i \in cpu'.IP)
                               \/ i \in Missed)
       \/ i = TimerLine /\ IF i \in cpu'.IP THEN cpu'.count = cpu'.compare
                                           ELSE ExecMtc0Compare
       \/ i \in {0, 1} /\ ExecMtc0Cause]_vars

\* The counter never stands at Compare without the timer line being up: the
\* match is noticed on the tick that reaches it and cannot be stepped over.
TimerMatchPending ==
  CONFIG_INTR /\ cpu.count = cpu.compare => TimerLine \in cpu.IP
=============================================================================
