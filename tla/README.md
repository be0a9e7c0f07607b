# TLA+ models of nemu-mips32

NEMU-MIPS32 is an interpreter for MIPS32 machines: an instruction loop with delay
slots, exceptions, interrupts and a timer, a TLB, two caches that speed the loop up,
a software floating point unit, a handful of devices, a gdb stub and a monitor.  This directory models the parts
whose correctness depends on the order of events or on the edges of a word, checks
them with TLC on small instances, and proves what matters most with TLAPS for every
value of the constants.  `PROJECT.json` maps each definition to the lines it stands
for and lists the hazards of the code with the properties that watch them.

## The system

| part | source | interacts with | module |
| --- | --- | --- | --- |
| instruction loop, exceptions, interrupts, timer | `src/cpu/cpu.c`, `src/cpu/exec/{exec,exec-macros,branch,system,trap}.h` | everything; devices raise lines in `cause.IP` | `Cpu` |
| TLB, segments, cache of translations | `src/cpu/mmu.c`, `mmu-cache.h`, `include/cpu/memory.h` | loads, stores, exceptions, EntryHi, Status.ERL | `Mmu` |
| cache of decoded instructions | `src/cpu/decode-cache.h`, `exec/exec.h` | stores, `cache`, exceptions, the stub | `DecodeCache` |
| decoder and integer instructions | `src/cpu/cpu.c`, `exec/exec-handlers.h`, `arith*.h`, `shift.h`, `setcc.h`, `mdu.h`, `memory.h` | registers, memory, exceptions | `Exec` |
| ring buffers | `include/utils/fifo.h` | serial line, SPI, keyboard | `Fifo` (implements `BoundedQueue`) |
| serial line | `src/dev/xlnx-ulite.c`, `src/dev/events.c` | signal handlers, terminal, interrupt line | `Ulite` |
| SPI controller | `src/dev/xlnx-spi.c` | ring buffers, flash, timer signal | `Spi` (extends `Fifo`) |
| serial flash | `src/dev/flash.c` | SPI controller, an image file | `Flash` |
| gdb stub | `src/utils/gdbstub/*.c`, `src/monitor/monitor.c` | the loop, gdb, SIGINT | `Gdb` |
| software floating point | `src/utils/softfloat.c`, `include/softfloat/*.h` | called by `exec/float.h` | `Float*`, `Words`, `SoftFloat`, `SoftFloatSpec` |
| floating point instructions | `exec/float.h` | registers, exceptions | the pair loads and stores in `Cpu` |
| simple devices | `src/dev/nemu-*.c`, `ddr.c`, `bram.c` | loads and stores | the trap device in `Cpu`, `Gdb` |
| monitor, traces, profiles | `src/monitor/*.c`, `src/utils/{elfsym,hash}.c` | command line, images | `gdb_sigint_handler` in `Gdb` |
| differential testing | `src/monitor/difftest.c`, `src/utils/qemu.c` | a QEMU process | none |
| network | `src/utils/vnet/*.c`, `src/dev/xlnx-elite.c` | compiled with CONFIG_NETWORK only | none |
| configuration tool | `kconfig/` | the build | constants of the modules |

One process executes the guest.  Concurrency comes from POSIX signals (`SIGVTALRM` of
`events.c`, `SIGINT`, `SIGTSTP`), which arrive between any two machine instructions of
the emulator, and from the processes at the other end of a socket or a terminal.
Everything else that is hard is sequential: long sequences of guest instructions and
register accesses after which two pieces of state must still agree.

The configurations are those of `configs/`: *mips32r1* (interrupts), *noop* (no
interrupts, exceptions that overwrite EPC), *microbench* (decode cache, neither delay
slots nor exceptions).  `MARCH_NOOP`, `CONFIG_INTR` and `Builds` stand for them.

## The modules and the code

**Cpu** — one action is one turn of the loop of `cpu_exec` (cpu.c:469-511): fetch,
handler, `inst_end`, `check_intrs`, the jump to `br_target`.  What a handler computes
from registers is an input (`Targets`, `StatusWords`, `FaultCodes`...).  There are two
ways out of a handler, as in the code: by `inst_end` (`ExecFault`, a TLB exception or
syscall; `ExecFaultTwice`, the two accesses of `ldc1` and `sdc1`) and by `goto exit` (`ExecRefused`: `InstAssert`, `CHECK_ALIGNED_ADDR`).
`slot` and `resume` are history variables: the branch whose delay slot is due, and the
point at which the interrupted program has to go on.  `nemu_set_irq` reads `cause.IP` and
writes all of it back, and a device raises its line from a signal handler: `loaded` is what
a call under way has read of the device lines, and `DeviceIrq` may come before, inside or
after that call, which then puts the lines back as it read them (`Missed`, `Loaded`).

**Mmu** — the TLB, the four TLB instructions, `mtc0` of the registers a translation
reads, `eret` and exceptions (which flip ERL), loads and stores through the cache of
translations.  Pages are numbers, a segment has `SegPages` of them.  `CpuAbort` is the
end of the emulator on an address no segment or device serves.  `staleAsid` records a
`tlbr` that changed the address space; `missed` is the access of the last refill exception
as long as EntryHi is the one the exception left, and `filled` that access once the handler
has answered it with `tlbwi` or `tlbwr`.

**DecodeCache** — chains of decoded nodes, the heads indexed by pc, the pointer `ds`
and all that moves, extends, frees or drops them.  An instruction is its kind.  It ends, as
in the code, with `inst_end` and then `check_intrs`, at which an interrupt may be taken; an
instruction that raises an exception leaves by `inst_end` or, past it, by `goto exit`.
`strayed` records why `ds` no longer follows `pc`; `dirty` the words a program has
written and not yet flushed.

**Exec** — words of four bytes of `ByteBits` bits; the decoder's tables, the fields
`decoder_set_state` writes into a node that came from `malloc` (its other fields are
any value of `Garbage`), and the handlers.  One step executes one instruction from one
state, from the word and from the cached node.

**BoundedQueue, Fifo** — the abstract queue (a push to a full queue is refused) and
the macros of `fifo.h` on head, size and array; `Queue` instantiates the first with
the refinement mapping `fifo_foreach`.

**Ulite** — the receive path with every load and store of `fifo_push`, `fifo_pop` and
`nemu_set_irq` an action of its own, a stack of frames for the main program and the
handlers of SIGVTALRM, SIGINT and SIGTSTP, which nest.  `expect` is what the guest should
still be able to read; `split` records that a signal came between the two halves of a
read-modify-write.  `Driver` is a guest that waits for the interrupt, `free` any guest.

**Spi** — every register access, `spi_flush_txfifo` byte by byte, and
`xlnx_spi_update_irq` called by the timer signal between any two steps.  The receive
fifo is the ring of `Fifo`; the flash answers any byte.

**Flash** — the command decoder of `flash.c`, programming and erasing, the dirty page,
the image file and `flash_init`, which restarts the emulator at any point.  A byte has
one bit; `gap` records a hole of zeroes the file got by a write beyond its end, `overrun`
an erase that ran over the end of the storage, both since the last start.  `panicked` is the
end of `flash_init` when no part has the size of the file.

**Gdb** — the server of `gdb-server.c` over the acknowledged packets of `gdb-proto.c`,
with gdb as the client (external: it sets a breakpoint once, repeats a request on `-`,
and acknowledges and forgets a packet it gets in place of an acknowledgement), `^C` that
reaches both processes, and the parts of `cpu_exec` that start and stop the program.
An instruction may leave any pc (a branch, a breakpoint in a delay slot, an interrupt taken
at its end).  `plain` is memory without the breakpoints; `ended` records that the program
has ended and no SIGINT came since.

**The floating point modules** — softfloat.c has four formats and each routine once per
format, so the model is cut the other way:

- `FloatBase` the status, the flags, and the shifts, estimated quotients and roots of
  `softfloat-macros.h` on whole numbers; `FloatInt` the rounding to integers;
  `FloatCompare` the comparisons, which are the same text for every format;
- `Float` what float32 and float64 share (packing, rounding, NaN rules, add, sub, mul,
  fused multiply-add, minimum and maximum, scaling), with the widths of exponent,
  fraction and guard bits as constants; `Float32` and `Float64` what each does in its own
  way (division, remainder, square root, integers);
- `FloatX80`, `Float128`, `Float16` the formats of other shapes, `FloatConvert` the
  conversions between formats;
- `Words` the operations on two and three words, word by word, as the C code does
  them: everywhere else a pair of words is the integer it stands for;
- `SoftFloat` a caller that makes one call with any operands and any status (rounding
  direction, flush modes, tininess, default NaN, precision of the extended format);
- `FloatRef` the reference: an exact result, rounded once; `SoftFloatSpec` the
  properties, which compare value *and* flags of every call with it.

Every width is a constant, the text is that of the 32 and 64 bit code.  The build is the
one of the emulator: `TARGET_MIPS` is not defined, so that SNAN_BIT_IS_ONE is 0 and the
NaN rules are those of the default target.

## Runs

| run | result | states | bounds and why they are enough |
| --- | --- | --- | --- |
| `cpu` | TypeOK, DelaySlotKnown, EpcResumes, TimerMatchPending, InterruptPrompt, IrqLinesHeld hold | 708 thousand | mips32r1, 16 bytes with both sets of vectors and an unaligned target; addresses wrap; a counter modulo 2 with a Compare that changes, the timer, one software and one device line (noop is an instance of the proofs); nested exceptions need three turns, all depths are reached because EXL is one bit |
| `cpu_slot_left_over` | DelaySlotExact is violated | | finding 1 |
| `mmu` | TypeOK, CacheCoherent, AsidKept, RefillAnswered hold | 405 thousand | two TLB entries, two address spaces, a cache of one line so that pages collide; a page that may not be written, one that is not present, memory and a device reached directly while ERL is set, and kseg3; a second miss, an exception and a return between a miss and its retry |
| `mmu_tlbr` | Coherent is violated | | finding 2 |
| `decode` | FreshOnChain holds | 1.1 million | three words, two heads, an interrupt at the end of any instruction; `ChainBound` cuts chains that a strayed `ds` makes longer for ever, after which FreshOnChain claims nothing (the proof has no such bound) |
| `ulite` | FifoIntact, Announced, InOrder, EveryCharRead hold | 472 thousand | a fifo of two, three arrivals, so that it fills, drops and wraps; all three handlers nest |
| `ulite_race` | ValidDataMeansData is violated | | finding 3 |
| `spi` | TypeOK, StatusExact, InterruptExact, LossReported, ImplementsQueue hold | 172 thousand | fifos of two bytes, three interrupt masks |
| `flash` | BufferUsed, Durable, SamePart hold | 1.9 million | parts of four and six bytes, so that an erase over the end of the first makes a file for the second and one over the end of the second a file for none; pages and sectors of two, all commands, three image files (empty, short, full), restarts anywhere |
| `gdb` | Transparent, SameBreakpoints, AnsweredOnce, EndedStays, Replied hold | 403 thousand | a table of one slot and two breakpoint addresses, so that it fills, one damaged packet and one `^C` at any point, any pc after an instruction |
| `exec` | Unaligned, CachedSame, Restartable, SignedExact, BitsInPlace hold | 100 thousand | eight bit words with operands at the edges of both ranges, every opcode and function, every alignment |
| `softfloat` | ArithmeticRounded, SpecialOperands, FusedRounded, ComparesOrder, IntegersRounded, ConversionsRounded, WordsExact hold | 656 thousand | see below |

The formats of `softfloat` are as wide as 32 bit products allow: 8 and 13 bit singles
and doubles, extended words of 8 and quadruple ones of 2 times 8 bits, wider ones for the
conversions, which do not multiply; integers of 3, 4 and 12 bits.  Operands are zero,
subnormals, the least and largest normals, one, the middle of the integers, infinities,
quiet and signaling NaNs, with fractions of no, one, alternating and all bits; conversions
get every exponent near the ends of the narrower format, half precision every encoding.
Each rounding direction, and each flush mode, tininess rule, default NaN mode and
precision of its own, is a status.  The only loops are the long remainder and the corrections of
estimates, so what a width decides is which of those corrections and which carries
happen; the alternating fractions and the quotients of unequal significands make them
happen.

What the properties say is in the comment above each of them.  Every property of a
passing run has a mutant, a plausible slip in one mapped definition under which TLC
finds the property violated: each says something about the code.

Deadlock is checked in `spi`.  It is off in the runs of `Cpu`, `Mmu`, `DecodeCache` and
`Flash` (the emulator exits, aborts or panics), of `Exec` and `SoftFloat` (one instruction
or call per behaviour), of `Ulite` (nobody has to type) and of `Gdb` (see Replied below).

### Fairness

`Ulite`: weak fairness of the steps of the context that runs (a processor goes on) and
of the driver; none of arrivals.  `Gdb`: weak fairness of the server, the guest's
processor, gdb's reading and the delivery of a pending SIGINT; none of the user.
Nothing else assumes fairness.
`EveryCharRead` ends at `split`: after a torn read-modify-write a character may be gone
(finding 3).  `Replied` leaves out a continue of a program that has not ended, which the
guest may never end, and the state `Unheard`: after a `^C` was taken for an acknowledgement the stub is one
acknowledgement ahead, and if the next answer is damaged, which TCP excludes, gdb asks
for it again and the stub does not listen.

### Findings

1. `cpu_slot_left_over`: on mips32r1 an exception with EXL = 1 that leaves a delay slot
   by `goto exit` keeps `is_delayslot` (cpu.c:160-163); the first instruction of the
   handler is executed twice.  `DelaySlotKnown` and its proof say that nothing else
   can happen; on noop nothing does (`DelaySlotCorrectOnNoop`).
2. `mmu_tlbr`: `tlbr` brings in an ASID and leaves the cache of translations as it is
   (mmu.c:33, system.h:8).
3. `ulite_race`: a character pushed by a signal handler while the guest pops is lost
   (xlnx-ulite.c:99,155,172) and STAT does not show it.

Met while modelling and not given a run:

- With the decode cache on a machine with exceptions (Kconfig allows it, no shipped
  configuration has it) an exception changes pc and not `ds` (cpu.c:506): the handler
  starts with the cached instruction after the one that raised it.  A likely branch
  that is not taken strays the same way.  After an interrupt at the end of a jump `ds` is
  at the head of the target: the handler is appended to the chain of that head and
  executed again at the next jump to the target.  `FreshOnChain` excepts all three
  until `ds` is fetched again, the last two until the chains have been dropped as well.
- With the decode cache the floating point handlers read `fd`, `cc1`, `cc2`, `tf` and
  `nd`, which `decoder_set_state` does not set.
- `ll` writes its register although the load faulted (memory.h:98); `Restartable`
  excepts it by name.
- Divisions by zero and of the smallest integer by -1 trap the host (mdu.h).
- The page mask assertion of mmu.c:91 admits a mask of 0 only; kseg3, which
  include/cpu/memory.h names, ends the emulator.
- `wait` moves pc on, the comment of system.h:55 says it does not.
- `--symbol` returns `'S'` (monitor.c:111), the switch has `'s'` (monitor.c:238): the
  option prints the help text.
- SIGINT overwrites NEMU_END (monitor.c:292), so that an ended program can be continued
  against the message of cpu.c:456, which `EndedStays` excepts, and is itself overwritten
  if it comes before cpu.c:462.
- `cpu.pc -= 4` after a continue (gdb-server.c:195) is right for stops at breakpoint
  instructions only, and not even there when the instruction is in a delay slot or an
  interrupt is taken at its end.  No document says which pc a stop reports, so no
  property does.
- A device line raised by a signal inside `nemu_set_irq` (cpu.c:47) is put back by it,
  whichever line the call was for; `IrqLinesHeld` excepts exactly this.
- A request of gdb for a device register that does not exist (xlnx-ulite.c:88) fails an
  assertion outside `cpu_exec`: the longjmp of debug.h:73 then goes to a frame that has returned.
- `uint64_to_float128` (softfloat.c:1418) leaves its argument in the upper word of the
  significand and so returns it times 2^64, where softfloat.h:282 declares a conversion;
  the emulator never calls it.  `IntegersRounded` excepts it by name
  (`ScaleUnspecified`) for arguments other than 0.
- Negative numbers converted to unsigned 64 bit integers raise invalid alone; the comments
  of softfloat.c:1588, 1634 and 7039 say that the inexact exception is raised.
  `IntegersRounded` asks for the value and excepts the flags (`FlagsUnspecified`).
- With flush-to-zero, addFloat32Sigs flushes the sum of two subnormals although it may
  be normal, and a remainder that is an operand is returned as it is; `FlushUnspecified`
  excepts both.  A directed rounding to a half beyond the halves' range
  (`HalfUnspecified`) is excepted too.
- `ldc1` and `sdc1` of a pair make two accesses (float.h): if both fault the second
  exception overwrites the first.  On noop EPC is then wrong in a delay slot, because the
  first one has cleared the flag; on mips32r1 the refill enters the general vector.  `Cpu`
  has the step, and `EpcResumes` excepts it.
- Of `float.h`: `trunc_w_s` and `trunc_w_d` round to nearest; `movcf_d` indexes the
  32 bit registers with a 64 bit number; the `c_un` comparisons store 0; `cfc1` of
  register 28 ors in a condition bit, and `ctc1` and `cfc1` of register 25 disagree on
  the places of the bits.
- The linking branches write register 31 before they read their operand
  (branch.h:54,63), and `jalr` with rd = rs jumps to its own link (branch.h:82).
- An erase of a block or a sector of the flash is neither aligned nor cut off at the end
  of the storage (flash.c:561): it writes past the end of the array and makes the image
  file longer than the part, so that the next start takes a larger part or panics.
  `SamePart` excepts it.  Programming does not look at the write enable latch (flash.c:578), and
  `clear_decode_cache` drops chains without freeing them
  (decode-cache.h:20).

## Proofs

All are checked by TLAPS from the named assumptions on the constants, which the runs
evaluate.  They hold for every size and every set of inputs the assumptions admit.

- **CpuProofs** (`AddrAssumption`, `ConfigAssumption`, `InputAssumption`: more than
  eight bytes of memory, vectors inside it, inputs of their types).  None of the
  properties is inductive alone: EPC is computed from pc, `is_delayslot` and the flag's
  history, so `IInv` joins TypeOK, the exact *or stale* state of the delay slot,
  `Resumable` (EPC and BD against `resume`) and `TimerSeen`.  The proof follows the
  code: lemmas on `raise_exception`, `Tick`, `check_intrs` and `inst_end`, then on the
  ends of a turn (`EndOfTurn`, `EndOfFault`), then one step per action.  Results:
  TypeCorrect, DelaySlotCorrect, DelaySlotCorrectOnNoop, EpcCorrect, TimerCorrect, and
  the action properties PromptCorrect (a turn that ends by `check_intrs` leaves no
  enabled interrupt waiting) and LinesCorrect (a line changes on behalf of its owner only,
  except for a call of `nemu_set_irq` that a signal of the device interrupted).
- **MmuProofs**: MmuTypeCorrect and CacheCorrect.  The inductive invariant is
  CacheCoherent over all pages with the types; the argument is that a fill copies a
  walk and that every action that changes what a walk reads clears the cache, except
  `tlbr`, which sets `staleAsid`.  AsidCorrect is an action property from the types.
  RefillCorrect joins the exception, the write of the handler and the retry: its invariant
  `RInv` says that EntryHi still names the page that missed and that no other entry matches
  it (`MissInv`, for as long as nobody has changed EntryHi or the TLB), and that after the
  write exactly one entry does, with the half that was written (`FillInv`).  The first
  entry that matches is the least one of a set of numbers (`FirstOf`).
- **DecodeProofs** (`DecodeAssumption`): FreshCorrect.  What is executed at pc is taken
  from a chain without a look at pc, so the invariant has to know where the nodes came
  from: each chain has a sequence of addresses (`Decoded`) that starts at the pc of its
  head, in which each node is one stride after the one before, and every node holds the
  word in memory but for those written since the chains were dropped; and ds, unless it
  has strayed, is at the node whose address is pc (`Follows`).  A detached ds may be
  behind by the words in `dirty`, the heads only by those in `stored`.  There is a lemma
  for each operation on the cache (`FetchFollows`, `EnterFollows`, `ClearFollows`...)
  and a step for each kind of instruction, each with an interrupt at its end
  (`LeaveStraight`, `LeaveJump`).  Chains and programs are of any length.
- **FifoProofs** (`FifoAssumption`: a positive capacity; `SpiAssumption`): for the ring
  FifoImplementsQueue, the refinement `RingSpec => Queue!Spec`.  The lemmas say what
  `fifo_foreach` of a pushed and of a popped ring is, by arithmetic modulo the capacity.
  For the controller, which extends the ring, SpiTypeCorrect, StatusCorrect,
  InterruptCorrect, LossCorrect and SpiImplementsQueue.  The properties speak of the time
  between accesses; the inductive invariant says what holds of each status bit inside the
  flush loop as well (`FlushExact`), where TX_EMPTY is still down, and wherever the timer
  signal comes in.
- **FlashProofs** (`FlashAssumption`: parts of whole pages, a buffer that holds a long
  address and the identification): BufferCorrect, DurableCorrect and PartCorrect.
  `IInv` adds to the two invariants what each command in progress has collected and
  still needs (`Good`), that the file is no longer than the part and that the part is
  the one `flash_init` finds for it (`Disk`), which is why a restart finds it again; both
  last until an erase runs over the end of the storage.
- **UliteProofs** (`UliteAssumption`): IntactCorrect, AnnouncedCorrect, OrderCorrect and
  ValidDataUnlessSplit, for every capacity, every number of characters and signals that
  nest to any depth.  The state is a stack of contexts stopped between two loads or
  stores, so `IInv` says of each what may be left of its program: main at the bottom
  with an instruction, handlers above it with the rest of a handler (`Stack`, `MainProg`,
  `HandlerProg`); that the line is down with interrupts disabled unless main is about to
  lower it (`LineDown`); and, as long as no signal came in the middle of an operation,
  that what the running context has loaded is still there and that the ring, as a pop
  under way found it, holds the characters owed (`Whole`).  The first two hold whatever
  was split, which is why the second half of Announced needs no exception.
  ValidDataUnlessSplit completes the run `ulite_race`: a split operation is the *only* way
  in which STAT can miss a character.  The lemmas on the ring are those of FifoProofs.
- **GdbProofs** (`GdbAssumption`): TransparentCorrect, SameBreakpointsCorrect,
  AnsweredOnceCorrect and EndedStaysCorrect, for every program, table size, number of
  damaged packets and of ^C.  What is on the two sides of the socket depends on how far a
  request has come, so `IInv` has five phases (`Protocol`): none under way; sent, behind
  the acknowledgement the server may still wait for; damaged, with a "-" behind old
  answers; taken, with a "+" between answers to the last request and answers to this one;
  and waited for.  `Agree` says what gdb knows of the table in each phase and what every
  answer under way says of it; `OneSlotEach` that no address has two slots.  AnsweredOnce
  follows from the phases; SameBreakpoints from `Agree`, with a bijection from slots to
  addresses; Transparent is inductive with them, because a breakpoint is only asked for
  at an address that has none.  There is a lemma for what each operation does to the
  table, for what reading and sending does to each side, and then one for each action.

- **ExecProofs** (`ExecAssumption`: bytes of at least one bit, a memory of whole words;
  `InstAssumption`: immediates that fit a word, register fields that name a register):
  CachedSameHolds, RestartableHolds, SignedExactHolds, BitsInPlaceHolds and
  UnalignedHolds, for every byte width (8 in the code), memory size, set of states and
  set of instructions, so for the real word of 32 bits.  The inductive invariant is only
  `Ready`, a state before an instruction is one of `Cpus`; the work is in the one step.
  Its lemmas come in layers:
  * numbers and their bits: two words with the same bits are equal, `Digits` has the bits
    it is given, so that `And`, `Or`, `Not_`, the shifts, `Sext`, `rotr`, `ins`, `ext` and
    `wsbh` are each described by what bit k of the result is (`ShlBits` ... `WsbhBits`);
  * bytes: a word is its four bytes (`BytesDetermine`), and what `vaddr_read` and
    `vaddr_write` move, which gives the halves `lwl`, `lwr`, `swl` and `swr` move and from
    them UnalignedHolds;
  * `Execute` by kinds of handlers (`ExecuteRd`, `ExecuteLoad`...), each with its guards;
  * decoding: a handler reached through the tables only reads fields that
    `DecodedFields` names for its opcode (`SameExecute`), which is CachedSameHolds;
  * signed arithmetic: bits W and W - 1 of a sum of two signed words differ exactly when
    the sum does not fit (`OverflowExact`), and hi and lo together are the product or the
    accumulated product modulo the square of the word (`DoubleWord`).

Induction over data is used on sets of numbers only, from the library's statement that
the order of the naturals is well-founded: a recursive function that had a wrong value
would have a first one (`LeastOf`, `NumberType` in FlashProofs), a set with 0 and the
successor of each member is Nat (`Induction` in ExecProofs, for the powers of two and
`Digits`, whose recursion is first shown to have a solution).  Only model-checked:

- liveness (EveryCharRead, Replied), which is out of the prover's reach;
- the floating point modules.  They are written with `2^n`, of which the provers know
  nothing (as the recursive function `Pow2` of Exec it makes the run five times as long),
  and with recursive operators for the loops that correct an estimate, which the SMT
  backend does not accept in a module with a theorem.  ArithmeticRounded, FusedRounded and
  IntegersRounded would also need an induction for each of these loops, and products and
  quotients of unknowns in the comparison with the exact rational.

The safety properties of all other modules are proved.

## Not modelled

- Of `softfloat.c`: float32_exp2, float32_log2 and float64_log2, which are approximations
  without a stated error, and `abs`, `chs` and `set_sign`, which change one bit.
- The table behind the estimated square roots: `SqrtEstimates` admits every estimate
  within the error the comment of estimateSqrt32 states, so that the results are shown
  right for any such table, and the entries of this one are not looked at.
- Fetches of instructions that fault, in `DecodeCache`: a program that leaves the window
  of addresses is followed no further.
- Of `float.h`: the moves, condition codes and control registers, which copy fields of
  the register file that only other moves read.
- `kconfig/`: a vendored tool of the build (confdata.c, symbol.c, expr.c and the menu
  programs), nothing of which is in the emulator; the configurations it writes are
  constants of the modules.
- The transmit path of the serial line, VGA, clock, console: host output and input that
  nothing in the machine reads back.
- Option parsing and the ELF loader, which run once before the loop starts.
- Traces and profiles, which only print.
- The text of gdb packets, and memory requests of gdb for device or mapped addresses: a
  breakpoint is written through the translation of the moment (gdb-server.c:366), and its
  removal through that of a later one.
- `xlnx-elite.c` and `vnet`: compiled with CONFIG_NETWORK only.

## Plan

In this order; each step adds a module or a composition and reuses the runs above.

1. **Gdb with Mmu**: breakpoints written through the translation of the moment.
2. **Spi with Flash**: the flash behind the controller's flush loop and chip select, with
   the image file; the interface each assumes of the other (`Answered`, `selected`)
   becomes an action of the composition.
3. **Exec**: operands of branches (link before read), the moves and condition codes of
   `float.h`, and the fields the decoder leaves unset for them.
4. **Traces**: the rings of `frame.c` and `iq.c`, the hash table of `hash.c` against a
   reference map, `elfsym` lookup against its definition.
5. **Difftest**: QEMU as a second client of the packets, in lock step.
6. **Devices**: the keyboard queue, the disk, the two receive buffers of `xlnx-elite.c`.
7. **Proofs**: of the floating point modules `WordsExact` and `ComparesOrder` first, which
   need no exact rational: `FloatBase` without its loops in a module of its own, then the
   lemmas of ExecProofs on powers of two and digits.
