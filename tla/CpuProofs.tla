----------------------------- MODULE CpuProofs -----------------------------
(***************************************************************************)
(* Proofs about the instruction loop, for every size of the address space, *)
(* every placement of the vectors, both machines and every guest program.  *)
(***************************************************************************)
EXTENDS Cpu, TLAPS

-----------------------------------------------------------------------------
(* Address arithmetic *)

LEMMA WrapType ==
  ASSUME NEW a \in Addr
  PROVE  Wrap(a + 4) \in Addr /\ Wrap(a + 8) \in Addr /\ Wrap(a - 4) \in Addr
BY AddrAssumption DEF Wrap, Addr

\* The address before the delay slot is the address of the branch.
LEMMA WrapBack ==
  ASSUME NEW a \in Addr
  PROVE  Wrap(Wrap(a + 4) - 4) = a
BY AddrAssumption DEF Wrap, Addr

-----------------------------------------------------------------------------
(* The functions of the loop *)

LEMMA VectorType ==
  ASSUME NEW c \in CpuState, NEW code, NEW refill \in BOOLEAN
  PROVE  VectorOf(c, code, refill) \in Addr
<1>1. BootVec + RefillOff \in Addr /\ BootVec + GeneralOff \in Addr
      /\ BootVec + IntrOff \in Addr
  BY AddrAssumption DEF Vectors
<1>2. KernelVec + RefillOff \in Addr /\ KernelVec + GeneralOff \in Addr
      /\ KernelVec + IntrOff \in Addr
  BY AddrAssumption DEF Vectors
<1> QED BY <1>1, <1>2 DEF VectorOf

LEMMA RaiseType ==
  ASSUME NEW c \in CpuState, NEW code \in ExcCodes, NEW refill \in BOOLEAN
  PROVE  raise_exception(c, code, refill) \in CpuState
<1> DEFINE ds == ~Outermost(c) /\ c.is_delayslot
           epc == IF ~Outermost(c) THEN c.epc
                  ELSE IF c.is_delayslot THEN Wrap(c.pc - 4) ELSE c.pc
           bd == IF Outermost(c) THEN c.is_delayslot ELSE c.BD
           vec == VectorOf(c, code, refill)
<1>1. ds \in BOOLEAN /\ bd \in BOOLEAN
  BY DEF CpuState
<1>2. epc \in Addr
  BY WrapType DEF CpuState
<1>3. vec \in Addr
  BY VectorType
<1>4. raise_exception(c, code, refill)
        = [c EXCEPT !.has_exception = TRUE, !.is_delayslot = ds, !.epc = epc,
                    !.BD = bd, !.ExcCode = code, !.EXL = TRUE, !.br_target = vec]
  BY Zenon DEF raise_exception
<1> HIDE DEF ds, epc, bd, vec
<1> QED BY ZenonT(40), <1>1, <1>2, <1>3, <1>4 DEF CpuState

LEMMA RaiseFields ==
  ASSUME NEW c \in CpuState, NEW code \in ExcCodes, NEW refill \in BOOLEAN,
         NEW e, e = raise_exception(c, code, refill)
  PROVE  /\ e.has_exception /\ e.EXL
         /\ e.pc = c.pc /\ e.br_target = VectorOf(c, code, refill)
         /\ e.is_delayslot <=> ~Outermost(c) /\ c.is_delayslot
         /\ ~Outermost(c) => e.epc = c.epc /\ e.BD = c.BD
         /\ Outermost(c) =>
              /\ e.epc = IF c.is_delayslot THEN Wrap(c.pc - 4) ELSE c.pc
              /\ e.BD <=> c.is_delayslot
         /\ e.count = c.count /\ e.compare = c.compare /\ e.IP = c.IP
BY Zenon DEF raise_exception, CpuState

LEMMA SetIrqType ==
  ASSUME NEW c \in CpuState, NEW i \in Lines, NEW v \in BOOLEAN
  PROVE  nemu_set_irq(c, i, v) \in CpuState
<1> DEFINE ip == IF v THEN c.IP \union {i} ELSE c.IP \ {i}
<1>1. ip \in SUBSET Lines
  BY DEF CpuState
<1>2. nemu_set_irq(c, i, v) = [c EXCEPT !.IP = ip]
  BY Zenon DEF nemu_set_irq
<1> HIDE DEF ip
<1> QED BY <1>1, <1>2 DEF CpuState

\* The fields that decide where the program goes on.
SameControl(c, d) ==
  /\ d.pc = c.pc /\ d.br_target = c.br_target
  /\ d.is_delayslot = c.is_delayslot /\ d.has_exception = c.has_exception
  /\ d.epc = c.epc /\ d.BD = c.BD /\ d.EXL = c.EXL

LEMMA SetIrqFields ==
  ASSUME NEW c \in CpuState, NEW i \in Lines, NEW v \in BOOLEAN
  PROVE  /\ SameControl(c, nemu_set_irq(c, i, v))
         /\ nemu_set_irq(c, i, v).count = c.count
         /\ nemu_set_irq(c, i, v).compare = c.compare
         /\ nemu_set_irq(c, i, TRUE).IP = c.IP \union {i}
BY DEF nemu_set_irq, CpuState, SameControl

\* What an interrupted nemu_set_irq works on differs from the registers in the
\* device lines whose signal it has missed only.
LEMMA LoadedFields ==
  ASSUME NEW c \in CpuState
  PROVE  /\ Loaded(c) \in CpuState /\ SameControl(c, Loaded(c))
         /\ Loaded(c).count = c.count /\ Loaded(c).compare = c.compare
         /\ \A i : i \notin Missed => (i \in Loaded(c).IP <=> i \in c.IP)
         /\ Loaded(c).ERL = c.ERL /\ Loaded(c).IE = c.IE /\ Loaded(c).IM = c.IM
<1> DEFINE ip == (c.IP \ Missed) \union (loaded \intersect Missed)
<1>1. ip \in SUBSET Lines
  BY InputAssumption DEF CpuState, Missed
<1>2. Loaded(c) = [c EXCEPT !.IP = ip]
  BY Zenon DEF Loaded
<1>3. \A i : i \notin Missed => (i \in ip <=> i \in c.IP)
  OBVIOUS
<1> HIDE DEF ip
<1> QED BY <1>1, <1>2, <1>3 DEF CpuState, SameControl

LEMMA TickFields ==
  ASSUME NEW c \in CpuState
  PROVE  /\ Tick(c) \in CpuState
         /\ SameControl(c, Tick(c))
         /\ Tick(c).count = Tick(c).compare => TimerLine \in Tick(c).IP
         /\ \A i : i \notin Missed /\ ((i \in Tick(c).IP) # (i \in c.IP)) =>
                   i = TimerLine /\ Tick(c).count = Tick(c).compare
<1> DEFINE next == IF c.count + 1 = CountSpace THEN 0 ELSE c.count + 1
           d == [c EXCEPT !.count = next]
<1>1. next \in 0 .. CountSpace - 1
  BY ConfigAssumption DEF CpuState
<1>2. Tick(c) = IF next = c.compare THEN nemu_set_irq(Loaded(d), TimerLine, TRUE) ELSE d
  BY DEF Tick
<1> HIDE DEF next
<1>3. d \in CpuState /\ SameControl(c, d) /\ d.count = next
      /\ d.compare = c.compare /\ d.IP = c.IP
  BY <1>1 DEF CpuState, SameControl
<1>4. TimerLine \in Lines /\ TRUE \in BOOLEAN
  BY DEF TimerLine, Lines
<1> HIDE DEF d
<1>5. CASE next = c.compare
  <2> DEFINE l == Loaded(d)
  <2>1. Tick(c) = nemu_set_irq(l, TimerLine, TRUE)
    BY <1>2, <1>5
  <2>2. l \in CpuState /\ SameControl(d, l) /\ l.count = next /\ l.compare = c.compare
        /\ \A i : i \notin Missed => (i \in l.IP <=> i \in d.IP)
    BY <1>3, LoadedFields
  <2> HIDE DEF l
  <2>3. Tick(c) \in CpuState
    BY Zenon, <2>1, <2>2, <1>4, SetIrqType
  <2>4. SameControl(l, Tick(c)) /\ Tick(c).IP = l.IP \union {TimerLine}
        /\ Tick(c).count = l.count /\ Tick(c).compare = l.compare
    <3> DEFINE n == nemu_set_irq(l, TimerLine, TRUE)
    <3>1. SameControl(l, n) /\ n.count = l.count /\ n.compare = l.compare
          /\ n.IP = l.IP \union {TimerLine}
      BY Zenon, <2>2, <1>4, SetIrqFields
    <3> HIDE DEF n
    <3>2. Tick(c) = n
      BY <2>1 DEF n
    <3> QED BY <3>1, <3>2
  <2>5. SameControl(c, Tick(c))
    BY <2>2, <2>4, <1>3 DEF SameControl
  <2> QED BY <2>2, <2>3, <2>4, <2>5, <1>3, <1>5
<1>6. CASE next # c.compare
  <2>1. Tick(c) = d
    BY <1>2, <1>6
  <2> QED BY <2>1, <1>3, <1>6
<1> QED BY <1>5, <1>6

\* An interrupt is taken by check_intrs only, and only outside handlers.
LEMMA CheckIntrs ==
  ASSUME NEW c \in CpuState, ~c.has_exception
  PROVE  \E d \in CpuState :
           /\ SameControl(c, d)
           /\ CONFIG_INTR /\ d.count = d.compare => TimerLine \in d.IP
           /\ \/ check_intrs(c) = d
              \/ ~d.EXL /\ check_intrs(c) = raise_exception(d, "INTR", FALSE)
<1> DEFINE d == IF CONFIG_INTR THEN Tick(c) ELSE c
<1>1. d \in CpuState /\ SameControl(c, d)
      /\ (CONFIG_INTR /\ d.count = d.compare => TimerLine \in d.IP)
  BY TickFields DEF SameControl
<1>2. check_intrs(c) = IF IntrDue(d) THEN raise_exception(d, "INTR", FALSE) ELSE d
  BY DEF check_intrs
<1> HIDE DEF d
<1>3. IntrDue(d) => ~d.EXL
  BY DEF IntrDue
<1> QED BY Zenon, <1>1, <1>2, <1>3

-----------------------------------------------------------------------------
(* The inductive invariant, on a CPU state c, the delay slot s that comes    *)
(* next and the point r where the program must be resumed.                   *)

SlotExact(c, s) ==
  /\ c.is_delayslot <=> s # NoBranch
  /\ s # NoBranch => c.pc = Wrap(s.at + 4) /\ c.br_target = s.to

SlotStale(c, s) ==
  /\ ~MARCH_NOOP /\ s = NoBranch
  /\ c.is_delayslot /\ c.EXL
  /\ c.pc = c.br_target
  /\ c.pc \in {BootVec + GeneralOff, KernelVec + GeneralOff}

Resumable(c, r) == ~r.lost => c.epc = r.at /\ (c.BD <=> r.BD)

TimerSeen(c) == CONFIG_INTR /\ c.count = c.compare => TimerLine \in c.IP

Slots == Branch \union {NoBranch}
ResumePoints == [at : Addr, BD : BOOLEAN, lost : BOOLEAN]

\* Saving the state of an instruction yields its point of resumption.
LEMMA RaiseSaves ==
  ASSUME NEW c \in CpuState, NEW s \in Slots, SlotExact(c, s),
         NEW code \in ExcCodes, NEW refill \in BOOLEAN, Outermost(c),
         NEW e, e = raise_exception(c, code, refill)
  PROVE  Resumable(e, ResumeAt(c.pc, s)) /\ ResumeAt(c.pc, s) \in ResumePoints
<1>1. /\ e.epc = IF c.is_delayslot THEN Wrap(c.pc - 4) ELSE c.pc
      /\ e.BD <=> c.is_delayslot
  BY RaiseFields
<1>2. c.pc \in Addr /\ c.is_delayslot \in BOOLEAN
  BY DEF CpuState
<1>3. CASE s = NoBranch
  <2>1. ~c.is_delayslot
    BY <1>3 DEF SlotExact
  <2>2. ResumeAt(c.pc, s) = [at |-> c.pc, BD |-> FALSE, lost |-> FALSE]
    BY Zenon, <1>3 DEF ResumeAt
  <2>3. e.epc = c.pc /\ ~e.BD
    BY <2>1, <1>1, <1>2
  <2> QED BY <2>2, <2>3, <1>2 DEF Resumable, ResumePoints
<1>4. CASE s # NoBranch
  <2>1. c.is_delayslot /\ c.pc = Wrap(s.at + 4)
    BY <1>4 DEF SlotExact
  <2>2. s.at \in Addr
    BY <1>4 DEF Slots, Branch
  <2>3. ResumeAt(c.pc, s) = [at |-> s.at, BD |-> TRUE, lost |-> FALSE]
    BY Zenon, <1>4 DEF ResumeAt
  <2>4. Wrap(c.pc - 4) = s.at
    BY <2>1, <2>2, WrapBack
  <2>5. e.epc = s.at /\ e.BD
    BY <2>1, <2>4, <1>1, <1>2
  <2> QED BY <2>2, <2>3, <2>5 DEF Resumable, ResumePoints
<1> QED BY <1>3, <1>4

\* The end of a turn whose handler raised nothing: it goes on, or an interrupt
\* is taken and saves the instruction it comes before.
LEMMA EndOfTurn ==
  ASSUME NEW c \in CpuState, ~c.has_exception,
         NEW s \in Slots, SlotExact(c, s),
         NEW r \in ResumePoints, Resumable(c, r),
         NEW d, d = check_exception(c)
  PROVE  /\ d \in CpuState /\ ~d.has_exception /\ TimerSeen(d)
         /\ ~c.EXL /\ d.EXL =>
              /\ SlotExact(d, NoBranch)
              /\ Resumable(d, ResumeAt(c.pc, s))
              /\ ResumeAt(c.pc, s) \in ResumePoints
         /\ ~(~c.EXL /\ d.EXL) => SlotExact(d, s) /\ Resumable(d, r)
<1>1. PICK t \in CpuState :
        /\ SameControl(c, t) /\ TimerSeen(t)
        /\ \/ check_intrs(c) = t
           \/ ~t.EXL /\ check_intrs(c) = raise_exception(t, "INTR", FALSE)
  BY Zenon, CheckIntrs DEF TimerSeen
<1>2. SlotExact(t, s) /\ Resumable(t, r) /\ ~t.has_exception
  BY <1>1 DEF SameControl, SlotExact, Resumable
<1>3. t.pc = c.pc /\ t.EXL = c.EXL
  BY <1>1 DEF SameControl
<1>4. CASE check_intrs(c) = t
  <2>1. d = t
    BY <1>4, <1>2 DEF check_exception
  <2> QED BY <2>1, <1>1, <1>2, <1>3
<1>5. CASE ~t.EXL /\ check_intrs(c) = raise_exception(t, "INTR", FALSE)
  <2> DEFINE e == raise_exception(t, "INTR", FALSE)
  <2>1. "INTR" \in ExcCodes /\ FALSE \in BOOLEAN /\ Outermost(t)
    BY <1>5 DEF ExcCodes, Outermost
  <2>2. e \in CpuState
    BY Zenon, <2>1, RaiseType
  <2>3. e.has_exception /\ e.EXL /\ ~e.is_delayslot
        /\ e.count = t.count /\ e.compare = t.compare /\ e.IP = t.IP
    BY <2>1 DEF raise_exception, CpuState
  <2>4. Resumable(e, ResumeAt(t.pc, s)) /\ ResumeAt(t.pc, s) \in ResumePoints
    BY Zenon, <2>1, <1>2, RaiseSaves
  <2>5. check_intrs(c) = e
    BY <1>5
  <2> HIDE DEF e
  <2>6. d = [e EXCEPT !.has_exception = FALSE, !.pc = e.br_target]
    BY <2>5, <2>3 DEF check_exception
  <2>7. d \in CpuState /\ ~d.has_exception /\ d.EXL /\ ~d.is_delayslot
        /\ d.epc = e.epc /\ d.BD = e.BD /\ d.IP = e.IP
        /\ d.count = e.count /\ d.compare = e.compare
    BY ZenonT(40), <2>2, <2>3, <2>6 DEF CpuState
  <2>8. TimerSeen(d)
    BY <1>1, <2>3, <2>7 DEF TimerSeen
  <2> QED BY <2>4, <2>7, <2>8, <1>3, <1>5 DEF SlotExact, Resumable
<1> QED BY Zenon, <1>1, <1>4, <1>5

\* The end of a turn whose handler raised an exception, through inst_end or
\* by label exit.
LEMMA EndOfFault ==
  ASSUME NEW c \in CpuState, TimerSeen(c),
         NEW s \in Slots, Outermost(c) => SlotExact(c, s),
         NEW r \in ResumePoints, Resumable(c, r),
         NEW code \in ExcCodes, NEW refill \in BOOLEAN,
         NEW d, \/ d = check_exception(raise_exception(c, code, refill))
                \/ d = Retire(raise_exception(c, code, refill))
  PROVE  /\ d \in CpuState /\ ~d.has_exception /\ TimerSeen(d)
         /\ SlotExact(d, NoBranch) \/ SlotStale(d, NoBranch)
         /\ Outermost(c) => /\ Resumable(d, ResumeAt(c.pc, s))
                            /\ ResumeAt(c.pc, s) \in ResumePoints
         /\ ~Outermost(c) => Resumable(d, r)
<1> DEFINE e == raise_exception(c, code, refill)
<1>1. e \in CpuState
  BY RaiseType
<1>2. /\ e.has_exception /\ e.EXL
      /\ e.pc = c.pc /\ e.br_target = VectorOf(c, code, refill)
      /\ e.is_delayslot <=> ~Outermost(c) /\ c.is_delayslot
      /\ ~Outermost(c) => e.epc = c.epc /\ e.BD = c.BD
      /\ e.count = c.count /\ e.compare = c.compare /\ e.IP = c.IP
  BY RaiseFields
<1>3. Outermost(c) => /\ Resumable(e, ResumeAt(c.pc, s))
                      /\ ResumeAt(c.pc, s) \in ResumePoints
  BY RaiseSaves
<1>4. d = check_exception(e) \/ d = check_exception(inst_end(e))
  BY DEF Retire
<1>5. ~Outermost(c) => e.br_target \in {BootVec + GeneralOff, KernelVec + GeneralOff}
  BY <1>2 DEF VectorOf
<1> HIDE DEF e
<1>6. CASE d = check_exception(e)
  <2>1. d = [e EXCEPT !.has_exception = FALSE, !.pc = e.br_target]
    BY Zenon, <1>6, <1>2 DEF check_exception
  <2>2. d \in CpuState /\ ~d.has_exception /\ d.EXL /\ d.pc = d.br_target
        /\ d.br_target = e.br_target /\ d.is_delayslot = e.is_delayslot
        /\ d.epc = e.epc /\ d.BD = e.BD /\ d.IP = e.IP
        /\ d.count = e.count /\ d.compare = e.compare
    BY Zenon, <2>1, <1>1, <1>2 DEF CpuState
  <2>3. TimerSeen(d)
    BY <2>2, <1>2 DEF TimerSeen
  <2>4. SlotExact(d, NoBranch) \/ SlotStale(d, NoBranch)
    BY <2>2, <1>2, <1>5 DEF SlotExact, SlotStale, Outermost
  <2> QED BY <2>2, <2>3, <2>4, <1>2, <1>3 DEF Resumable
<1>7. CASE d = check_exception(inst_end(e))
  <2> DEFINE f == inst_end(e)
  <2>1. f \in CpuState /\ f.has_exception /\ ~f.is_delayslot
        /\ f.epc = e.epc /\ f.BD = e.BD /\ f.IP = e.IP
        /\ f.count = e.count /\ f.compare = e.compare
    BY Zenon, <1>1, <1>2, WrapType DEF inst_end, CpuState
  <2> HIDE DEF f
  <2>2. d = [f EXCEPT !.has_exception = FALSE, !.pc = f.br_target]
    BY <1>7, <2>1 DEF check_exception, f
  <2>3. d \in CpuState /\ ~d.has_exception /\ ~d.is_delayslot
        /\ d.epc = e.epc /\ d.BD = e.BD /\ d.IP = e.IP
        /\ d.count = e.count /\ d.compare = e.compare
    BY Zenon, <2>1, <2>2 DEF CpuState
  <2>4. TimerSeen(d)
    BY <2>3, <1>2 DEF TimerSeen
  <2> QED BY <2>3, <2>4, <1>2, <1>3 DEF Resumable, SlotExact
<1> QED BY <1>4, <1>6, <1>7

-----------------------------------------------------------------------------
(* The invariant is inductive *)

IInv ==
  /\ TypeOK
  /\ SlotExact(cpu, slot) \/ SlotStale(cpu, slot)
  /\ Resumable(cpu, resume)
  /\ TimerSeen(cpu)

LEMMA IInvImplies == IInv => DelaySlotKnown /\ EpcResumes /\ TimerMatchPending
BY DEF IInv, DelaySlotKnown, DelaySlotExact, EpcResumes, TimerMatchPending,
       SlotExact, SlotStale, Resumable, TimerSeen

LEMMA InitIInv == Init => IInv
BY AddrAssumption, ConfigAssumption
   DEF Init, IInv, TypeOK, SlotExact, Resumable, TimerSeen, CpuState, ExcCodes,
       Addr, Branch, NoBranch

\* A handler that raised nothing, left the CPU in state c and, with r for the
\* point of resumption, ends in the next state.
LEMMA HandlerKeeps ==
  ASSUME IInv, NEW c \in CpuState, ~c.has_exception,
         NEW s \in Slots, SlotExact(c, s),
         NEW r \in ResumePoints, Resumable(c, r),
         cpu' = check_exception(c),
         InterruptedFrom(c, s, r),
         TurnEnds
  PROVE  IInv'
<1> DEFINE d == check_exception(c)
<1>1. /\ d \in CpuState /\ ~d.has_exception /\ TimerSeen(d)
      /\ ~c.EXL /\ d.EXL =>
           /\ SlotExact(d, NoBranch)
           /\ Resumable(d, ResumeAt(c.pc, s))
           /\ ResumeAt(c.pc, s) \in ResumePoints
      /\ ~(~c.EXL /\ d.EXL) => SlotExact(d, s) /\ Resumable(d, r)
  BY EndOfTurn
<1>2. cpu' = d /\ nemu_state' = nemu_state /\ loaded' \subseteq DeviceLines
  BY DEF TurnEnds
<1> HIDE DEF d
<1>3. CASE ~c.EXL /\ d.EXL
  <2>1. slot' = NoBranch /\ resume' = ResumeAt(c.pc, s)
    BY <1>2, <1>3 DEF InterruptedFrom
  <2> QED BY <1>1, <1>2, <1>3, <2>1
          DEF IInv, TypeOK, ResumePoints, SlotExact, SlotStale, Resumable, TimerSeen
<1>4. CASE ~(~c.EXL /\ d.EXL)
  <2>1. slot' = s /\ resume' = r
    BY <1>2, <1>4 DEF InterruptedFrom
  <2> QED BY <1>1, <1>2, <1>4, <2>1
          DEF IInv, TypeOK, ResumePoints, Slots, SlotExact, SlotStale, Resumable,
              TimerSeen
<1> QED BY <1>3, <1>4

LEMMA FaultKeeps ==
  ASSUME IInv, NEW code \in ExcCodes, NEW refill \in BOOLEAN,
         \/ cpu' = check_exception(raise_exception(cpu, code, refill))
         \/ cpu' = Retire(raise_exception(cpu, code, refill)),
         Faulted,
         TurnEnds
  PROVE  IInv'
<1>1. /\ cpu \in CpuState /\ ~cpu.has_exception /\ TimerSeen(cpu)
      /\ slot \in Slots /\ (SlotExact(cpu, slot) \/ SlotStale(cpu, slot))
      /\ resume \in ResumePoints /\ Resumable(cpu, resume)
  BY DEF IInv, TypeOK, Slots, ResumePoints
<1>2. /\ cpu' \in CpuState /\ ~cpu'.has_exception /\ TimerSeen(cpu')
      /\ SlotExact(cpu', NoBranch) \/ SlotStale(cpu', NoBranch)
      /\ Outermost(cpu) => /\ Resumable(cpu', ResumeAt(cpu.pc, slot))
                           /\ ResumeAt(cpu.pc, slot) \in ResumePoints
      /\ ~Outermost(cpu) => Resumable(cpu', resume)
  <2>1. Outermost(cpu) => SlotExact(cpu, slot)
    BY <1>1 DEF SlotStale, Outermost
  <2> QED BY <1>1, <2>1, EndOfFault
<1>3. slot' = NoBranch /\ nemu_state' = nemu_state /\ loaded' \subseteq DeviceLines
  BY DEF Faulted, TurnEnds
<1>4. resume' \in ResumePoints /\ Resumable(cpu', resume')
  BY <1>1, <1>2 DEF Faulted
<1> QED BY <1>2, <1>3, <1>4
        DEF IInv, TypeOK, ResumePoints, SlotExact, SlotStale, Resumable, TimerSeen

\* Two exceptions of one instruction: the first is a handler's last state, the
\* second is raised in it.
LEMMA TwiceKeeps ==
  ASSUME IInv, NEW code \in ExcCodes, NEW refill \in BOOLEAN,
         cpu' = Retire(raise_exception(raise_exception(cpu, code, refill), code, refill)),
         FaultedTwice,
         TurnEnds
  PROVE  IInv'
<1> DEFINE e == raise_exception(cpu, code, refill)
           first == ResumeAt(cpu.pc, slot)
<1>1. /\ cpu \in CpuState /\ TimerSeen(cpu)
      /\ slot \in Slots /\ (SlotExact(cpu, slot) \/ SlotStale(cpu, slot))
      /\ resume \in ResumePoints /\ Resumable(cpu, resume)
  BY DEF IInv, TypeOK, Slots, ResumePoints
<1>2. e \in CpuState
  BY <1>1, RaiseType
<1>3. /\ e.EXL /\ e.pc = cpu.pc
      /\ e.is_delayslot <=> ~Outermost(cpu) /\ cpu.is_delayslot
      /\ ~Outermost(cpu) => e.epc = cpu.epc /\ e.BD = cpu.BD
      /\ e.count = cpu.count /\ e.compare = cpu.compare /\ e.IP = cpu.IP
  BY <1>1, RaiseFields
<1>4. Outermost(cpu) => Resumable(e, first) /\ first \in ResumePoints
  <2>1. Outermost(cpu) => SlotExact(cpu, slot)
    BY <1>1 DEF SlotStale, Outermost
  <2> QED BY <1>1, <2>1, RaiseSaves
<1>5. Outermost(e) <=> MARCH_NOOP
  BY <1>3 DEF Outermost
<1>6. ~Outermost(cpu) => Resumable(e, resume) /\ ~MARCH_NOOP
  BY <1>1, <1>3 DEF Resumable, Outermost
<1>7. TimerSeen(e) /\ NoBranch \in Slots
  BY <1>1, <1>3 DEF TimerSeen, Slots
<1>8. Outermost(e) => SlotExact(e, NoBranch)
  BY <1>3, <1>5 DEF SlotExact, Outermost
<1>9. cpu' = Retire(raise_exception(e, code, refill))
  OBVIOUS
<1> DEFINE kept == IF Outermost(cpu) THEN first ELSE resume
<1>10. kept \in ResumePoints /\ Resumable(e, kept)
  BY <1>1, <1>4, <1>6
<1> HIDE DEF e, kept
<1>11. /\ cpu' \in CpuState /\ ~cpu'.has_exception /\ TimerSeen(cpu')
       /\ SlotExact(cpu', NoBranch) \/ SlotStale(cpu', NoBranch)
       /\ Outermost(e) => /\ Resumable(cpu', ResumeAt(e.pc, NoBranch))
                          /\ ResumeAt(e.pc, NoBranch) \in ResumePoints
       /\ ~Outermost(e) => Resumable(cpu', kept)
  BY <1>2, <1>7, <1>8, <1>9, <1>10, EndOfFault
<1>12. slot' = NoBranch /\ nemu_state' = nemu_state /\ loaded' \subseteq DeviceLines
  BY DEF FaultedTwice, TurnEnds
<1>13. resume' = IF Outermost(cpu)
                THEN [first EXCEPT !.lost = MARCH_NOOP /\ slot # NoBranch] ELSE resume
  BY DEF FaultedTwice
<1>14. resume' \in ResumePoints /\ Resumable(cpu', resume')
  <2>1. CASE MARCH_NOOP /\ slot # NoBranch
    <3>1. resume'.lost /\ resume' \in ResumePoints
      BY Zenon, <1>4, <1>13, <2>1 DEF Outermost, ResumePoints
    <3> QED BY <3>1 DEF Resumable
  <2>2. CASE MARCH_NOOP /\ slot = NoBranch
    <3>1. first = ResumeAt(e.pc, NoBranch)
      BY <1>3, <2>2
    <3>2. first.lost = FALSE
      BY DEF ResumeAt
    <3>3. resume' = first
      BY <1>4, <1>13, <2>2, <3>2 DEF Outermost, ResumePoints
    <3> QED BY <3>1, <3>3, <1>5, <1>11, <2>2
  <2>3. CASE ~MARCH_NOOP
    <3>1. Outermost(cpu) => first.lost = FALSE
      BY DEF ResumeAt
    <3>2. resume' = kept
      BY <1>4, <1>13, <2>3, <3>1 DEF kept, ResumePoints
    <3> QED BY <3>2, <1>5, <1>10, <1>11, <2>3
  <2> QED BY <2>1, <2>2, <2>3
<1> QED BY <1>11, <1>12, <1>14
        DEF IInv, TypeOK, ResumePoints, SlotExact, SlotStale, Resumable, TimerSeen

LEMMA InstEnd ==
  ASSUME NEW c \in CpuState
  PROVE  /\ inst_end(c) \in CpuState
         /\ inst_end(c).has_exception = c.has_exception
         /\ SlotExact(inst_end(c), NoBranch)
         /\ inst_end(c).epc = c.epc /\ inst_end(c).BD = c.BD
         /\ inst_end(c).EXL = c.EXL
BY Zenon, WrapType DEF inst_end, CpuState, SlotExact

\* Handlers that change registers of cp0 and run on to inst_end.
LEMMA RetireKeeps ==
  ASSUME IInv, NEW c \in CpuState, ~c.has_exception,
         NEW r \in ResumePoints, Resumable(c, r),
         cpu' = Retire(c),
         InterruptedFrom(inst_end(c), NoBranch, r),
         TurnEnds
  PROVE  IInv'
<1>1. /\ inst_end(c) \in CpuState /\ ~inst_end(c).has_exception
      /\ SlotExact(inst_end(c), NoBranch) /\ Resumable(inst_end(c), r)
  BY InstEnd DEF Resumable
<1>2. NoBranch \in Slots
  BY DEF Slots
<1>3. cpu' = check_exception(inst_end(c))
  BY DEF Retire
<1> QED BY <1>1, <1>2, <1>3, HandlerKeeps

LEMMA Mtc0Types ==
  ASSUME NEW c \in CpuState
  PROVE  /\ \A w \in StatusWords : mtc0_status(c, w) \in CpuState
         /\ \A w \in CauseWords : mtc0_cause(c, w) \in CpuState
         /\ \A v \in CountWords : mtc0_compare(c, v) \in CpuState
         /\ \A v \in CountWords : [c EXCEPT !.count = v] \in CpuState
<1>1. ASSUME NEW w \in StatusWords PROVE mtc0_status(c, w) \in CpuState
  <2>1. w \in StatusWord
    BY InputAssumption
  <2> QED BY Zenon, <2>1 DEF StatusWord, mtc0_status, CpuState
<1>2. ASSUME NEW w \in CauseWords PROVE mtc0_cause(c, w) \in CpuState
  <2> DEFINE b == [c EXCEPT !.IV = w.IV]
             d == nemu_set_irq(Loaded(b), 0, 0 \in w.IP)
  <2>1. w \in CauseWord
    BY InputAssumption
  <2>2. b \in CpuState
    BY <2>1 DEF CauseWord, CpuState
  <2>3. (0 \in w.IP) \in BOOLEAN /\ (1 \in w.IP) \in BOOLEAN
        /\ 0 \in Lines /\ 1 \in Lines
    BY DEF Lines
  <2>4. mtc0_cause(c, w) = nemu_set_irq(Loaded(d), 1, 1 \in w.IP)
    BY DEF mtc0_cause
  <2> HIDE DEF b
  <2>5. d \in CpuState
    BY Zenon, <2>2, <2>3, SetIrqType, LoadedFields
  <2> HIDE DEF d
  <2>6. Loaded(d) \in CpuState
    BY <2>5, LoadedFields
  <2> QED BY Zenon, <2>3, <2>4, <2>6, SetIrqType
<1>3. ASSUME NEW v \in CountWords
      PROVE  [c EXCEPT !.compare = v] \in CpuState /\ [c EXCEPT !.count = v] \in CpuState
  BY InputAssumption DEF CpuState
<1>4. ASSUME NEW v \in CountWords PROVE mtc0_compare(c, v) \in CpuState
  <2>1. TimerLine \in Lines /\ FALSE \in BOOLEAN
    BY DEF TimerLine, Lines
  <2> DEFINE b == [c EXCEPT !.compare = v]
  <2>2. b \in CpuState
    BY Zenon, <1>3
  <2>3. mtc0_compare(c, v) = nemu_set_irq(Loaded(b), TimerLine, FALSE)
    BY DEF mtc0_compare
  <2> HIDE DEF b
  <2> QED BY Zenon, <2>1, <2>2, <2>3, SetIrqType, LoadedFields
<1> QED BY Zenon, <1>1, <1>2, <1>3, <1>4

LEMMA Mtc0Fields ==
  ASSUME NEW c \in CpuState, ~c.has_exception, NEW r, Resumable(c, r)
  PROVE  /\ \A w \in StatusWords : /\ ~mtc0_status(c, w).has_exception
                                   /\ Resumable(mtc0_status(c, w), r)
         /\ \A w \in CauseWords : /\ ~mtc0_cause(c, w).has_exception
                                  /\ Resumable(mtc0_cause(c, w), r)
         /\ \A v \in CountWords : /\ ~mtc0_compare(c, v).has_exception
                                  /\ Resumable(mtc0_compare(c, v), r)
         /\ \A v \in CountWords : /\ ~[c EXCEPT !.count = v].has_exception
                                  /\ Resumable([c EXCEPT !.count = v], r)
BY DEF mtc0_status, mtc0_cause, mtc0_compare, nemu_set_irq, Loaded, Resumable, CpuState

LEMMA NextIInv == IInv /\ [Next]_vars => IInv'
<1> SUFFICES ASSUME IInv, [Next]_vars PROVE IInv'
  OBVIOUS
<1> DEFINE Keeps(c) == /\ c \in CpuState /\ ~c.has_exception
                       /\ Resumable(c, resume)
<1>1. Keeps(cpu) /\ slot \in Slots /\ resume \in ResumePoints
  BY DEF IInv, TypeOK, Slots, ResumePoints
<1>2. CASE ExecPlain \/ ExecWait
  BY <1>1, <1>2, RetireKeeps DEF ExecPlain, ExecWait, Interrupted
<1>3. ASSUME NEW code \in FaultCodes, NEW refill \in BOOLEAN, ExecFault(code, refill)
      PROVE  IInv'
  <2>1. code \in ExcCodes
    BY InputAssumption
  <2> QED BY <1>3, <2>1, FaultKeeps DEF ExecFault
<1>15. ASSUME NEW code \in FaultCodes, NEW refill \in BOOLEAN, ExecFaultTwice(code, refill)
       PROVE  IInv'
  <2>1. code \in ExcCodes
    BY InputAssumption
  <2> QED BY <1>15, <2>1, TwiceKeeps DEF ExecFaultTwice
<1>4. ASSUME NEW code \in RefusedCodes, ExecRefused(code)
      PROVE  IInv'
  <2>1. code \in ExcCodes /\ FALSE \in BOOLEAN
    BY InputAssumption DEF ExcCodes
  <2> QED BY Zenon, <1>4, <2>1, FaultKeeps DEF ExecRefused
<1>5. CASE FetchMisaligned
  <2>1. "AdEL" \in ExcCodes /\ FALSE \in BOOLEAN
    BY DEF ExcCodes
  <2> QED BY Zenon, <1>5, <2>1, FaultKeeps DEF FetchMisaligned
<1>6. ASSUME NEW t \in Targets \union {Wrap(cpu.pc + 8)}, ExecBranch(t)
      PROVE  IInv'
  <2> DEFINE c == prepare_delayslot([cpu EXCEPT !.br_target = t])
             s == [at |-> cpu.pc, to |-> t]
  <2>1. cpu.pc \in Addr /\ t \in Addr /\ Wrap(cpu.pc + 4) \in Addr
    BY <1>1, InputAssumption, WrapType DEF CpuState
  <2>2. s \in Slots /\ s # NoBranch
    BY <2>1 DEF Slots, Branch, NoBranch, Addr
  <2>3. c \in CpuState /\ ~c.has_exception /\ Resumable(c, resume)
        /\ c.is_delayslot /\ c.pc = Wrap(cpu.pc + 4) /\ c.br_target = t
    BY Zenon, <1>1, <2>1 DEF prepare_delayslot, CpuState, Resumable
  <2>4. cpu' = check_exception(c) /\ InterruptedFrom(c, s, resume)
        /\ TurnEnds
    BY <1>6 DEF ExecBranch, Interrupted
  <2>5. s.at = cpu.pc /\ s.to = t
    OBVIOUS
  <2> HIDE DEF c, s
  <2>6. SlotExact(c, s)
    BY <2>2, <2>3, <2>5 DEF SlotExact
  <2> QED BY <1>1, <2>2, <2>3, <2>4, <2>6, HandlerKeeps
<1>7. CASE ExecLikelyNotTaken
  <2> DEFINE b == [cpu EXCEPT !.br_target = Wrap(cpu.pc + 8),
                              !.pc = Wrap(cpu.pc + 4)]
  <2>1. b \in CpuState /\ ~b.has_exception /\ Resumable(b, resume)
    BY Zenon, <1>1, WrapType DEF CpuState, Resumable
  <2>2. cpu' = Retire(b) /\ InterruptedFrom(inst_end(b), NoBranch, resume)
        /\ TurnEnds
    BY <1>7 DEF ExecLikelyNotTaken, Interrupted, Retire
  <2> HIDE DEF b
  <2> QED BY <1>1, <2>1, <2>2, RetireKeeps
<1>8. CASE ExecEret
  <2> DEFINE e == eret(cpu)
             f == inst_end(e)
  <2>0. 0 \in Addr
    BY AddrAssumption DEF Addr
  <2>1. e \in CpuState /\ e.has_exception /\ e.epc = cpu.epc /\ e.BD = cpu.BD
        /\ e.count = cpu.count /\ e.compare = cpu.compare /\ e.IP = cpu.IP
    BY Zenon, <1>1, <2>0 DEF eret, CpuState
  <2>2. cpu' = check_exception(f)
    BY <1>8 DEF ExecEret, Retire
  <2> HIDE DEF e
  <2>3. f \in CpuState /\ f.has_exception /\ ~f.is_delayslot
        /\ f.epc = cpu.epc /\ f.BD = cpu.BD
        /\ f.count = cpu.count /\ f.compare = cpu.compare /\ f.IP = cpu.IP
    BY Zenon, <2>1, WrapType DEF inst_end, CpuState
  <2> HIDE DEF f
  <2>4. cpu' = [f EXCEPT !.has_exception = FALSE, !.pc = f.br_target]
    BY <2>2, <2>3 DEF check_exception
  <2>5. cpu' \in CpuState /\ ~cpu'.has_exception /\ ~cpu'.is_delayslot
        /\ cpu'.epc = cpu.epc /\ cpu'.BD = cpu.BD /\ cpu'.IP = cpu.IP
        /\ cpu'.count = cpu.count /\ cpu'.compare = cpu.compare
    BY Zenon, <2>3, <2>4 DEF CpuState
  <2>6. slot' = NoBranch /\ resume' = resume /\ nemu_state' = nemu_state
        /\ loaded' \subseteq DeviceLines
    BY <1>8 DEF ExecEret, TurnEnds
  <2> QED BY <2>5, <2>6
          DEF IInv, TypeOK, SlotExact, Resumable, TimerSeen
<1>9. ASSUME NEW c, Keeps(c), ExecMtc0(c)
      PROVE  IInv'
  BY <1>1, <1>9, RetireKeeps DEF ExecMtc0, Interrupted
<1>10. CASE ExecMtc0Status \/ ExecMtc0Compare \/ ExecMtc0Cause \/ ExecMtc0Count
  <2>1. /\ \A w \in StatusWords : Keeps(mtc0_status(cpu, w))
        /\ \A w \in CauseWords : Keeps(mtc0_cause(cpu, w))
        /\ \A v \in CountWords : Keeps(mtc0_compare(cpu, v))
        /\ \A v \in CountWords : Keeps([cpu EXCEPT !.count = v])
    BY <1>1, Mtc0Types, Mtc0Fields
  <2> HIDE DEF Keeps
  <2> QED BY Zenon, <1>9, <1>10, <2>1
          DEF ExecMtc0Status, ExecMtc0Compare, ExecMtc0Cause, ExecMtc0Count
<1>11. ASSUME NEW a \in Targets, ExecMtc0Epc(a)
       PROVE  IInv'
  <2> DEFINE c == [cpu EXCEPT !.epc = a]
             r == [resume EXCEPT !.at = a]
  <2>1. a \in Addr
    BY InputAssumption
  <2>2. c \in CpuState /\ ~c.has_exception /\ r \in ResumePoints /\ Resumable(c, r)
    BY <1>1, <2>1 DEF CpuState, ResumePoints, Resumable
  <2>3. cpu' = Retire(c) /\ InterruptedFrom(inst_end(c), NoBranch, r)
        /\ TurnEnds
    BY <1>11 DEF ExecMtc0Epc
  <2> HIDE DEF c, r
  <2> QED BY <2>2, <2>3, RetireKeeps
<1>12. CASE ExecStop
  BY <1>12 DEF ExecStop, IInv, TypeOK, SlotExact, SlotStale, Resumable, TimerSeen
<1>13. ASSUME NEW i \in DeviceLines, NEW v \in BOOLEAN, DeviceIrq(i, v)
       PROVE  IInv'
  <2>1. PICK c \in {cpu, Loaded(cpu)} : cpu' = nemu_set_irq(c, i, v)
    BY Zenon, <1>13 DEF DeviceIrq
  <2>2. c \in CpuState /\ SameControl(cpu, c) /\ c.count = cpu.count
        /\ c.compare = cpu.compare /\ (TimerLine \in c.IP <=> TimerLine \in cpu.IP)
    <3>1. TimerLine \notin Missed
      BY InputAssumption DEF Missed
    <3> QED BY <1>1, <3>1, LoadedFields DEF SameControl
  <2>3. i \in Lines /\ i # TimerLine
    BY InputAssumption
  <2>4. cpu' \in CpuState /\ SameControl(c, cpu')
        /\ cpu'.count = c.count /\ cpu'.compare = c.compare
    BY Zenon, <2>1, <2>2, <2>3, SetIrqType, SetIrqFields
  <2>5. TimerLine \in c.IP => TimerLine \in cpu'.IP
    BY <2>1, <2>2, <2>3 DEF nemu_set_irq, CpuState
  <2>6. UNCHANGED <<nemu_state, slot, resume>> /\ loaded' \subseteq DeviceLines
    BY <1>13 DEF DeviceIrq, IInv, TypeOK
  <2>7. SameControl(cpu, cpu')
    BY <2>2, <2>4 DEF SameControl
  <2> QED BY <2>2, <2>4, <2>5, <2>6, <2>7
          DEF IInv, TypeOK, SameControl, SlotExact, SlotStale, Resumable, TimerSeen
<1>16. ASSUME NEW i \in DeviceLines, NEW v \in BOOLEAN, ExecDevice(i, v)
       PROVE  IInv'
  <2> DEFINE c == nemu_set_irq(Loaded(cpu), i, v)
  <2>1. Loaded(cpu) \in CpuState /\ SameControl(cpu, Loaded(cpu)) /\ i \in Lines
    BY <1>1, LoadedFields, InputAssumption
  <2>2. c \in CpuState /\ SameControl(Loaded(cpu), c)
    BY Zenon, <2>1, SetIrqType, SetIrqFields
  <2>3. ExecMtc0(c)
    BY Zenon, <1>16 DEF ExecDevice
  <2> HIDE DEF c
  <2>4. Keeps(c)
    BY <1>1, <2>1, <2>2 DEF SameControl, Resumable
  <2> QED BY Zenon, <1>9, <2>3, <2>4
<1>14. CASE UNCHANGED vars
  BY <1>14 DEF vars, IInv, TypeOK, SlotExact, SlotStale, Resumable, TimerSeen
<1> QED BY <1>2, <1>3, <1>4, <1>5, <1>6, <1>7, <1>8, <1>10, <1>11, <1>12, <1>13,
           <1>14, <1>15, <1>16 DEF Next

LEMMA SpecIInv == Spec => []IInv
BY InitIInv, NextIInv, PTL DEF Spec

-----------------------------------------------------------------------------
(* Theorems *)

\* Every register of cp0 and the program counter stay within their width, and
\* no turn of cpu_exec ends with an exception half taken.
THEOREM TypeCorrect == Spec => []TypeOK
<1>1. IInv => TypeOK
  BY DEF IInv
<1> QED BY <1>1, SpecIInv, PTL

\* prepare_delayslot, inst_end and raise_exception keep is_delayslot in step
\* with the branches executed, but for the flag an exception inside a handler
\* leaves over at the general vector.
THEOREM DelaySlotCorrect == Spec => []DelaySlotKnown
BY SpecIInv, IInvImplies, PTL

\* On MARCH_NOOP, where raise_exception always clears the flag, nothing is left
\* over.
THEOREM DelaySlotCorrectOnNoop ==
  ASSUME MARCH_NOOP
  PROVE  Spec => []DelaySlotExact
<1>1. DelaySlotKnown => DelaySlotExact
  BY DEF DelaySlotKnown
<1> QED BY <1>1, DelaySlotCorrect, PTL

\* EPC and Cause.BD always name the point where the interrupted program has to
\* be resumed.
THEOREM EpcCorrect == Spec => []EpcResumes
BY SpecIInv, IInvImplies, PTL

\* check_intrs never lets the counter stand at Compare with line 7 down.
THEOREM TimerCorrect == Spec => []TimerMatchPending
BY SpecIInv, IInvImplies, PTL

-----------------------------------------------------------------------------
(* Action properties: what the end of a turn leaves pending, and which lines *)
(* it changes.                                                               *)

\* From state c to state d no line changes but those whose signal the turn has
\* missed, and the timer's on a match.
LinesFrom(c, d) ==
  \A i : i \notin Missed /\ ((i \in d.IP) # (i \in c.IP)) =>
            i = TimerLine /\ i \in d.IP /\ d.count = d.compare

LEMMA CheckedEnd ==
  ASSUME NEW c \in CpuState
  PROVE  /\ LinesFrom(c, check_exception(c))
         /\ ~c.has_exception \/ c.EXL => ~IntrDue(check_exception(c))
<1>1. CASE c.has_exception
  <2>1. check_exception(c) = [c EXCEPT !.has_exception = FALSE, !.pc = c.br_target]
    BY <1>1 DEF check_exception
  <2>2. check_exception(c).IP = c.IP /\ check_exception(c).EXL = c.EXL
    BY <2>1 DEF CpuState
  <2> QED BY <2>2, <1>1 DEF IntrDue, LinesFrom
<1>2. CASE ~c.has_exception
  <2> DEFINE t == IF CONFIG_INTR THEN Tick(c) ELSE c
             e == raise_exception(t, "INTR", FALSE)
  <2>1. t \in CpuState /\ SameControl(c, t) /\ LinesFrom(c, t)
    BY TickFields DEF SameControl, LinesFrom
  <2>2. check_exception(c) =
          LET d == IF IntrDue(t) THEN e ELSE t
          IN IF d.has_exception
             THEN [d EXCEPT !.has_exception = FALSE, !.pc = d.br_target] ELSE d
    BY <1>2 DEF check_exception, check_intrs
  <2> HIDE DEF t
  <2>3. CASE IntrDue(t)
    <3>1. "INTR" \in ExcCodes /\ FALSE \in BOOLEAN
      BY DEF ExcCodes
    <3>2. e \in CpuState
      BY Zenon, <2>1, <3>1, RaiseType
    <3>3. e = raise_exception(t, "INTR", FALSE)
      OBVIOUS
    <3> HIDE DEF e
    <3>4. e \in CpuState /\ e.has_exception /\ e.EXL /\ e.IP = t.IP
          /\ e.count = t.count /\ e.compare = t.compare
      BY <2>1, <3>2, <3>3 DEF raise_exception, CpuState
    <3>5. check_exception(c) = [e EXCEPT !.has_exception = FALSE, !.pc = e.br_target]
      BY <2>2, <2>3, <3>4
    <3>6. check_exception(c).EXL /\ check_exception(c).IP = e.IP
          /\ check_exception(c).count = e.count /\ check_exception(c).compare = e.compare
      BY <3>4, <3>5 DEF CpuState
    <3> QED BY <3>4, <3>6, <2>1 DEF IntrDue, LinesFrom
  <2>4. CASE ~IntrDue(t)
    <3>1. check_exception(c) = t
      BY <1>2, <2>1, <2>2, <2>4 DEF SameControl
    <3> QED BY <3>1, <2>1, <2>4
  <2> QED BY <2>3, <2>4
<1> QED BY <1>1, <1>2 DEF CpuState

LEMMA RetiredEnd ==
  ASSUME NEW c \in CpuState
  PROVE  /\ LinesFrom(c, Retire(c))
         /\ ~c.has_exception \/ c.EXL => ~IntrDue(Retire(c))
<1>1. inst_end(c) \in CpuState /\ inst_end(c).IP = c.IP
      /\ inst_end(c).has_exception = c.has_exception /\ inst_end(c).EXL = c.EXL
  BY Zenon, WrapType DEF inst_end, CpuState
<1> QED BY <1>1, CheckedEnd DEF Retire, LinesFrom

\* Every step but eret and a device's ends with no interrupt due, and changes
\* no line but those that mtc0 or an access to a device writes.
LEMMA StepEnds ==
  ASSUME IInv, Next
  PROVE  \/ ExecEret /\ LinesFrom(cpu, cpu')
         \/ \E i \in DeviceLines, v \in BOOLEAN : DeviceIrq(i, v)
         \/ nemu_state' # "RUNNING" /\ cpu' = cpu
         \/ /\ ~IntrDue(cpu')
            /\ \/ LinesFrom(cpu, cpu')
               \/ \E v \in CountWords :
                    ExecMtc0Compare /\ LinesFrom(mtc0_compare(cpu, v), cpu')
               \/ \E w \in CauseWords :
                    ExecMtc0Cause /\ LinesFrom(mtc0_cause(cpu, w), cpu')
               \/ \E i \in DeviceLines, v \in BOOLEAN :
                    /\ ExecDevice(i, v)
                    /\ LinesFrom(nemu_set_irq(Loaded(cpu), i, v), cpu')
<1>1. cpu \in CpuState /\ ~cpu.has_exception
  BY DEF IInv, TypeOK
<1>2. CASE ExecPlain \/ ExecWait
  BY <1>1, <1>2, RetiredEnd DEF ExecPlain, ExecWait
<1>3. ASSUME NEW code \in ExcCodes, NEW refill \in BOOLEAN
      PROVE  /\ raise_exception(cpu, code, refill) \in CpuState
             /\ raise_exception(cpu, code, refill).EXL
             /\ raise_exception(cpu, code, refill).IP = cpu.IP
  BY <1>1, RaiseType, RaiseFields
<1>4. ASSUME NEW code \in FaultCodes, NEW refill \in BOOLEAN, ExecFault(code, refill)
      PROVE  ~IntrDue(cpu') /\ LinesFrom(cpu, cpu')
  <2>1. code \in ExcCodes
    BY InputAssumption
  <2> QED BY <1>3, <1>4, <2>1, RetiredEnd DEF ExecFault, LinesFrom
<1>5. ASSUME NEW code \in FaultCodes, NEW refill \in BOOLEAN, ExecFaultTwice(code, refill)
      PROVE  ~IntrDue(cpu') /\ LinesFrom(cpu, cpu')
  <2> DEFINE e == raise_exception(cpu, code, refill)
             f == raise_exception(e, code, refill)
  <2>1. code \in ExcCodes
    BY InputAssumption
  <2>2. e \in CpuState /\ e.IP = cpu.IP
    BY <1>3, <2>1
  <2>3. f \in CpuState /\ f.EXL /\ f.IP = cpu.IP
    <3> HIDE DEF e
    <3> QED BY <2>1, <2>2, RaiseType, RaiseFields
  <2>4. cpu' = Retire(f)
    BY <1>5 DEF ExecFaultTwice
  <2> HIDE DEF f
  <2> QED BY <2>3, <2>4, RetiredEnd DEF LinesFrom
<1>6. ASSUME NEW code \in RefusedCodes, ExecRefused(code)
      PROVE  ~IntrDue(cpu') /\ LinesFrom(cpu, cpu')
  <2>1. code \in ExcCodes /\ FALSE \in BOOLEAN
    BY InputAssumption DEF ExcCodes
  <2> QED BY Zenon, <1>3, <1>6, <2>1, CheckedEnd DEF ExecRefused, LinesFrom
<1>7. CASE FetchMisaligned
  <2>1. "AdEL" \in ExcCodes /\ FALSE \in BOOLEAN
    BY DEF ExcCodes
  <2> QED BY Zenon, <1>3, <1>7, <2>1, CheckedEnd DEF FetchMisaligned, LinesFrom
<1>8. ASSUME NEW t \in Targets \union {Wrap(cpu.pc + 8)}, ExecBranch(t)
      PROVE  ~IntrDue(cpu') /\ LinesFrom(cpu, cpu')
  <2> DEFINE c == prepare_delayslot([cpu EXCEPT !.br_target = t])
  <2>1. cpu.pc \in Addr /\ t \in Addr /\ Wrap(cpu.pc + 4) \in Addr
    BY <1>1, InputAssumption, WrapType DEF CpuState
  <2>2. c \in CpuState /\ ~c.has_exception /\ c.IP = cpu.IP
    BY Zenon, <1>1, <2>1 DEF prepare_delayslot, CpuState
  <2>3. cpu' = check_exception(c)
    BY <1>8 DEF ExecBranch
  <2> HIDE DEF c
  <2> QED BY <2>2, <2>3, CheckedEnd DEF LinesFrom
<1>9. CASE ExecLikelyNotTaken
  <2> DEFINE b == [cpu EXCEPT !.br_target = Wrap(cpu.pc + 8), !.pc = Wrap(cpu.pc + 4)]
  <2>1. b \in CpuState /\ ~b.has_exception /\ b.IP = cpu.IP
    BY Zenon, <1>1, WrapType DEF CpuState
  <2>2. cpu' = Retire(b)
    BY <1>9 DEF ExecLikelyNotTaken, Retire
  <2> HIDE DEF b
  <2> QED BY Zenon, <2>1, <2>2, RetiredEnd DEF LinesFrom
<1>10. CASE ExecEret
  <2>0. 0 \in Addr
    BY AddrAssumption DEF Addr
  <2>1. eret(cpu) \in CpuState /\ eret(cpu).IP = cpu.IP
    BY Zenon, <1>1, <2>0 DEF eret, CpuState
  <2> QED BY Zenon, <1>10, <2>1, RetiredEnd DEF ExecEret, LinesFrom
<1>11. ASSUME NEW c \in CpuState, ~c.has_exception, ExecMtc0(c)
       PROVE  ~IntrDue(cpu') /\ LinesFrom(c, cpu')
  BY <1>11, RetiredEnd DEF ExecMtc0
<1>12. /\ \A w \in StatusWords : /\ ~mtc0_status(cpu, w).has_exception
                                 /\ mtc0_status(cpu, w).IP = cpu.IP
       /\ \A w \in CauseWords : ~mtc0_cause(cpu, w).has_exception
       /\ \A v \in CountWords : ~mtc0_compare(cpu, v).has_exception
       /\ \A v \in CountWords : /\ ~[cpu EXCEPT !.count = v].has_exception
                                /\ [cpu EXCEPT !.count = v].IP = cpu.IP
  BY <1>1 DEF mtc0_status, mtc0_cause, mtc0_compare, nemu_set_irq, Loaded, CpuState
<1>13. CASE ExecMtc0Status
  BY <1>1, <1>11, <1>12, <1>13, Mtc0Types DEF ExecMtc0Status, LinesFrom
<1>14. CASE ExecMtc0Compare
  BY <1>1, <1>11, <1>12, <1>14, Mtc0Types DEF ExecMtc0Compare
<1>15. CASE ExecMtc0Cause
  BY <1>1, <1>11, <1>12, <1>15, Mtc0Types DEF ExecMtc0Cause
<1>16. CASE ExecMtc0Count
  <2>1. PICK v \in CountWords : ExecMtc0([cpu EXCEPT !.count = v])
    BY <1>16 DEF ExecMtc0Count
  <2> DEFINE c == [cpu EXCEPT !.count = v]
  <2>2. c \in CpuState /\ ~c.has_exception /\ c.IP = cpu.IP /\ ExecMtc0(c)
    BY Zenon, <1>1, <1>12, <2>1, Mtc0Types
  <2> HIDE DEF c
  <2> QED BY <1>11, <2>2 DEF LinesFrom
<1>19. ASSUME NEW i \in DeviceLines, NEW v \in BOOLEAN, ExecDevice(i, v)
       PROVE  ~IntrDue(cpu') /\ LinesFrom(nemu_set_irq(Loaded(cpu), i, v), cpu')
  <2> DEFINE c == nemu_set_irq(Loaded(cpu), i, v)
  <2>1. Loaded(cpu) \in CpuState /\ SameControl(cpu, Loaded(cpu)) /\ i \in Lines
    BY <1>1, LoadedFields, InputAssumption
  <2>2. c \in CpuState /\ SameControl(Loaded(cpu), c)
    BY Zenon, <2>1, SetIrqType, SetIrqFields
  <2>3. ExecMtc0(c)
    BY Zenon, <1>19 DEF ExecDevice
  <2> HIDE DEF c
  <2>4. ~c.has_exception
    BY <1>1, <2>1, <2>2 DEF SameControl
  <2>5. ~IntrDue(cpu') /\ LinesFrom(c, cpu')
    BY Zenon, <1>11, <2>2, <2>3, <2>4
  <2> QED BY Zenon, <2>5 DEF c
<1>17. ASSUME NEW a \in Targets, ExecMtc0Epc(a)
       PROVE  ~IntrDue(cpu') /\ LinesFrom(cpu, cpu')
  <2> DEFINE c == [cpu EXCEPT !.epc = a]
  <2>1. c \in CpuState /\ ~c.has_exception /\ c.IP = cpu.IP
    BY <1>1, InputAssumption DEF CpuState
  <2>2. cpu' = Retire(c)
    BY <1>17 DEF ExecMtc0Epc
  <2> HIDE DEF c
  <2> QED BY <2>1, <2>2, RetiredEnd DEF LinesFrom
<1>18. CASE ExecStop
  BY <1>18 DEF ExecStop
<1> QED BY Zenon, <1>2, <1>4, <1>5, <1>6, <1>7, <1>8, <1>9, <1>10, <1>13, <1>14, <1>15, <1>16,
           <1>17, <1>18, <1>19 DEF Next

\* A pending and enabled interrupt is taken at the end of the instruction that
\* executes (check_intrs), after any instruction but eret.
THEOREM PromptCorrect == Spec => InterruptPrompt
<1> DEFINE Prompt ==
      IntrDue(cpu') /\ nemu_state' = "RUNNING" =>
        ExecEret \/ \E i \in DeviceLines, v \in BOOLEAN : DeviceIrq(i, v)
<1>1. IInv /\ [Next]_vars => [Prompt]_vars
  BY StepEnds
<1> QED BY <1>1, SpecIInv, PTL DEF Spec, InterruptPrompt

\* Each line of cause.IP belongs to one owner: the devices, the timer or the
\* guest.  Nobody else changes it (nemu_set_irq, mtc0, check_intrs), unless a
\* call of nemu_set_irq was interrupted by the owner's signal.
THEOREM LinesCorrect == Spec => IrqLinesHeld
<1> DEFINE Held ==
      \A i \in (cpu.IP \ cpu'.IP) \union (cpu'.IP \ cpu.IP) :
        \/ i \in DeviceLines /\ (\/ DeviceIrq(i, i \in cpu'.IP)
                                \/ ExecDevice(i, i \in cpu'.IP)
                                \/ i \in Missed)
        \/ i = TimerLine /\ IF i \in cpu'.IP THEN cpu'.count = cpu'.compare
                                            ELSE ExecMtc0Compare
        \/ i \in {0, 1} /\ ExecMtc0Cause
<1>1. Missed \subseteq DeviceLines
  BY DEF Missed
<1>2. ASSUME NEW c \in CpuState, NEW i \in Lines, NEW v \in BOOLEAN
      PROVE  /\ i \in nemu_set_irq(c, i, v).IP <=> v
             /\ \A j : j # i => (j \in nemu_set_irq(c, i, v).IP <=> j \in c.IP)
  <2>1. nemu_set_irq(c, i, v).IP = IF v THEN c.IP \union {i} ELSE c.IP \ {i}
    BY DEF nemu_set_irq, CpuState
  <2> QED BY <2>1
<1>3. ASSUME NEW c \in CpuState
      PROVE  Loaded(c) \in CpuState
             /\ \A j : j \notin Missed => (j \in Loaded(c).IP <=> j \in c.IP)
  BY LoadedFields
<1>4. ASSUME IInv, NEW i \in DeviceLines, NEW v \in BOOLEAN, DeviceIrq(i, v)
      PROVE  Held
  <2>1. PICK c \in {cpu, Loaded(cpu)} : cpu' = nemu_set_irq(c, i, v)
    BY Zenon, <1>4 DEF DeviceIrq
  <2>2. c \in CpuState /\ \A j : j \notin Missed => (j \in c.IP <=> j \in cpu.IP)
    BY <1>3, <1>4 DEF IInv, TypeOK
  <2>3. i \in Lines
    BY InputAssumption
  <2>4. (i \in cpu'.IP) = v /\ \A j : j # i => (j \in cpu'.IP <=> j \in c.IP)
    BY <1>2, <2>1, <2>2, <2>3
  <2>5. DeviceIrq(i, i \in cpu'.IP)
    BY Zenon, <1>4, <2>4
  <2>6. ASSUME NEW j \in (cpu.IP \ cpu'.IP) \union (cpu'.IP \ cpu.IP)
        PROVE  j \in DeviceLines /\ (DeviceIrq(j, j \in cpu'.IP) \/ j \in Missed)
    <3>1. CASE j = i
      BY Zenon, <2>5, <3>1
    <3>2. CASE j # i
      BY <3>2, <2>2, <2>4, <1>1
    <3> QED BY <3>1, <3>2
  <2> QED BY Zenon, <2>6
<1>5. ASSUME IInv, NEW i \in DeviceLines, NEW v \in BOOLEAN, ExecDevice(i, v),
             LinesFrom(nemu_set_irq(Loaded(cpu), i, v), cpu')
      PROVE  Held
  <2> DEFINE c == nemu_set_irq(Loaded(cpu), i, v)
  <2>1. i \in Lines /\ i # TimerLine /\ i \notin Missed /\ TimerLine \notin Missed
    BY <1>5, InputAssumption DEF ExecDevice, Missed
  <2>2. Loaded(cpu) \in CpuState
        /\ \A j : j \notin Missed => (j \in Loaded(cpu).IP <=> j \in cpu.IP)
    BY <1>3, <1>5 DEF IInv, TypeOK
  <2>3. (i \in c.IP) = v /\ \A j : j # i => (j \in c.IP <=> j \in Loaded(cpu).IP)
    BY <1>2, <2>1, <2>2
  <2>4. \A j : j \notin Missed /\ ((j \in cpu'.IP) # (j \in c.IP)) =>
            j = TimerLine /\ j \in cpu'.IP /\ cpu'.count = cpu'.compare
    BY <1>5 DEF LinesFrom
  <2> HIDE DEF c
  <2>5. (i \in cpu'.IP) = v
    BY <2>1, <2>3, <2>4
  <2>6. ExecDevice(i, i \in cpu'.IP)
    BY Zenon, <1>5, <2>5
  <2>7. ASSUME NEW j \in (cpu.IP \ cpu'.IP) \union (cpu'.IP \ cpu.IP),
               j # i, j \notin Missed
        PROVE  j = TimerLine /\ j \in cpu'.IP /\ cpu'.count = cpu'.compare
    BY <2>2, <2>3, <2>4, <2>7
  <2> QED BY Zenon, <1>1, <2>6, <2>7
<1>6. ASSUME LinesFrom(cpu, cpu') PROVE Held
  BY <1>1, <1>6 DEF LinesFrom
<1>7. ASSUME IInv, NEW v \in CountWords, ExecMtc0Compare,
             LinesFrom(mtc0_compare(cpu, v), cpu')
      PROVE  Held
  <2> DEFINE b == [cpu EXCEPT !.compare = v]
             c == mtc0_compare(cpu, v)
  <2>1. b \in CpuState /\ b.IP = cpu.IP
    BY <1>7, InputAssumption DEF IInv, TypeOK, CpuState
  <2>2. c = nemu_set_irq(Loaded(b), TimerLine, FALSE)
    BY DEF mtc0_compare
  <2> HIDE DEF b, c
  <2>3. TimerLine \in Lines /\ FALSE \in BOOLEAN
    BY DEF TimerLine, Lines
  <2>4. Loaded(b) \in CpuState
        /\ \A j : j \notin Missed => (j \in Loaded(b).IP <=> j \in b.IP)
    BY <1>3, <2>1
  <2>5. TimerLine \notin c.IP
        /\ \A j : j # TimerLine => (j \in c.IP <=> j \in Loaded(b).IP)
    BY Zenon, <1>2, <2>2, <2>3, <2>4
  <2>6. \A j : j \notin Missed /\ ((j \in cpu'.IP) # (j \in c.IP)) =>
            j = TimerLine /\ j \in cpu'.IP /\ cpu'.count = cpu'.compare
    BY <1>7 DEF LinesFrom, c
  <2>7. TimerLine \notin Missed
    BY InputAssumption DEF Missed
  <2>8. ASSUME NEW j \in (cpu.IP \ cpu'.IP) \union (cpu'.IP \ cpu.IP), j \notin Missed
        PROVE  j = TimerLine /\ (j \in cpu'.IP => cpu'.count = cpu'.compare)
    BY <2>1, <2>4, <2>5, <2>6, <2>8
  <2> QED BY Zenon, <1>1, <1>7, <2>8
<1>8. ASSUME IInv, NEW w \in CauseWords, ExecMtc0Cause,
             LinesFrom(mtc0_cause(cpu, w), cpu')
      PROVE  Held
  <2> DEFINE b == [cpu EXCEPT !.IV = w.IV]
             d == nemu_set_irq(Loaded(b), 0, 0 \in w.IP)
             c == mtc0_cause(cpu, w)
  <2>1. w \in CauseWord
    BY InputAssumption
  <2>2. b \in CpuState /\ b.IP = cpu.IP
    BY <1>8, <2>1 DEF IInv, TypeOK, CpuState, CauseWord
  <2>3. c = nemu_set_irq(Loaded(d), 1, 1 \in w.IP)
    BY DEF mtc0_cause
  <2> HIDE DEF b, c
  <2>4. (0 \in w.IP) \in BOOLEAN /\ (1 \in w.IP) \in BOOLEAN
        /\ 0 \in Lines /\ 1 \in Lines
    BY DEF Lines
  <2>5. Loaded(b) \in CpuState
        /\ \A j : j \notin Missed => (j \in Loaded(b).IP <=> j \in b.IP)
    BY <1>3, <2>2
  <2>6. d \in CpuState /\ \A j : j # 0 => (j \in d.IP <=> j \in Loaded(b).IP)
    BY Zenon, <1>2, <2>4, <2>5, SetIrqType
  <2> HIDE DEF d
  <2>7. Loaded(d) \in CpuState
        /\ \A j : j \notin Missed => (j \in Loaded(d).IP <=> j \in d.IP)
    BY <1>3, <2>6
  <2>8. \A j : j # 1 => (j \in c.IP <=> j \in Loaded(d).IP)
    BY Zenon, <1>2, <2>3, <2>4, <2>7
  <2>9. \A j : j \notin Missed /\ ((j \in cpu'.IP) # (j \in c.IP)) =>
            j = TimerLine /\ j \in cpu'.IP /\ cpu'.count = cpu'.compare
    BY <1>8 DEF LinesFrom, c
  <2>10. ASSUME NEW j \in (cpu.IP \ cpu'.IP) \union (cpu'.IP \ cpu.IP),
                j \notin Missed, j \notin {0, 1}
         PROVE  j = TimerLine /\ j \in cpu'.IP /\ cpu'.count = cpu'.compare
    BY <2>2, <2>5, <2>6, <2>7, <2>8, <2>9, <2>10
  <2> QED BY Zenon, <1>1, <1>8, <2>10
<1>9. IInv /\ [Next]_vars => [Held]_vars
  <2> SUFFICES ASSUME IInv, Next PROVE Held \/ UNCHANGED vars
    BY Zenon
  <2>1. ASSUME cpu' = cpu PROVE Held
    BY <2>1
  <2> HIDE DEF Held
  <2> QED BY Zenon, <1>4, <1>5, <1>6, <1>7, <1>8, <2>1, StepEnds
<1> QED BY <1>9, SpecIInv, PTL DEF Spec, IrqLinesHeld
=============================================================================
