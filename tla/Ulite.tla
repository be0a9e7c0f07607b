------------------------------- MODULE Ulite -------------------------------
(***************************************************************************)
(* The receive side of the serial line (src/dev/xlnx-ulite.c) with its      *)
(* signal handlers: SIGVTALRM, which reads the terminal (update_irq of      *)
(* src/dev/events.c), and SIGINT and SIGTSTP, the keys ^C and ^Z            *)
(* (ulite_ctrl_code_handler).  A handler runs on top of whatever it         *)
(* interrupts: the guest's loads and stores (main) or another handler; a    *)
(* signal is blocked while its own handler runs.                            *)
(*                                                                         *)
(* Each context is a program of steps between which a signal may arrive:    *)
(* the loads and stores of the shared variables in the order the compiler   *)
(* emits them.  The code protects none of its operations; split remembers   *)
(* whether a signal has come in the middle of one.                          *)
(*                                                                         *)
(* The guest is any program (mode "free"), or one that is driven by its     *)
(* interrupt: it enables interrupts, empties the fifo, and after that reads *)
(* Rx only after the line was up, until STAT says that nothing is left.     *)
(*                                                                         *)
(* A character is its number in the order of arrival.  ^X, which asks the   *)
(* user whether to quit, is none of them.                                   *)
(***************************************************************************)
EXTENDS Integers, Sequences

CONSTANTS
  Capacity,   \* of ulite_q, 1024 in the code
  MaxChars,   \* characters that ever arrive
  InitChars   \* of them by --fifo-data, at most

Chars == 0 .. MaxChars

ASSUME UliteAssumption ==
  Capacity \in Nat \ {0} /\ MaxChars \in Nat /\ InitChars \in 0 .. MaxChars

R == INSTANCE Fifo WITH Values <- Chars, Zero <- 0, q <- 0, out <- 0

XLNX_ULITE_IRQ_NO == 4
TimerIrq == 7

VARIABLES
  ulite_q,
  intr_enabled,  \* xlnx_ulite_intr_enabled
  IP,            \* cause.IP, the set of lines that are up
  frames,        \* the contexts, the running one last; the first one is main
  stdin,         \* characters typed and not yet read
  rx,            \* the value the last read of Rx returned
  arrived,       \* number of characters so far
  expect,        \* history: characters put into the fifo and not yet delivered
  owed,          \* history: one of them came with interrupts enabled, after the last
                 \* time the guest cleared the line
  mode,          \* the guest: "free", or "boot", "drain" or "wait" of a driver
  split          \* history: a signal came in the middle of an operation

vars == <<ulite_q, intr_enabled, IP, frames, stdin, rx, arrived, expect, owed,
          mode, split>>

-----------------------------------------------------------------------------
(* The steps of an operation *)

Step(op, arg) == [op |-> op, arg |-> arg]

\* nemu_set_irq loads and stores all of IP.
nemu_set_irq(line, val) ==
  <<Step("irq_load", 0), Step(IF val THEN "irq_up" ELSE "irq_down", line)>>

fifo_push(ch) == <<Step("push_load", ch), Step("push_store", ch)>>
fifo_pop == <<Step("pop_load", 0), Step("pop_size", 0), Step("pop_head", 0),
              Step("pop_elem", 0)>>

xlnx_ulite_set_irq == <<Step("set_irq", 0)>>

xlnx_ulite_read == nemu_set_irq(XLNX_ULITE_IRQ_NO, FALSE) \o fifo_pop

xlnx_ulite_write_ctrl(enable) ==
  IF enable THEN <<Step("enable", 1)>>
  ELSE <<Step("enable", 0)>> \o nemu_set_irq(XLNX_ULITE_IRQ_NO, FALSE)

\* One push after the other, two steps each.
Pushes(chars) ==
  [i \in 1 .. 2 * Len(chars) |-> fifo_push(chars[(i + 1) \div 2])[2 - (i % 2)]]

\* Mutant: the characters are put into the fifo and not announced.
xlnx_ulite_update_irq_NoIrq(chars) == Pushes(chars)

\* Reads all the characters there are and puts them into the fifo.
xlnx_ulite_update_irq(chars) == Pushes(chars) \o xlnx_ulite_set_irq

ulite_ctrl_code_handler(ch) == fifo_push(ch) \o xlnx_ulite_set_irq

-----------------------------------------------------------------------------
(* Contexts *)

Frame(ctx, prog) == [ctx |-> ctx, prog |-> prog, ip |-> {}, h |-> 0, s |-> 0]

Top == frames[Len(frames)]
Below == SubSeq(frames, 1, Len(frames) - 1)
MainIdle == Len(frames) = 1 /\ Top.prog = <<>>

\* The steps in the middle of an operation.
Middle == {"irq_up", "irq_down", "push_store", "pop_size", "pop_head", "pop_elem"}

InMiddle == Top.prog # <<>> /\ Head(Top.prog).op \in Middle

\* The running context goes on with f; a handler at its end returns.
Continue(f) ==
  frames' = IF f.prog = <<>> /\ f.ctx # "main" THEN Below ELSE Append(Below, f)

\* The running context takes a step of kind op.
Take(op) == Top.prog # <<>> /\ Head(Top.prog).op = op
Arg == Head(Top.prog).arg
Rest == [Top EXCEPT !.prog = Tail(Top.prog)]

IrqLoad ==
  /\ Take("irq_load")
  /\ Continue([Rest EXCEPT !.ip = IP])
  /\ UNCHANGED <<ulite_q, intr_enabled, IP, stdin, rx, arrived, expect, owed>>

IrqUp ==
  /\ Take("irq_up")
  /\ IP' = Top.ip \union {Arg}
  /\ Continue(Rest)
  /\ UNCHANGED <<ulite_q, intr_enabled, stdin, rx, arrived, expect, owed>>

IrqDown ==
  /\ Take("irq_down")
  /\ IP' = Top.ip \ {Arg}
  /\ Continue(Rest)
  /\ owed' = (owed /\ Arg # XLNX_ULITE_IRQ_NO)
  /\ UNCHANGED <<ulite_q, intr_enabled, stdin, rx, arrived, expect>>

SetIrq ==
  /\ Take("set_irq")
  /\ IF intr_enabled
     THEN Continue([Rest EXCEPT !.prog = nemu_set_irq(XLNX_ULITE_IRQ_NO, TRUE) \o @])
     ELSE Continue(Rest)
  /\ UNCHANGED <<ulite_q, intr_enabled, IP, stdin, rx, arrived, expect, owed>>

PushLoad ==
  /\ Take("push_load")
  /\ Continue([Rest EXCEPT !.h = ulite_q.head, !.s = ulite_q.size])
  /\ UNCHANGED <<ulite_q, intr_enabled, IP, stdin, rx, arrived, expect, owed>>

\* Mutant: the character is stored before the size is compared.
PushStore_StoreFirst ==
  /\ Take("push_store")
  /\ ulite_q' = [ulite_q EXCEPT !.e[(Top.h + Top.s) % Capacity] = Arg,
                                !.size = IF Top.s < Capacity THEN Top.s + 1 ELSE @]
  /\ expect' = IF Top.s < Capacity THEN Append(expect, Arg) ELSE expect
  /\ Continue(Rest)
  /\ UNCHANGED <<intr_enabled, IP, stdin, rx, arrived, owed>>

PushStore ==
  /\ Take("push_store")
  /\ IF Top.s < Capacity
     THEN /\ ulite_q' = [ulite_q EXCEPT !.e[(Top.h + Top.s) % Capacity] = Arg,
                                        !.size = Top.s + 1]
          /\ expect' = Append(expect, Arg)
          /\ owed' = (owed \/ intr_enabled)
     ELSE UNCHANGED <<ulite_q, expect, owed>>
  /\ Continue(Rest)
  /\ UNCHANGED <<intr_enabled, IP, stdin, rx, arrived>>

PopLoad ==
  /\ Take("pop_load")
  /\ Continue([Rest EXCEPT !.h = ulite_q.head, !.s = ulite_q.size])
  /\ UNCHANGED <<ulite_q, intr_enabled, IP, stdin, rx, arrived, expect, owed>>

PopSize ==
  /\ Take("pop_size")
  /\ ulite_q' = IF Top.s > 0 THEN [ulite_q EXCEPT !.size = Top.s - 1] ELSE ulite_q
  /\ Continue(Rest)
  /\ UNCHANGED <<intr_enabled, IP, stdin, rx, arrived, expect, owed>>

PopHead ==
  /\ Take("pop_head")
  /\ ulite_q' = IF Top.s > 0 THEN [ulite_q EXCEPT !.head = (Top.h + 1) % Capacity]
                ELSE ulite_q
  /\ Continue(Rest)
  /\ UNCHANGED <<intr_enabled, IP, stdin, rx, arrived, expect, owed>>

\* Mutant: the character is read after head has moved.
PopElem_NewHead ==
  /\ Take("pop_elem")
  /\ rx' = ulite_q.e[ulite_q.head]
  /\ expect' = IF Top.s > 0 /\ expect # <<>> THEN Tail(expect) ELSE expect
  /\ Continue(Rest)
  /\ UNCHANGED <<ulite_q, intr_enabled, IP, stdin, arrived, owed>>

\* The guest gets a character: e[h], the oldest one if nothing interfered.
PopElem ==
  /\ Take("pop_elem")
  /\ rx' = ulite_q.e[Top.h]
  /\ expect' = IF Top.s > 0 /\ expect # <<>> THEN Tail(expect) ELSE expect
  /\ Continue(Rest)
  /\ UNCHANGED <<ulite_q, intr_enabled, IP, stdin, arrived, owed>>

\* Mutant: the wrong bit of CTRL is tested.
Enable_WrongBit ==
  /\ Take("enable")
  /\ intr_enabled' = (Arg = 2)
  /\ Continue(Rest)
  /\ UNCHANGED <<ulite_q, IP, stdin, rx, arrived, expect, owed>>

Enable ==
  /\ Take("enable")
  /\ intr_enabled' = (Arg = 1)
  /\ Continue(Rest)
  /\ UNCHANGED <<ulite_q, IP, stdin, rx, arrived, expect, owed>>

ContextStep ==
  /\ \/ IrqLoad \/ IrqUp \/ IrqDown \/ SetIrq \/ PushLoad \/ PushStore
     \/ PopLoad \/ PopSize \/ PopHead \/ PopElem \/ Enable
  /\ UNCHANGED <<mode, split>>

-----------------------------------------------------------------------------
(* Signals and the guest *)

Running(ctx) == \E i \in DOMAIN frames : frames[i].ctx = ctx

Interrupt(ctx, prog) ==
  /\ ~Running(ctx)
  /\ frames' = Append(frames, Frame(ctx, prog))
  /\ split' = (split \/ InMiddle)
  /\ UNCHANGED mode

Type ==
  /\ arrived < MaxChars
  /\ arrived' = arrived + 1
  /\ stdin' = Append(stdin, arrived + 1)
  /\ UNCHANGED <<ulite_q, intr_enabled, IP, frames, rx, expect, owed, mode, split>>

SigVtAlrm ==
  /\ stdin # <<>>
  /\ Interrupt("timer", xlnx_ulite_update_irq(stdin))
  /\ stdin' = <<>>
  /\ UNCHANGED <<ulite_q, intr_enabled, IP, rx, arrived, expect, owed>>

CtrlKey(sig) ==
  /\ arrived < MaxChars
  /\ arrived' = arrived + 1
  /\ Interrupt(sig, ulite_ctrl_code_handler(arrived + 1))
  /\ UNCHANGED <<ulite_q, intr_enabled, IP, stdin, rx, expect, owed>>

\* The guest's accesses, and the timer line, which main sets and clears itself
\* (check_intrs, mtc0 Compare).
MainStart(prog) ==
  /\ MainIdle
  /\ frames' = <<Frame("main", prog)>>
  /\ UNCHANGED <<ulite_q, intr_enabled, IP, stdin, rx, arrived, expect, owed, split>>

ReadRx == MainStart(xlnx_ulite_read)
WriteCtrl(enable) == MainStart(xlnx_ulite_write_ctrl(enable))
TimerLine(val) == MainStart(nemu_set_irq(TimerIrq, val))

FreeGuest ==
  /\ mode = "free"
  /\ ReadRx \/ \E b \in BOOLEAN : WriteCtrl(b) \/ TimerLine(b)
  /\ UNCHANGED mode

\* The driver; STAT is a plain load, and what it says decides.
Boot == mode = "boot" /\ WriteCtrl(TRUE) /\ mode' = "drain"

Drain ==
  /\ mode = "drain"
  /\ ~R!fifo_is_empty(ulite_q)
  /\ ReadRx
  /\ UNCHANGED mode

GoTo(m) ==
  /\ MainIdle
  /\ mode' = m
  /\ UNCHANGED <<ulite_q, intr_enabled, IP, frames, stdin, rx, arrived, expect, owed, split>>

Drained == mode = "drain" /\ R!fifo_is_empty(ulite_q) /\ GoTo("wait")
OnInterrupt == mode = "wait" /\ XLNX_ULITE_IRQ_NO \in IP /\ GoTo("drain")

Driver == Boot \/ Drain \/ Drained \/ OnInterrupt

Preloaded(n) == [head |-> 0, size |-> n,
                 e |-> [i \in 0 .. Capacity - 1 |-> IF i < n THEN i + 1 ELSE 0]]

\* xlnx_ulite_set_fifo_data before the guest starts
Init ==
  \E n \in {k \in 0 .. InitChars : k <= Capacity} :
    /\ ulite_q = Preloaded(n)
    /\ intr_enabled = FALSE
    /\ IP = {}
    /\ frames = <<Frame("main", <<>>)>>
    /\ stdin = <<>>
    /\ rx = 0
    /\ arrived = n
    /\ expect = [i \in 1 .. n |-> i]
    /\ owed = FALSE
    /\ mode \in {"free", "boot"}
    /\ split = FALSE

Environment == Type \/ SigVtAlrm \/ \E sig \in {"sigint", "sigtstp"} : CtrlKey(sig)

Next == ContextStep \/ Environment \/ FreeGuest \/ Driver

\* The interpreter runs on.
Fairness == WF_vars(ContextStep) /\ WF_vars(Driver)

Spec == Init /\ [][Next]_vars /\ Fairness

-----------------------------------------------------------------------------
(* Properties *)

\* Between two instructions the fifo holds the characters that arrived and were
\* not read, in order, unless a signal came in the middle of an operation
\* (xlnx_ulite_enqueue, xlnx_ulite_read).
FifoIntact == MainIdle /\ ~split => R!fifo_foreach(ulite_q) = expect

\* SR_RX_FIFO_VALID_DATA, "data in receive FIFO": what the guest reads from STAT
\* (xlnx_ulite_peek) is whether a character is waiting.
ValidDataMeansData ==
  MainIdle => (~R!fifo_is_empty(ulite_q) <=> expect # <<>>)

\* A read of Rx that finds a character returns the one that has waited longest,
\* once (fifo_pop).
InOrder ==
  [][~split /\ expect # <<>> /\ expect' = Tail(expect) => rx' = Head(expect)]_vars

\* A character that arrived with interrupts enabled keeps the line up until the
\* guest reads Rx or disables interrupts (xlnx_ulite_set_irq), and the line is
\* never up with interrupts disabled, even if signals come in the middle of the
\* write to CTRL (xlnx_ulite_write).
Announced ==
  MainIdle => /\ owed /\ ~split => XLNX_ULITE_IRQ_NO \in IP
              /\ XLNX_ULITE_IRQ_NO \in IP => intr_enabled

\* The driver is never left waiting for an interrupt with a character in the
\* fifo: whatever was accepted, typed or ^C, is read in the end, however the two
\* handlers nest (xlnx_ulite_update_irq, ulite_ctrl_code_handler).
EveryCharRead == (mode # "free" /\ expect # <<>>) ~> (expect = <<>> \/ split)
=============================================================================
