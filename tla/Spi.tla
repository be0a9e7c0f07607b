-------------------------------- MODULE Spi ---------------------------------
(***************************************************************************)
(* The SPI controller (src/dev/xlnx-spi.c): its registers, its two fifos    *)
(* and its interrupt.  The guest's accesses run in the main context, one    *)
(* step per byte sent; between any two steps the timer signal may call      *)
(* xlnx_spi_update_irq.  The flash (module Flash) answers any byte here.    *)
(* q and out, of module Fifo, are spi_rx_fifo and the byte last read.       *)
(***************************************************************************)
EXTENDS Fifo, FiniteSets

CONSTANTS
  TxBytes,  \* what the guest writes to SPIDTR
  Masks     \* what the guest writes to IPISR and IPIER

StatusBits == {"TX_FULL", "TX_EMPTY", "RX_FULL", "RX_EMPTY"}
IrqBits == {"DRR_NOT_EMPTY", "DRR_OVERRUN", "DRR_FULL", "DTR_EMPTY"}

ASSUME SpiAssumption == TxBytes \subseteq Values /\ Masks \subseteq SUBSET IrqBits

VARIABLES
  tx,    \* spi_tx_fifo
  regs,  \* xlnx_spi_regs: sets of bits, and what DGIER, SPICR and SPISSR enable
  line,  \* the interrupt line XLNX_SPI_IRQ_NO
  main,  \* where the access of the guest is: "idle", "flush" or "done"
  lost   \* history: a byte was dropped, and the guest has not touched DRR_OVERRUN since

vars == <<q, out, tx, regs, line, main, lost>>

-----------------------------------------------------------------------------
(* Interrupts *)

\* Mutant: a toggled DRR_FULL or DRR_NOT_EMPTY stays away.
xlnx_spi_update_irq_Edge ==
  /\ UNCHANGED regs
  /\ line' = (regs.ie /\ regs.ipisr \intersect regs.ipier # {})

xlnx_spi_update_irq ==
  LET ipisr == regs.ipisr \union {b \in IrqBits : \/ b = "DRR_NOT_EMPTY" /\ ~fifo_is_empty(q)
                                                  \/ b = "DRR_FULL" /\ fifo_is_full(q)}
  IN /\ regs' = [regs EXCEPT !.ipisr = ipisr]
     /\ line' = (regs.ie /\ ipisr \intersect regs.ipier # {})

\* The end of an access: the label done, and the last call of xlnx_spi_read.
Done ==
  /\ main = "done"
  /\ xlnx_spi_update_irq
  /\ main' = "idle"
  /\ UNCHANGED <<q, out, tx, lost>>

\* update_irq of the device, called by the timer signal.
Timer ==
  /\ xlnx_spi_update_irq
  /\ UNCHANGED <<q, out, tx, main, lost>>

-----------------------------------------------------------------------------
(* Accesses of the guest *)

Begin(next) == main = "idle" /\ main' = next

rxfifo_reset(sr) == (sr \union {"RX_EMPTY"}) \ {"RX_FULL"}
txfifo_reset(sr) == (sr \union {"TX_EMPTY"}) \ {"TX_FULL"}

ResetRegs ==
  [sr |-> {"RX_EMPTY", "TX_EMPTY"}, ipisr |-> {}, ipier |-> {}, ie |-> FALSE, mti |-> TRUE,
   selected |-> FALSE]

\* A write of 0xa to SRR.
xlnx_spi_do_reset ==
  /\ Begin("done")
  /\ q' = fifo_reset(q) /\ tx' = fifo_reset(tx)
  /\ regs' = ResetRegs
  /\ line' = FALSE /\ lost' = FALSE
  /\ UNCHANGED out

\* Mutant: TX_EMPTY is left as it is.
WriteDTR_KeepsEmpty(data) ==
  /\ Begin(IF regs.mti THEN "done" ELSE "flush")
  /\ tx' = fifo_push(tx, data)
  /\ regs' = [regs EXCEPT !.sr = IF fifo_is_full(tx') THEN @ \union {"TX_FULL"} ELSE @]
  /\ UNCHANGED <<q, out, line, lost>>

\* A write to SPIDTR; a full fifo drops the byte.
WriteDTR(data) ==
  /\ Begin(IF regs.mti THEN "done" ELSE "flush")
  /\ tx' = fifo_push(tx, data)
  /\ regs' = [regs EXCEPT !.sr = (@ \ {"TX_EMPTY"})
                                   \union (IF fifo_is_full(tx') THEN {"TX_FULL"} ELSE {})]
  /\ UNCHANGED <<q, out, line, lost>>

\* A write to SPICR: resets of the fifos, then the inhibit bit.
WriteCR(rxReset, txReset, mti) ==
  LET sr1 == IF rxReset THEN rxfifo_reset(regs.sr) ELSE regs.sr
      sr2 == IF txReset THEN txfifo_reset(sr1) ELSE sr1
  IN /\ Begin(IF mti THEN "done" ELSE "flush")
     /\ q' = IF rxReset THEN fifo_reset(q) ELSE q
     /\ tx' = IF txReset THEN fifo_reset(tx) ELSE tx
     /\ regs' = [regs EXCEPT !.sr = sr2, !.mti = mti]
     /\ UNCHANGED <<out, line, lost>>

\* A write to SPISSR deselects the flash, whatever it says (xlnx_spi_update_cs).
WriteSSR(selected) ==
  /\ Begin("done")
  /\ regs' = [regs EXCEPT !.selected = selected]
  /\ UNCHANGED <<q, out, tx, line, lost>>

\* A write to IPISR toggles.
WriteIPISR(mask) ==
  /\ Begin("done")
  /\ regs' = [regs EXCEPT !.ipisr = (@ \ mask) \union (mask \ @)]
  /\ lost' = (lost /\ "DRR_OVERRUN" \notin mask)
  /\ UNCHANGED <<q, out, tx, line>>

WriteIPIER(mask) ==
  /\ Begin("done")
  /\ regs' = [regs EXCEPT !.ipier = mask]
  /\ UNCHANGED <<q, out, tx, line, lost>>

WriteDGIER(ie) ==
  /\ Begin("done")
  /\ regs' = [regs EXCEPT !.ie = ie]
  /\ UNCHANGED <<q, out, tx, line, lost>>

\* Reads of the other registers, and writes to SPISR and to SRR that do not reset.
OtherAccess ==
  /\ Begin("done")
  /\ UNCHANGED <<q, out, tx, regs, line, lost>>

\* A read of SPIDRR; of an empty fifo it changes nothing, not even the interrupt.
ReadDRR ==
  /\ Begin("done")
  /\ ~fifo_is_empty(q)
  /\ out' = fifo_top(q)
  /\ q' = fifo_pop(q)
  /\ regs' = [regs EXCEPT !.sr = (@ \ {"RX_FULL"})
                                   \union (IF fifo_is_empty(q') THEN {"RX_EMPTY"} ELSE {})]
  /\ UNCHANGED <<tx, line, lost>>

-----------------------------------------------------------------------------
(* spi_flush_txfifo *)

\* Mutant: a byte that does not fit is dropped silently.
Answered_Silent(overrun, fills) ==
  [regs EXCEPT !.sr = (@ \ {"RX_EMPTY", "TX_FULL"})
                        \union {"TX_EMPTY"} \union (IF fills THEN {"RX_FULL"} ELSE {}),
               !.ipisr = @ \union (IF fills THEN {"DRR_FULL"} ELSE {})
                           \union {"DTR_EMPTY", "DRR_NOT_EMPTY"}]

\* What a byte leaves in the registers when it is answered.
Answered(overrun, fills) ==
  [regs EXCEPT !.sr = (@ \ {"RX_EMPTY", "TX_FULL"})
                        \union {"TX_EMPTY"} \union (IF fills THEN {"RX_FULL"} ELSE {}),
               !.ipisr = @ \union (IF overrun THEN {"DRR_OVERRUN"} ELSE {})
                           \union (IF fills THEN {"DRR_FULL"} ELSE {})
                           \union {"DTR_EMPTY", "DRR_NOT_EMPTY"}]

\* One turn of the loop; an unselected flash answers zero.
FlushByte(rx) ==
  /\ main = "flush" /\ ~fifo_is_empty(tx)
  /\ ~regs.selected => rx = Zero
  /\ tx' = fifo_pop(tx)
  /\ q' = fifo_push(q, rx)
  /\ lost' = (lost \/ fifo_is_full(q))
  /\ regs' = Answered(fifo_is_full(q), ~fifo_is_full(q) /\ fifo_is_full(q'))
  /\ UNCHANGED <<out, line, main>>

FlushEnd ==
  /\ main = "flush" /\ fifo_is_empty(tx)
  /\ main' = "done"
  /\ UNCHANGED <<q, out, tx, regs, line, lost>>

-----------------------------------------------------------------------------
(* Specification *)

xlnx_spi_init ==
  /\ q = EmptyRing /\ out = Zero /\ tx = EmptyRing
  /\ regs = ResetRegs
  /\ line = FALSE /\ main = "idle" /\ lost = FALSE

Access ==
  \/ xlnx_spi_do_reset
  \/ \E data \in TxBytes : WriteDTR(data)
  \/ \E rxReset, txReset, mti \in BOOLEAN : WriteCR(rxReset, txReset, mti)
  \/ \E selected \in BOOLEAN : WriteSSR(selected)
  \/ \E mask \in Masks : WriteIPISR(mask) \/ WriteIPIER(mask)
  \/ \E ie \in BOOLEAN : WriteDGIER(ie)
  \/ OtherAccess
  \/ ReadDRR

Continue == (\E rx \in Values : FlushByte(rx)) \/ FlushEnd \/ Done

Next == Access \/ Continue \/ Timer

Spec == xlnx_spi_init /\ [][Next]_vars

-----------------------------------------------------------------------------
(* Properties *)

\* Type invariant.
TypeOK ==
  /\ q \in Ring /\ tx \in Ring /\ out \in Values
  /\ regs \in [sr : SUBSET StatusBits, ipisr : SUBSET IrqBits, ipier : SUBSET IrqBits,
               ie : BOOLEAN, mti : BOOLEAN, selected : BOOLEAN]
  /\ line \in BOOLEAN /\ main \in {"idle", "flush", "done"} /\ lost \in BOOLEAN

\* Between accesses SPISR says exactly whether each fifo is full or empty: its
\* bits are kept by hand in WriteDTR, WriteCR, ReadDRR and spi_flush_txfifo.
StatusExact ==
  main = "idle" =>
    /\ "TX_FULL" \in regs.sr <=> fifo_is_full(tx)
    /\ "TX_EMPTY" \in regs.sr <=> fifo_is_empty(tx)
    /\ "RX_FULL" \in regs.sr <=> fifo_is_full(q)
    /\ "RX_EMPTY" \in regs.sr <=> fifo_is_empty(q)

\* Between accesses, wherever the timer signal came in, the line is up exactly
\* for an enabled cause, and a byte that waits is a cause even after the guest
\* has toggled it away (xlnx_spi_update_irq).
InterruptExact ==
  main = "idle" =>
    /\ line <=> regs.ie /\ regs.ipisr \intersect regs.ipier # {}
    /\ ~fifo_is_empty(q) => "DRR_NOT_EMPTY" \in regs.ipisr
    /\ fifo_is_full(q) => "DRR_FULL" \in regs.ipisr

\* A dropped answer is reported until the guest toggles DRR_OVERRUN (spi_flush_txfifo).
LossReported == lost => "DRR_OVERRUN" \in regs.ipisr

=============================================================================
