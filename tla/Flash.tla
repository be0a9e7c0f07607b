------------------------------- MODULE Flash -------------------------------
(***************************************************************************)
(* The serial flash behind the SPI controller (src/dev/flash.c): its        *)
(* command decoder, its storage and the image file that keeps the storage   *)
(* from one run of the emulator to the next.                                *)
(*                                                                         *)
(* flash_init takes the first part of known_devices that holds the image;   *)
(* the first three are the largest, so only they are ever taken: parts of   *)
(* MAN_NUMONYX with one die.  The branches for other makers are dead.       *)
(*                                                                         *)
(* A byte has one bit: 1 is 0xff, erased, and 0 is 0x00.  An address is     *)
(* ShortAddr bytes, extended by ear, or LongAddr bytes.                     *)
(***************************************************************************)
EXTENDS Integers, Sequences

CONSTANTS
  Parts,        \* sizes of known_devices, in the order of the table
  PageSize, SectorSize,
  ShortAddr,    \* 3 in the code
  LongAddr,     \* 4
  MAX_3BYTES_SIZE,  \* what a short address reaches, 2^24
  BufSize,      \* M25P80_INTERNAL_DATA_BUFFER_SZ, 16
  MaxDummy,     \* dummy bytes of a fast read if volatile_cfg is all ones, 15
  IdLen,        \* bytes of JEDEC_READ, 3
  InitFiles,    \* image files
  Commands      \* commands the guest sends

Byte == 0 .. 1
None == -1

Programs == {"PP", "PP4"}
Reads == {"READ", "READ4"}
FastReads == {"FAST_READ", "FAST_READ4"}  \* and the dual and quad ones, the same on Numonyx
Erases == {"ERASE_SECTOR", "ERASE4_SECTOR"}
AnswerOne == {"RDSR", "READ_FSR", "RDCR", "BRRD", "RVCR"}
NeedEnable == {"BRWR", "WNVCR", "WVCR"}
FlashCMD ==
  Programs \union Reads \union FastReads \union Erases \union AnswerOne \union NeedEnable
  \union {"NOP", "RDID_90", "WRSR", "WRDI", "WREN", "RNVCR", "JEDEC_READ", "BULK_ERASE",
          "EN_4BYTE_ADDR", "EX_4BYTE_ADDR", "RESET_ENABLE", "RESET_MEMORY"}

CMDState == {"IDLE", "PAGE_PROGRAM", "READ", "COLLECTING_DATA", "READING_DATA"}

ASSUME FlashAssumption ==
  /\ Parts \in Seq(Nat \ {0}) /\ Parts # <<>>
  /\ PageSize \in Nat \ {0} /\ SectorSize \in Nat \ {0}
  /\ ShortAddr \in Nat \ {0} /\ LongAddr \in Nat \ {0} /\ MAX_3BYTES_SIZE \in Nat \ {0}
  /\ BufSize \in Nat /\ BufSize >= LongAddr /\ BufSize >= 2 /\ MaxDummy \in Nat
  /\ IdLen \in 1 .. BufSize
  /\ \A i \in DOMAIN Parts : Parts[i] % PageSize = 0
  /\ InitFiles \subseteq Seq(Byte) /\ \A f \in InitFiles : \E i \in DOMAIN Parts : Len(f) <= Parts[i]
  /\ Commands \subseteq FlashCMD

VARIABLES
  s,         \* struct Flash, but for
  storage,
  file,      \* the image
  selected,  \* SPISSR bit 0 is low: bytes go to the flash
  gap,       \* history: this run has extended the file past its end
  overrun,   \* history: this run has erased past the end of the storage
  panicked   \* flash_init found no part for the file

vars == <<s, storage, file, selected, gap, overrun, panicked>>

-----------------------------------------------------------------------------
(* The image file *)

\* What flash_init reads of the table: the size of a part.
known_devices(i) == Parts[i]

\* Mutant: a file as large as the part does not fit.
FirstFit_Strict(f) ==
  CHOOSE i \in DOMAIN Parts : /\ Len(f) < known_devices(i)
                              /\ \A j \in 1 .. i - 1 : known_devices(j) <= Len(f)

\* flash_init: the part, and its storage, erased where the file is too short.
FirstFit(f) ==
  CHOOSE i \in DOMAIN Parts : /\ Len(f) <= known_devices(i)
                              /\ \A j \in 1 .. i - 1 : known_devices(j) < Len(f)

Loaded(f, size) == [a \in 0 .. size - 1 |-> IF a < Len(f) THEN f[a + 1] ELSE 1]

\* lseek and write: a gap after the old end reads as zeroes.
WriteAt(f, off, data) ==
  [i \in 1 .. IF Len(f) > off + Len(data) THEN Len(f) ELSE off + Len(data) |->
     IF i \in off + 1 .. off + Len(data) THEN data[i - off]
     ELSE IF i <= Len(f) THEN f[i] ELSE 0]

Area(st, off, len) == [i \in 1 .. len |-> st[off + i - 1]]

\* flash_sync_area, flash_sync_page
flash_sync(f, st, off, len) == WriteAt(f, off, Area(st, off, len))

\* flash_sync_dirty with the page number of the next write, or None.
flash_sync_dirty(f, st, dirty, newpage) ==
  IF dirty # None /\ dirty # newpage THEN flash_sync(f, st, dirty * PageSize, PageSize) ELSE f

SyncsPastEnd(f, dirty, newpage) ==
  dirty # None /\ dirty # newpage /\ dirty * PageSize > Len(f)

-----------------------------------------------------------------------------
(* Commands *)

Size == s.size

get_addr_length(cmd, long) ==
  IF cmd \in {"PP4", "READ4", "FAST_READ4", "ERASE4_SECTOR"} \/ long THEN LongAddr
  ELSE ShortAddr

\* The number that n bytes make, after the digits in high.
Number(high, bytes, n) ==
  LET f[i \in 0 .. n] == IF i = 0 THEN high ELSE 2 * f[i - 1] + bytes[i] IN f[n]

\* ear selects the segment of a short address.
LastSegment == Size \div MAX_3BYTES_SIZE - 1

\* What a command leaves when it is over.  cmd_in_progress, needed_bytes, the
\* buffer and cur_addr are read by no later command before it has set them anew.
Idle(t) == [t EXCEPT !.state = "IDLE", !.cmd = "NOP", !.args = <<>>, !.needed = 0, !.addr = 0]

Collect(t, cmd, n) ==
  [t EXCEPT !.state = "COLLECTING_DATA", !.cmd = cmd, !.args = <<>>, !.needed = n,
            !.pos = 0, !.len = 0]

Answer(t, n, loop) ==
  [t EXCEPT !.state = "READING_DATA", !.pos = 0, !.len = n, !.loop = @ \/ loop]

\* Numonyx: the defaults come from the nonvolatile configuration.  Its first byte is
\* one bit, which stands for NVCFG_4BYTE_ADDR and NVCFG_LOWER_SEGMENT both.
reset_memory(t) ==
  [Idle(t) EXCEPT !.len = 0, !.pos = 0, !.write_enable = FALSE, !.reset_enable = FALSE,
                  !.dummy = t.nv[2], !.long = t.nv[1] = 0,
                  !.ear = IF t.nv[1] = 0 THEN LastSegment ELSE 0]

\* The buffer has needed_bytes bytes.
complete_collecting_data(t) ==
  LET n == get_addr_length(t.cmd, t.long)
      addr == Number(IF n = ShortAddr THEN t.ear ELSE 0, t.args, n) % Size
  IN CASE t.cmd \in Programs -> [Idle(t) EXCEPT !.state = "PAGE_PROGRAM", !.addr = addr]
       [] t.cmd \in Reads \union FastReads -> [Idle(t) EXCEPT !.state = "READ", !.addr = addr]
       [] t.cmd \in Erases -> [Idle(t) EXCEPT !.addr = addr]  \* for flash_erase
       [] t.cmd = "WRSR" -> [Idle(t) EXCEPT !.write_enable = FALSE]
       [] t.cmd = "BRWR" -> [Idle(t) EXCEPT !.ear = t.args[1]]
       [] t.cmd = "WNVCR" -> [Idle(t) EXCEPT !.nv = <<t.args[1], t.args[2]>>]
       [] t.cmd = "WVCR" -> [Idle(t) EXCEPT !.dummy = t.args[1]]
       [] OTHER -> Idle(t)

decode_new_cmd(cmd) ==
  LET t == [s EXCEPT !.reset_enable = @ /\ cmd = "RESET_MEMORY"]
      n == get_addr_length(cmd, t.long)
  IN CASE cmd \in Programs \union Reads \union Erases \union {"RDID_90"} -> Collect(t, cmd, n)
       [] cmd \in FastReads -> Collect(t, cmd, n + MaxDummy * t.dummy)
       [] cmd = "WRSR" /\ t.write_enable -> [Collect(t, cmd, 1) EXCEPT !.len = t.len]
       [] cmd = "WNVCR" /\ t.write_enable -> Collect(t, cmd, 2)
       [] cmd \in {"BRWR", "WVCR"} /\ t.write_enable -> Collect(t, cmd, 1)
       [] cmd \in AnswerOne -> Answer(t, 1, cmd \in {"RDSR", "READ_FSR"})
       [] cmd = "RNVCR" -> Answer(t, 2, FALSE)
       [] cmd = "JEDEC_READ" -> Answer(t, IdLen, FALSE)
       [] cmd \in {"WREN", "WRDI"} -> [t EXCEPT !.write_enable = cmd = "WREN"]
       [] cmd \in {"EN_4BYTE_ADDR", "EX_4BYTE_ADDR"} -> [t EXCEPT !.long = cmd = "EN_4BYTE_ADDR"]
       [] cmd = "RESET_ENABLE" -> [t EXCEPT !.reset_enable = TRUE]
       [] cmd = "RESET_MEMORY" /\ t.reset_enable -> reset_memory(t)
       [] OTHER -> t

-----------------------------------------------------------------------------
(* Bytes on the wire *)

\* An erase is neither aligned nor cut off at the end of the storage.  memset then
\* goes on behind the array, and the area written to the file is as long as ever.
\* Of the outcomes of such a memset the model has the one where that memory is
\* mapped and nothing else lives there; when the emulator dies instead, the file is
\* what it was before, as if it had ended a step earlier.
flash_erase(off, len) ==
  IF s.write_enable
  THEN /\ storage' = [a \in DOMAIN storage |->
                        IF a \in off .. off + len - 1 THEN 1 ELSE storage[a]]
       /\ file' = WriteAt(file, off, [i \in 1 .. len |-> 1])
       /\ gap' = (gap \/ off > Len(file))
       /\ overrun' = (overrun \/ off + len > Size)
  ELSE UNCHANGED <<storage, file, gap, overrun>>

\* Mutant: the page written before is forgotten.
flash_write8_NoSync(byte) ==
  /\ storage' = [storage EXCEPT ![s.addr] = IF byte = 0 THEN 0 ELSE @]
  /\ s' = [s EXCEPT !.dirty = s.addr \div PageSize, !.addr = (@ + 1) % Size]
  /\ UNCHANGED <<file, gap, overrun>>

\* Programming clears bits, with or without write_enable.
flash_write8(byte) ==
  LET page == s.addr \div PageSize
  IN /\ storage' = [storage EXCEPT ![s.addr] = IF byte = 0 THEN 0 ELSE @]
     /\ file' = flash_sync_dirty(file, storage', s.dirty, page)
     /\ gap' = (gap \/ SyncsPastEnd(file, s.dirty, page))
     /\ s' = [s EXCEPT !.dirty = page, !.addr = (@ + 1) % Size]
     /\ UNCHANGED overrun

Decode(cmd) ==
  /\ s.state = "IDLE"
  /\ s' = decode_new_cmd(cmd)
  /\ IF cmd = "BULK_ERASE" THEN flash_erase(0, Size) ELSE UNCHANGED <<storage, file, gap, overrun>>

PageProgram(byte) ==
  /\ s.state = "PAGE_PROGRAM"
  /\ flash_write8(byte)

ReadByte ==
  /\ s.state = "READ"
  /\ s' = [s EXCEPT !.addr = (@ + 1) % Size]
  /\ UNCHANGED <<storage, file, gap, overrun>>

\* Mutant: the buffer is taken to be long enough.
CollectByte_NoOverrun(byte) ==
  /\ s.state = "COLLECTING_DATA"
  /\ LET t == [s EXCEPT !.args = Append(@, byte), !.len = @ + 1]
     IN IF t.len # t.needed
        THEN s' = t /\ UNCHANGED <<storage, file, gap, overrun>>
        ELSE /\ s' = [complete_collecting_data(t) EXCEPT !.addr = IF t.cmd \in Erases THEN 0 ELSE @]
             /\ IF t.cmd \in Erases
                THEN flash_erase(complete_collecting_data(t).addr, SectorSize)
                ELSE UNCHANGED <<storage, file, gap, overrun>>

CollectByte(byte) ==
  /\ s.state = "COLLECTING_DATA"
  /\ LET t == [s EXCEPT !.args = Append(@, byte), !.len = @ + 1]
         done == complete_collecting_data(t)
     IN IF s.len >= BufSize
        THEN s' = [Idle(s) EXCEPT !.len = 0, !.pos = 0] /\ UNCHANGED <<storage, file, gap, overrun>>
        ELSE IF t.len # t.needed
        THEN s' = t /\ UNCHANGED <<storage, file, gap, overrun>>
        ELSE IF t.cmd \in Erases
        THEN s' = Idle(done) /\ flash_erase(done.addr, SectorSize)
        ELSE s' = done /\ UNCHANGED <<storage, file, gap, overrun>>

AnswerByte ==
  /\ s.state = "READING_DATA"
  /\ s' = IF s.pos >= BufSize THEN [Idle(s) EXCEPT !.len = 0, !.pos = 0]
          ELSE IF s.pos + 1 # s.len THEN [s EXCEPT !.pos = @ + 1]
          ELSE [(IF s.loop THEN s ELSE Idle(s)) EXCEPT !.pos = 0]
  /\ UNCHANGED <<storage, file, gap, overrun>>

\* m25p80_transfer8, for the bytes spi_flush_txfifo sends while SPISSR selects it.
m25p80_transfer8 ==
  /\ selected
  /\ \/ \E cmd \in Commands : Decode(cmd)
     \/ \E byte \in Byte : PageProgram(byte) \/ CollectByte(byte)
     \/ ReadByte
     \/ AnswerByte
  /\ UNCHANGED <<selected, panicked>>

m25p80_cs ==
  /\ s' = [Idle(s) EXCEPT !.len = 0, !.pos = 0, !.loop = FALSE, !.dirty = None]
  /\ file' = flash_sync_dirty(file, storage, s.dirty, None)
  /\ gap' = (gap \/ SyncsPastEnd(file, s.dirty, None))
  /\ UNCHANGED <<storage, overrun>>

\* A write to SPISSR, or a reset of the controller, deselects the flash first.
xlnx_spi_update_cs(select) ==
  /\ m25p80_cs
  /\ selected' = select
  /\ UNCHANGED panicked

\* The emulator ends, at any point, and is started again.
Booted(f) ==
  [size |-> known_devices(FirstFit(f)), state |-> "IDLE", cmd |-> "NOP", args |-> <<>>, len |-> 0,
   pos |-> 0, loop |-> FALSE, needed |-> 0, addr |-> 0, nv |-> <<0, 0>>, dummy |-> 0,
   write_enable |-> FALSE, long |-> FALSE, reset_enable |-> FALSE, ear |-> 0, dirty |-> None]

flash_init ==
  IF \E i \in DOMAIN Parts : Len(file) <= known_devices(i)
  THEN /\ s' = Booted(file)
       /\ storage' = Loaded(file, s'.size)
       /\ selected' = FALSE /\ gap' = FALSE /\ overrun' = FALSE
       /\ UNCHANGED <<file, panicked>>
  ELSE /\ panicked' = TRUE
       /\ UNCHANGED <<s, storage, file, selected, gap, overrun>>

Init ==
  /\ file \in InitFiles
  /\ s = Booted(file)
  /\ storage = Loaded(file, s.size)
  /\ selected = FALSE
  /\ gap = FALSE /\ overrun = FALSE /\ panicked = FALSE

Next ==
  /\ ~panicked
  /\ \/ m25p80_transfer8
     \/ \E select \in BOOLEAN : xlnx_spi_update_cs(select)
     \/ flash_init

Spec == Init /\ [][Next]_vars

-----------------------------------------------------------------------------
(* Properties *)

\* The buffer of a command is used within its bounds and every answer ends or
\* repeats (m25p80_transfer8): whatever the order of commands, with or without a
\* deselect between them, pos is before the end of an answer and only answers
\* of status registers repeat.
BufferUsed ==
  /\ s.len \in 0 .. BufSize
  /\ s.state = "READING_DATA" => s.pos < s.len
  /\ s.loop => s.state = "READING_DATA"

\* Every page but the dirty one is in the file, unless this run has extended the
\* file past its end (the hole reads as zeroes): a run that starts from it finds
\* what the guest has programmed and erased (flash_sync_dirty, flash_sync_area).
\* While the controller does not select the flash no command is under way and
\* no page is dirty (xlnx_spi_update_cs, m25p80_cs).
Durable ==
  /\ ~gap => \A a \in DOMAIN storage :
               a \div PageSize # s.dirty => Loaded(file, s.size)[a] = storage[a]
  /\ ~selected => s.state = "IDLE" /\ s.dirty = None

\* However the file has grown, the next run finds the same part (flash_init), unless
\* an erase ran over the end of the storage (flash_erase): that one makes the file
\* longer than the part, and the next run takes a larger part or ends in a panic.
SamePart ==
  [][flash_init /\ ~overrun => s'.size = s.size /\ ~panicked']_vars
=============================================================================
