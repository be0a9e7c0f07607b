---------------------------- MODULE DecodeCache ----------------------------
(***************************************************************************)
(* The cache of decoded instructions (src/cpu/decode-cache.h, the entry and *)
(* inst_end of exec/exec.h, prepare_delayslot), built with                  *)
(* CONFIG_DECODE_CACHE.                                                     *)
(*                                                                         *)
(* A head of decode_cache starts a chain of malloc'ed nodes, one for each   *)
(* instruction executed in a row since the jump to the head's pc.  ds       *)
(* points to the node of the last instruction: the next one is taken from   *)
(* ds->next without a look at pc.  clear_decode_cache drops the chains; a   *)
(* ds that points into one of them stays there, in a chain of its own.      *)
(*                                                                         *)
(* An instruction is its kind, an address the number of its word.  A        *)
(* program that leaves the window of addresses is followed no further.      *)
(***************************************************************************)
EXTENDS Integers, Sequences

CONSTANTS
  Builds,     \* the machines: which of DELAYSLOT and EXCEPTION they are built with
  CacheSize,  \* 1 << DECODE_CACHE_BITS
  Words,      \* number of words in the window
  Kinds,      \* kinds of instruction a program is made of
  Vector      \* where exceptions go

Addr == 0 .. Words - 1
PcRange == 0 .. Words + 1
Detached == -1

ASSUME DecodeAssumption ==
  /\ Builds \subseteq SUBSET {"DELAYSLOT", "EXCEPTION"}
  /\ CacheSize \in Nat \ {0} /\ Words \in Nat \ {0}
  /\ Kinds \subseteq {"plain", "store", "cache", "branch", "likely", "trap", "eret"}
  /\ Vector \in Addr

VARIABLES
  build,         \* the machine this is
  mem,           \* the program
  pc, br_target, is_delayslot,
  dc,            \* the heads, ds (its chain and how far it got) and the chain of a
                 \* detached ds
  stored,        \* history: words written since the chains were dropped
  flushed,       \* history: the chains were dropped and no jump was taken since
  dirty,         \* history: words whose old instruction may still be executed
  strayed        \* history: pc has left the chain of ds without a fetch; ds is in a
                 \* chain of its own ("own") or in that of a head ("chain")

history == <<stored, flushed, dirty, strayed>>
vars == <<build, mem, pc, br_target, is_delayslot, dc, history>>

DELAYSLOT == "DELAYSLOT" \in build
EXCEPTION == "EXCEPTION" \in build

-----------------------------------------------------------------------------
(* The cache *)

decode_cache_index(p) == p % CacheSize

\* ds->next, when there is one.
Chain(c) == IF c.home = Detached THEN c.own ELSE c.heads[c.home].chain

\* Mutant: the chain of the other address is kept.
decode_cache_fetch_KeepsChain(c, p) ==
  [heads |-> [c.heads EXCEPT ![decode_cache_index(p)].pc = p],
   home |-> decode_cache_index(p), pos |-> 0, own |-> <<>>]

\* The chain of another address is freed.
decode_cache_fetch(c, p) ==
  LET i == decode_cache_index(p)
  IN [heads |-> IF c.heads[i].pc = p THEN c.heads
                ELSE [c.heads EXCEPT ![i] = [pc |-> p, chain |-> <<>>]],
      home |-> i, pos |-> 0, own |-> <<>>]

clear_decode_cache(c) ==
  LET heads == [i \in DOMAIN c.heads |-> [c.heads[i] EXCEPT !.chain = <<>>]]
  IN IF c.pos = 0 THEN [c EXCEPT !.heads = heads]
     ELSE [heads |-> heads, home |-> Detached, pos |-> c.pos, own |-> Chain(c)]

\* make_entry: go on to ds->next, or decode the instruction at pc into a new node.
Hit(c) == c.pos < Len(Chain(c))

Executed(c, word) == IF Hit(c) THEN Chain(c)[c.pos + 1] ELSE word

make_entry(c, word) ==
  LET next == [c EXCEPT !.pos = c.pos + 1]
  IN IF Hit(c) THEN next
     ELSE IF c.home = Detached THEN [next EXCEPT !.own = Append(c.own, word)]
     ELSE [next EXCEPT !.heads[c.home].chain = Append(@, word)]

-----------------------------------------------------------------------------
(* Instructions *)

Entered == make_entry(dc, mem[pc])

\* history: the program jumps, and takes the instructions of the new chain
Jump ==
  /\ dirty' = IF flushed THEN stored ELSE dirty
  /\ flushed' = FALSE
  /\ strayed' = IF strayed = "own" THEN "no" ELSE strayed
  /\ UNCHANGED stored

\* history: the chains are dropped
Drop ==
  /\ flushed' = TRUE
  /\ stored' = {}
  /\ strayed' = IF strayed = "chain" THEN "own" ELSE strayed
  /\ UNCHANGED dirty

\* history: both
DropAndJump == dirty' = {} /\ flushed' = FALSE /\ stored' = {} /\ strayed' = "no"

\* history: the chains are dropped and pc moves without ds
DropAndStray == dirty' = {} /\ flushed' = FALSE /\ stored' = {} /\ strayed' = "own"

Straight == UNCHANGED history

InSlot == DELAYSLOT /\ is_delayslot

\* history: an interrupt drops the chains and pc moves without ds, which stays in the
\* cache c.  After a jump it is before the first node of the head of the target:
\* that head will take the instructions of the handler.
DropAndLeave(c) ==
  /\ dirty' = {} /\ flushed' = FALSE /\ stored' = {}
  /\ strayed' = IF c.pos = 0 THEN "chain" ELSE "own"

\* The end of a turn without an exception: the instruction has left p in pc, and no
\* interrupt is pending or one is taken; after is what the history records of the
\* former.
check_intrs(c, p, target, slot, after) ==
  \/ /\ pc' = p /\ br_target' = target /\ is_delayslot' = slot
     /\ dc' = c
     /\ after
  \/ /\ EXCEPTION
     /\ pc' = Vector /\ br_target' = Vector /\ is_delayslot' = FALSE
     /\ dc' = clear_decode_cache(c)
     /\ DropAndLeave(c)

\* The end of an instruction whose pc is at p and whose entry left the cache c.
inst_end(c, p, target, after) ==
  IF InSlot THEN check_intrs(decode_cache_fetch(c, target), target, target, FALSE, after)
  ELSE check_intrs(c, p + 1, target, is_delayslot, after)

ExecPlain ==
  /\ inst_end(Entered, pc, br_target, IF InSlot THEN Jump ELSE Straight)
  /\ UNCHANGED mem

\* history: a word is written, and the program jumps if it was in a delay slot
Store(a) ==
  /\ stored' = stored \union {a}
  /\ dirty' = IF InSlot /\ flushed THEN stored' ELSE dirty \union {a}
  /\ flushed' = (flushed /\ ~InSlot)
  /\ strayed' = IF InSlot /\ strayed = "own" THEN "no" ELSE strayed

\* A store into the program.
ExecStore ==
  \E a \in Addr, k \in Kinds :
    /\ mem' = [mem EXCEPT ![a] = k]
    /\ inst_end(Entered, pc, br_target, Store(a))

\* cache, and the writes to the TLB, to EntryHi and to Status.ERL
ExecCache ==
  /\ inst_end(clear_decode_cache(Entered), pc, br_target, IF InSlot THEN DropAndJump ELSE Drop)
  /\ UNCHANGED mem

\* A branch or a jump; a branch that is not taken goes to pc + 8.
prepare_delayslot(target) ==
  IF DELAYSLOT
  THEN check_intrs(Entered, pc + 1, target, TRUE, Straight)
  ELSE check_intrs(decode_cache_fetch(Entered, target), target, target, is_delayslot, Jump)

ExecBranch ==
  \E target \in Addr \union {pc + 2} :
    /\ target \in PcRange
    /\ prepare_delayslot(target)
    /\ UNCHANGED mem

\* history: pc moves past the delay slot and ds does not
Skip ==
  /\ strayed' = IF dc.home = Detached THEN "own" ELSE "chain"
  /\ UNCHANGED <<stored, flushed, dirty>>

\* A likely branch that is not taken moves pc on twice.
ExecLikelyNotTaken ==
  /\ inst_end(Entered, pc + 1, pc + 2,
              CASE InSlot -> Jump
                [] ~DELAYSLOT -> Straight
                [] OTHER -> Skip)
  /\ UNCHANGED mem

\* An instruction that may raise an exception (add, a load, teq) does so.
\* With EXL set raise_exception leaves is_delayslot alone, and inst_end jumps to
\* the vector.  InstAssert and CHECK_ALIGNED_ADDR go to exit, past
\* inst_end: is_delayslot then stays for the first instruction of the handler.
\* Without CONFIG_EXCEPTION they fail, and nobody looks at has_exception.
ExecTrap ==
  \E exl, exit \in BOOLEAN :
    LET c == clear_decode_cache(Entered)
        fetched == InSlot /\ exl /\ ~exit
    IN /\ exit => EXCEPTION
       /\ br_target' = Vector
       /\ dc' = IF fetched THEN decode_cache_fetch(c, Vector) ELSE c
       /\ pc' = IF EXCEPTION \/ fetched THEN Vector ELSE pc + 1
       /\ is_delayslot' = (is_delayslot /\ exl /\ exit)
       /\ CASE fetched -> DropAndJump
            [] EXCEPTION /\ ~fetched -> DropAndStray
            [] OTHER -> Drop
       /\ UNCHANGED mem

\* eret clears the caches and goes to EPC, any address.
ExecEret ==
  \E epc \in Addr :
    LET c == clear_decode_cache(Entered)
    IN /\ br_target' = epc
       /\ dc' = IF InSlot THEN decode_cache_fetch(c, epc) ELSE c
       /\ pc' = IF EXCEPTION \/ InSlot THEN epc ELSE pc + 1
       /\ is_delayslot' = FALSE
       /\ CASE InSlot -> DropAndJump
            [] EXCEPTION /\ ~InSlot -> DropAndStray
            [] OTHER -> Drop
       /\ UNCHANGED mem

Exec(kind) ==
  \/ kind \in {"plain", "trap"} /\ ExecPlain
  \/ kind = "store" /\ ExecStore
  \/ kind = "cache" /\ ExecCache
  \/ kind \in {"branch", "likely"} /\ ExecBranch
  \/ kind = "likely" /\ ExecLikelyNotTaken
  \/ kind = "trap" /\ ExecTrap
  \/ kind = "eret" /\ ExecEret

\* The debugger writes a word while cpu_exec is not running; the next cpu_exec
\* fetches ds anew.
dbg_vaddr_write ==
  \E a \in Addr, k \in Kinds :
    /\ mem' = [mem EXCEPT ![a] = k]
    /\ dc' = decode_cache_fetch(clear_decode_cache(dc), pc)
    /\ DropAndJump
    /\ UNCHANGED <<pc, br_target, is_delayslot>>

\* cpu_exec returns and is called again: ds is fetched for the current pc.
cpu_exec ==
  /\ dc' = decode_cache_fetch(dc, pc)
  /\ Jump
  /\ UNCHANGED <<mem, pc, br_target, is_delayslot>>

Init ==
  /\ build \in Builds
  /\ mem \in [Addr -> Kinds]
  /\ pc = 0 /\ br_target = 0 /\ is_delayslot = FALSE
  /\ dc = decode_cache_fetch(
            [heads |-> [i \in 0 .. CacheSize - 1 |-> [pc |-> 0, chain |-> <<>>]],
             home |-> Detached, pos |-> 0, own |-> <<>>], 0)
  /\ stored = {} /\ flushed = FALSE /\ dirty = {} /\ strayed = "no"

Next ==
  /\ pc \in Addr
  /\ UNCHANGED build
  /\ \/ Exec(Executed(dc, mem[pc]))
     \/ dbg_vaddr_write
     \/ cpu_exec

Spec == Init /\ [][Next]_vars

-----------------------------------------------------------------------------
(* Properties *)

\* "Cache decode results": the instruction executed at pc (ds->next or a new node)
\* is the one in memory, unless the word was written and the program has not yet
\* executed a cache instruction and a jump after it.
Fresh == pc \in Addr => Executed(dc, mem[pc]) = mem[pc] \/ pc \in dirty

\* The same as long as ds has followed pc (inst_end, prepare_delayslot, cpu_exec).
\* It has not from an exception, an interrupt or an eret to the next fetch.  Nor has
\* it from a likely branch that is not taken on a machine with delay slots, or from
\* an interrupt at the end of a jump, until the chains are dropped and ds is fetched
\* again: the instructions executed meanwhile go into the chain of a head.
FreshOnChain == strayed = "no" => Fresh
=============================================================================
