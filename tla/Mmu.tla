-------------------------------- MODULE Mmu --------------------------------
(***************************************************************************)
(* Address translation: the TLB and its instructions (src/cpu/mmu.c,       *)
(* exec/system.h), the segments of include/cpu/memory.h, and the cache of  *)
(* translations in front of them (src/cpu/mmu-cache.h, vaddr_read and      *)
(* vaddr_write of src/cpu/cpu.c), built with CONFIG_PAGING, CONFIG_         *)
(* EXCEPTION and CONFIG_MMU_CACHE.                                         *)
(*                                                                         *)
(* An address is its 4 KB page: the offset never takes part in a           *)
(* decision.  Page p belongs to TLB entry p \div 2, its low bit selects    *)
(* the even or the odd half.  The address space has eight segments of      *)
(* SegPages pages each.                                                    *)
(***************************************************************************)
EXTENDS Integers

CONSTANTS
  NR_TLB_ENTRY,  \* 32 in the code
  SegPages,      \* pages per segment, 2^17 in the code
  CacheSize,     \* 1 << MMU_BITS
  MARCH_NOOP,    \* tlbwr counts through the entries instead of choosing at random
  Ram,           \* physical pages whose device has a map function
  Mmio           \* physical pages of devices without one

CONSTANTS        \* what the guest program may do
  Pages,         \* pages it accesses
  EntryHis,      \* words written to EntryHi
  EntryLo0s,     \* words written to EntryLo0
  EntryLo1s,     \* words written to EntryLo1
  PageMasks      \* words written to PageMask

VPage == 0 .. 8 * SegPages - 1
Index == 0 .. NR_TLB_ENTRY - 1
Vpn == 0 .. 4 * SegPages - 1
Asid == 0 .. 255
Mask == {m \in Nat : m < 65536}
EntryHi == [vpn : Vpn, asid : Asid]
EntryLo == [pfn : VPage, v : BOOLEAN, d : BOOLEAN, g : BOOLEAN]
Phyn == [pfn : VPage, v : BOOLEAN, d : BOOLEAN]
TlbEntry == [mask : Mask, vpn : Vpn, asid : Asid, g : BOOLEAN,
             p0 : Phyn, p1 : Phyn]

ASSUME MmuAssumption ==
  /\ NR_TLB_ENTRY \in Nat \ {0} /\ SegPages \in Nat \ {0}
  /\ CacheSize \in Nat \ {0} /\ MARCH_NOOP \in BOOLEAN
  /\ Ram \subseteq 0 .. SegPages - 1 /\ Mmio \subseteq 0 .. SegPages - 1
  /\ Ram \intersect Mmio = {}
  /\ Pages \subseteq VPage /\ EntryHis \subseteq EntryHi
  /\ EntryLo0s \subseteq EntryLo /\ EntryLo1s \subseteq EntryLo
  /\ PageMasks \subseteq Mask

VARIABLES
  tlb,        \* tlb[NR_TLB_ENTRY]
  cp0,        \* the registers of cp0 the MMU reads and writes
  mmu_cache,  \* mmu_cache[CacheSize]
  running,    \* FALSE once an assertion has aborted the emulator
  staleAsid,  \* history: tlbr changed the ASID since the cache was cleared
  missed,     \* history: the access of the last refill exception, while EntryHi holds
  filled      \* history: that access once a TLB write followed, until the next write

refill == <<missed, filled>>
vars == <<tlb, cp0, mmu_cache, running, staleAsid, refill>>

\* The identifier 0xFFFFFFFF that no address has.
NoId == -1
Line == [id : VPage \union {NoId}, page : VPage, can_write : BOOLEAN]

-----------------------------------------------------------------------------
(* Segments *)

segment(p) == p \div SegPages
ioremap(p) == p % SegPages

-----------------------------------------------------------------------------
(* page_translate *)

\* x & ~mask, for the masks 2^k - 1 a guest writes to PageMask.
Align(x, mask) == x - (x % (mask + 1))

Matches(e, vpn) ==
  /\ Align(e.vpn, e.mask) = Align(vpn, e.mask)
  /\ e.g \/ e.asid = cp0.entry_hi.asid

\* The entries the loop looks at before it returns, and the one it returns.
Scanned(vpn) ==
  {i \in Index : \A j \in Index : j < i => ~Matches(tlb[j], vpn)}

Hits(vpn) == {i \in Scanned(vpn) : Matches(tlb[i], vpn)}

\* The assertion on line 91: mask has 16 bits, mask | (mask + 1) is never 0.
MaskRefused(vpn) == \E i \in Scanned(vpn) : tlb[i].mask # 0

\* The page returned, or the exception raised and the ASID it leaves in EntryHi.
page_translate(p, store) ==
  IF Hits(p \div 2) = {}
  THEN [fault |-> "REFILL", asid |-> cp0.entry_hi.asid]
  ELSE LET e == tlb[CHOOSE i \in Hits(p \div 2) : TRUE]
           odd == (p \div (e.mask + 1)) % 2 = 1
           phyn == IF odd THEN e.p1 ELSE e.p0
           page == Align(phyn.pfn, e.mask) + (p % (e.mask + 1))
       IN CASE ~phyn.v -> [fault |-> "INVALID", asid |-> e.asid]
            [] phyn.v /\ ~phyn.d /\ store -> [fault |-> "MODIFIED", asid |-> e.asid]
            [] OTHER -> [fault |-> "NONE", page |-> ioremap(page), dirty |-> phyn.d]

\* Segments 4 and 5 are direct, and so is the user segment while ERL is set.
Mapped(p) == segment(p) = 6 \/ (segment(p) \in 0 .. 3 /\ ~cp0.ERL)

\* prot_addr_with_attr: "ABORT" where it panics or an assertion fails.
prot_addr(p, store) ==
  IF segment(p) = 7 \/ (Mapped(p) /\ MaskRefused(p \div 2))
  THEN [fault |-> "ABORT"]
  ELSE IF Mapped(p) THEN page_translate(p, store)
  ELSE [fault |-> "NONE", page |-> IF segment(p) \in {4, 5} THEN ioremap(p) ELSE p,
        dirty |-> FALSE]

\* find_device masks the address; the device then asserts that the address was
\* within its own range.
HasDevice(page) == page \in Ram \union Mmio

-----------------------------------------------------------------------------
(* The cache of translations *)

cache_index(p) == p % CacheSize
cache_id(p) == p \div CacheSize

Cached(p) == mmu_cache[cache_index(p)].id = cache_id(p)

\* Nothing reads the other fields of a line whose id no address has.
EmptyLine == [id |-> NoId, page |-> 0, can_write |-> FALSE]
EmptyCache == [i \in 0 .. CacheSize - 1 |-> EmptyLine]

clear_mmu_cache ==
  /\ mmu_cache' = EmptyCache
  /\ staleAsid' = FALSE

update_mmu_cache(p, page, can_write) ==
  mmu_cache' =
    IF page \in Ram
    THEN [mmu_cache EXCEPT ![cache_index(p)] =
            [id |-> cache_id(p), page |-> page, can_write |-> can_write]]
    ELSE mmu_cache

-----------------------------------------------------------------------------
(* Loads and stores *)

\* Mutant: the ASID comes from the entry Index names.
tlb_exception_IndexAsid(p, asid) ==
  /\ cp0' = [cp0 EXCEPT !.entry_hi = [vpn |-> p \div 2, asid |-> tlb[cp0.idx].asid]]
  /\ clear_mmu_cache
  /\ UNCHANGED <<tlb, running>>

\* BadVAddr and Context are left out: the emulator only writes them.
tlb_exception(p, asid) ==
  /\ cp0' = [cp0 EXCEPT !.entry_hi = [vpn |-> p \div 2, asid |-> asid]]
  /\ clear_mmu_cache
  /\ UNCHANGED <<tlb, running>>

CpuAbort ==
  /\ running' = FALSE
  /\ UNCHANGED <<tlb, cp0, mmu_cache, staleAsid, refill>>

\* History: an exception leaves the missing page in EntryHi or another one.
Missed(p, fault) ==
  /\ missed' = IF fault = "REFILL" THEN {[page |-> p, asid |-> cp0.entry_hi.asid]} ELSE {}
  /\ UNCHANGED filled

\* History: EntryHi no longer is what the exception left there.
Forget == missed' = {} /\ UNCHANGED filled

\* History: the handler answers the miss with the half of the page it missed.
Fill ==
  /\ filled' = IF cp0.pagemask # 0 THEN {}
               ELSE {[page |-> m.page, asid |-> m.asid,
                      lo |-> IF m.page % 2 = 1 THEN cp0.entry_lo1 ELSE cp0.entry_lo0] :
                       m \in missed}
  /\ missed' = {}

\* The part of vaddr_read and vaddr_write that misses the cache.
Walk(p, store) ==
  LET t == prot_addr(p, store)
  IN \/ /\ t.fault \in {"REFILL", "INVALID", "MODIFIED"}
        /\ tlb_exception(p, t.asid) /\ Missed(p, t.fault)
     \/ t.fault = "ABORT" /\ CpuAbort
     \/ t.fault = "NONE" /\ ~HasDevice(t.page) /\ CpuAbort
     \/ /\ t.fault = "NONE" /\ HasDevice(t.page)
        /\ update_mmu_cache(p, t.page, store \/ t.dirty)
        /\ UNCHANGED <<tlb, cp0, running, staleAsid, refill>>

\* A hit touches no state but memory, which is not modelled.
vaddr_read(p) ==
  \/ Cached(p) /\ UNCHANGED vars
  \/ ~Cached(p) /\ Walk(p, FALSE)

CanWrite(p) == Cached(p) /\ mmu_cache[cache_index(p)].can_write

vaddr_write(p) ==
  \/ CanWrite(p) /\ UNCHANGED vars
  \/ ~CanWrite(p) /\ Walk(p, TRUE)

-----------------------------------------------------------------------------
(* Instructions that change the registers or the TLB *)

\* Index.P, which tells the guest about a miss, is left out.
tlb_present ==
  LET vpn == cp0.entry_hi.vpn
  IN IF MaskRefused(vpn) THEN CpuAbort
     ELSE /\ cp0' = IF Hits(vpn) = {} THEN cp0
                    ELSE [cp0 EXCEPT !.idx = CHOOSE i \in Hits(vpn) : TRUE]
          /\ UNCHANGED <<tlb, mmu_cache, running, staleAsid, refill>>

\* tlbr overwrites the ASID and clears neither cache.
tlb_read ==
  LET e == tlb[cp0.idx]
      lo(phyn) == [pfn |-> Align(phyn.pfn, e.mask), v |-> phyn.v, d |-> phyn.d,
                   g |-> e.g]
  IN /\ cp0' = [cp0 EXCEPT
                  !.pagemask = e.mask,
                  !.entry_hi = [vpn |-> Align(e.vpn, e.mask), asid |-> e.asid],
                  !.entry_lo0 = lo(e.p0), !.entry_lo1 = lo(e.p1)]
     /\ staleAsid' = (staleAsid \/ e.asid # cp0.entry_hi.asid)
     /\ Forget
     /\ UNCHANGED <<tlb, mmu_cache, running>>

\* Mutant: the ASID of the old entry stays.
tlb_write_OldAsid(i) ==
  LET mask == cp0.pagemask
      phyn(lo) == [pfn |-> Align(lo.pfn, mask), v |-> lo.v, d |-> lo.d]
  IN tlb' = [tlb EXCEPT ![i] =
               [mask |-> mask, vpn |-> Align(cp0.entry_hi.vpn, mask),
                asid |-> tlb[i].asid,
                g |-> cp0.entry_lo0.g /\ cp0.entry_lo1.g,
                p0 |-> phyn(cp0.entry_lo0), p1 |-> phyn(cp0.entry_lo1)]]

tlb_write(i) ==
  LET mask == cp0.pagemask
      phyn(lo) == [pfn |-> Align(lo.pfn, mask), v |-> lo.v, d |-> lo.d]
  IN tlb' = [tlb EXCEPT ![i] =
               [mask |-> mask, vpn |-> Align(cp0.entry_hi.vpn, mask),
                asid |-> cp0.entry_hi.asid,
                g |-> cp0.entry_lo0.g /\ cp0.entry_lo1.g,
                p0 |-> phyn(cp0.entry_lo0), p1 |-> phyn(cp0.entry_lo1)]]

\* Mutant: the cache of translations survives.
tlbwi_NoClear ==
  /\ tlb_write(cp0.idx)
  /\ Fill
  /\ UNCHANGED <<cp0, running, mmu_cache, staleAsid>>

tlbwi ==
  /\ tlb_write(cp0.idx)
  /\ Fill
  /\ clear_mmu_cache
  /\ UNCHANGED <<cp0, running>>

\* Mutant: Random is incremented without the modulus.
tlbwr_NoWrap ==
  \E i \in Index :
    /\ MARCH_NOOP => i = cp0.random
    /\ tlb_write(i)
    /\ Fill
    /\ cp0' = [cp0 EXCEPT !.random = cp0.random + 1]
    /\ clear_mmu_cache
    /\ UNCHANGED running

\* rand() % NR_TLB_ENTRY, or on MARCH_NOOP the entries one after the other.
tlbwr ==
  \E i \in Index :
    /\ MARCH_NOOP => i = cp0.random
    /\ tlb_write(i)
    /\ Fill
    /\ cp0' = [cp0 EXCEPT !.random =
                 IF MARCH_NOOP THEN (cp0.random + 1) % NR_TLB_ENTRY ELSE i]
    /\ clear_mmu_cache
    /\ UNCHANGED running

mtc0_entry_hi(w) ==
  /\ cp0' = [cp0 EXCEPT !.entry_hi = w]
  /\ clear_mmu_cache
  /\ Forget
  /\ UNCHANGED <<tlb, running>>

mtc0_entry_lo0(w) ==
  /\ cp0' = [cp0 EXCEPT !.entry_lo0 = w]
  /\ UNCHANGED <<tlb, mmu_cache, running, staleAsid, refill>>

mtc0_entry_lo1(w) ==
  /\ cp0' = [cp0 EXCEPT !.entry_lo1 = w]
  /\ UNCHANGED <<tlb, mmu_cache, running, staleAsid, refill>>

mtc0_pagemask(w) ==
  /\ cp0' = [cp0 EXCEPT !.pagemask = w]
  /\ UNCHANGED <<tlb, mmu_cache, running, staleAsid, refill>>

mtc0_index(i) ==
  /\ cp0' = [cp0 EXCEPT !.idx = i]
  /\ UNCHANGED <<tlb, mmu_cache, running, staleAsid, refill>>

\* The caches are cleared when ERL changes, which decides about kuseg.
mtc0_status(erl) ==
  /\ cp0' = [cp0 EXCEPT !.ERL = erl]
  /\ IF erl # cp0.ERL THEN clear_mmu_cache ELSE UNCHANGED <<mmu_cache, staleAsid>>
  /\ UNCHANGED <<tlb, running, refill>>

eret ==
  /\ cp0' = [cp0 EXCEPT !.ERL = FALSE]
  /\ clear_mmu_cache
  /\ UNCHANGED <<tlb, running, refill>>

\* An exception that is none of the TLB's.
raise_exception ==
  /\ clear_mmu_cache
  /\ UNCHANGED <<tlb, cp0, running, refill>>

Init ==
  LET nophyn == [pfn |-> 0, v |-> FALSE, d |-> FALSE]
      nolo == [pfn |-> 0, v |-> FALSE, d |-> FALSE, g |-> FALSE]
  IN /\ tlb = [i \in Index |-> [mask |-> 0, vpn |-> 0, asid |-> 0, g |-> FALSE,
                                p0 |-> nophyn, p1 |-> nophyn]]
     /\ cp0 = [entry_hi |-> [vpn |-> 0, asid |-> 0], entry_lo0 |-> nolo,
               entry_lo1 |-> nolo, pagemask |-> 0, idx |-> 0,
               random |-> 0, ERL |-> FALSE]
     /\ mmu_cache = EmptyCache
     /\ running = TRUE
     /\ staleAsid = FALSE
     /\ missed = {} /\ filled = {}

Next ==
  /\ running
  /\ \/ \E p \in Pages : vaddr_read(p) \/ vaddr_write(p)
     \/ tlb_present \/ tlb_read \/ tlbwi \/ tlbwr
     \/ \E w \in EntryHis : mtc0_entry_hi(w)
     \/ \E w \in EntryLo0s : mtc0_entry_lo0(w)
     \/ \E w \in EntryLo1s : mtc0_entry_lo1(w)
     \/ \E w \in PageMasks : mtc0_pagemask(w)
     \/ \E i \in Index : mtc0_index(i)
     \/ \E erl \in BOOLEAN : mtc0_status(erl)
     \/ eret
     \/ raise_exception

Spec == Init /\ [][Next]_vars

-----------------------------------------------------------------------------
(* Properties *)

\* Type invariant.
TypeOK ==
  /\ tlb \in [Index -> TlbEntry]
  /\ cp0 \in [entry_hi : EntryHi, entry_lo0 : EntryLo, entry_lo1 : EntryLo,
              pagemask : Mask, idx : Index, random : Index,
              ERL : BOOLEAN]
  /\ mmu_cache \in [0 .. CacheSize - 1 -> Line]
  /\ running \in BOOLEAN
  /\ staleAsid \in BOOLEAN
  /\ missed \subseteq [page : VPage, asid : Asid]
  /\ filled \subseteq [page : VPage, asid : Asid, lo : EntryLo]

\* What the line cached for page p answers is what a walk would answer now.
LineRight(p) ==
  LET line == mmu_cache[cache_index(p)]
      read == prot_addr(p, FALSE)
  IN /\ read.fault = "NONE" /\ read.page = line.page
     /\ line.can_write => prot_addr(p, TRUE).fault = "NONE"

\* A cached page is the page the TLB maps the address to, and one that may be
\* written through the cache is writable.
Coherent == \A p \in Pages : Cached(p) => LineRight(p)

\* Every instruction that changes the translation of an address clears the
\* cache (clear_mmu_cache), but for a tlbr that brings in another ASID.
CacheCoherent == staleAsid \/ Coherent

\* A load or store changes the current ASID only through a global entry that
\* belongs to another address space (tlb_exception stores the entry's ASID).
AsidKept ==
  [][cp0'.entry_hi.asid # cp0.entry_hi.asid =>
       \A p \in Pages : vaddr_read(p) \/ vaddr_write(p) =>
         \E i \in Hits(p \div 2) : tlb[i].g /\ tlb[i].asid = cp0'.entry_hi.asid]_vars

\* The access that raised a refill exception (page_translate) cannot raise it
\* again once the handler has written an entry (tlbwi or tlbwr, whichever entry)
\* over the EntryHi tlb_exception left: tried again in its address space, after
\* any exceptions, returns and accesses in between, it finds the page of the half
\* of EntryLo that is its own.  This lasts until the TLB is written again, and
\* PageMask must be 0, the only mask page_translate accepts.
RefillAnswered ==
  \A f \in filled : f.asid = cp0.entry_hi.asid =>
    LET t == page_translate(f.page, FALSE)
    IN /\ ~MaskRefused(f.page \div 2)
       /\ IF f.lo.v THEN t.fault = "NONE" /\ t.page = ioremap(f.lo.pfn)
          ELSE t.fault = "INVALID"
=============================================================================
