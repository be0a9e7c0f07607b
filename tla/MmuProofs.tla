----------------------------- MODULE MmuProofs -----------------------------
(***************************************************************************)
(* The cache of translations is coherent and a refill answers the access   *)
(* that missed, for every TLB, every size of the cache and every guest     *)
(* program.                                                                *)
(***************************************************************************)
EXTENDS Mmu, WellFoundedInduction, TLAPS

-----------------------------------------------------------------------------
(* Lines and addresses *)

LEMMA DivMod ==
  ASSUME NEW n \in Nat, NEW c \in Nat \ {0}
  PROVE  /\ n \div c \in Nat /\ n % c \in 0 .. c - 1
         /\ n = c * (n \div c) + (n % c)
OBVIOUS

LEMMA PageType ==
  ASSUME NEW p \in Pages
  PROVE  /\ p \in Nat
         /\ cache_index(p) \in 0 .. CacheSize - 1
         /\ cache_id(p) \in Nat
<1>1. p \in Nat
  BY MmuAssumption DEF VPage
<1>2. CacheSize \in Nat \ {0}
  BY MmuAssumption
<1> QED BY Zenon, <1>1, <1>2, DivMod DEF cache_index, cache_id

\* Index and identifier of a line name one page.
LEMMA LineOfOnePage ==
  ASSUME NEW p \in Pages, NEW q \in Pages,
         cache_index(p) = cache_index(q), cache_id(p) = cache_id(q)
  PROVE  p = q
<1>1. p \in Nat /\ q \in Nat
  BY PageType
<1>2. CacheSize \in Nat \ {0}
  BY MmuAssumption
<1>3. p = CacheSize * (p \div CacheSize) + (p % CacheSize)
  BY <1>1, <1>2, DivMod
<1>4. q = CacheSize * (q \div CacheSize) + (q % CacheSize)
  BY <1>1, <1>2, DivMod
<1> QED BY <1>3, <1>4 DEF cache_index, cache_id

\* The identifier of a page is not larger than its number.
LEMMA IdInRange ==
  ASSUME NEW p \in Pages
  PROVE  cache_id(p) \in VPage
<1>1. CacheSize \in Nat \ {0} /\ SegPages \in Nat \ {0} /\ p \in 0 .. 8 * SegPages - 1
  BY MmuAssumption DEF VPage
<1>2. p \div CacheSize \in 0 .. p
  BY <1>1
<1> QED BY <1>1, <1>2 DEF VPage, cache_id

-----------------------------------------------------------------------------
(* Translation depends on the TLB, the current ASID and ERL only *)

SameTranslation ==
  /\ tlb' = tlb
  /\ cp0'.entry_hi.asid = cp0.entry_hi.asid
  /\ cp0'.ERL = cp0.ERL

LEMMA TranslationKept ==
  ASSUME SameTranslation, NEW p, NEW store
  PROVE  prot_addr(p, store)' = prot_addr(p, store)
<1>1. \A e, vpn : Matches(e, vpn)' <=> Matches(e, vpn)
  BY DEF Matches, SameTranslation
<1>2. \A vpn : Scanned(vpn)' = Scanned(vpn)
  BY <1>1 DEF Scanned, SameTranslation
<1>3. \A vpn : Hits(vpn)' = Hits(vpn)
  BY <1>1, <1>2 DEF Hits, SameTranslation
<1>4. \A vpn : MaskRefused(vpn)' <=> MaskRefused(vpn)
  BY <1>2 DEF MaskRefused, SameTranslation
<1>5. page_translate(p, store)' = page_translate(p, store)
  BY Zenon, <1>3 DEF page_translate, SameTranslation
<1>6. Mapped(p)' <=> Mapped(p)
  BY DEF Mapped, SameTranslation
<1> QED BY <1>4, <1>5, <1>6 DEF prot_addr

\* A store that is translated goes to the page a load goes to, and a load that
\* finds the dirty bit set tells that a store would be translated.
LEMMA LoadsAndStoresAgree ==
  ASSUME NEW p
  PROVE  /\ prot_addr(p, TRUE).fault = "NONE" =>
              /\ prot_addr(p, FALSE).fault = "NONE"
              /\ prot_addr(p, FALSE).page = prot_addr(p, TRUE).page
         /\ prot_addr(p, FALSE).fault = "NONE" /\ prot_addr(p, FALSE).dirty =>
              prot_addr(p, TRUE).fault = "NONE"
<1>1. /\ page_translate(p, TRUE).fault = "NONE" =>
           /\ page_translate(p, FALSE).fault = "NONE"
           /\ page_translate(p, FALSE).page = page_translate(p, TRUE).page
      /\ page_translate(p, FALSE).fault = "NONE" /\ page_translate(p, FALSE).dirty =>
           page_translate(p, TRUE).fault = "NONE"
  BY Zenon DEF page_translate
<1> QED BY Zenon, <1>1 DEF prot_addr

-----------------------------------------------------------------------------
(* The inductive invariant *)

IInv ==
  /\ mmu_cache \in [0 .. CacheSize - 1 -> Line]
  /\ CacheCoherent

LEMMA EmptyCacheType == EmptyCache \in [0 .. CacheSize - 1 -> Line]
<1>1. 0 \in VPage
  BY MmuAssumption DEF VPage
<1> QED BY <1>1 DEF EmptyCache, EmptyLine, Line

LEMMA ClearKeeps ==
  ASSUME clear_mmu_cache
  PROVE  IInv'
<1>1. mmu_cache' = EmptyCache
  BY DEF clear_mmu_cache
<1>2. ASSUME NEW p \in Pages PROVE ~Cached(p)'
  BY <1>1, PageType DEF Cached, EmptyCache, EmptyLine, NoId
<1> QED BY <1>1, <1>2, EmptyCacheType DEF IInv, CacheCoherent, Coherent

LEMMA FrameKeeps ==
  ASSUME IInv, SameTranslation, mmu_cache' = mmu_cache, staleAsid => staleAsid'
  PROVE  IInv'
<1>1. ASSUME NEW p \in Pages, Cached(p)', LineRight(p) PROVE LineRight(p)'
  BY Zenon, <1>1, TranslationKept DEF LineRight
<1>2. \A p \in Pages : Cached(p)' => Cached(p)
  BY DEF Cached
<1> QED BY <1>1, <1>2 DEF IInv, CacheCoherent, Coherent

\* Filling a line after a walk that translated page p: what the walk found is
\* what the line says, and no other page has the line's index and identifier.
LEMMA UpdateKeeps ==
  ASSUME IInv, NEW p \in Pages, NEW page, NEW cw \in BOOLEAN,
         update_mmu_cache(p, page, cw),
         prot_addr(p, FALSE).fault = "NONE", prot_addr(p, FALSE).page = page,
         cw => prot_addr(p, TRUE).fault = "NONE",
         UNCHANGED <<tlb, cp0, staleAsid>>
  PROVE  IInv'
<1>1. SameTranslation
  BY DEF SameTranslation
<1>2. CASE page \notin Ram
  BY <1>1, <1>2, FrameKeeps DEF update_mmu_cache
<1>3. CASE page \in Ram
  <2> DEFINE line == [id |-> cache_id(p), page |-> page, can_write |-> cw]
  <2>1. mmu_cache' = [mmu_cache EXCEPT ![cache_index(p)] = line]
    BY <1>3 DEF update_mmu_cache
  <2>2. line \in Line
    <3>1. page \in VPage
      BY <1>3, MmuAssumption DEF VPage
    <3>2. cache_id(p) \in VPage
      BY IdInRange
    <3> QED BY <3>1, <3>2 DEF Line
  <2>3. mmu_cache \in [0 .. CacheSize - 1 -> Line]
    BY DEF IInv
  <2>4. mmu_cache' \in [0 .. CacheSize - 1 -> Line]
    <3> HIDE DEF line
    <3> QED BY Zenon, <2>1, <2>2, <2>3
  <2>5. ASSUME NEW q \in Pages, Cached(q)', ~staleAsid PROVE LineRight(q)'
    <3>1. CASE cache_index(q) = cache_index(p)
      <4>1. mmu_cache'[cache_index(q)] = line
        BY <2>1, <2>3, <3>1, PageType
      <4>2. q = p
        <5>1. cache_id(q) = cache_id(p)
          BY <4>1, <2>5 DEF Cached, cache_id
        <5> QED BY <3>1, <5>1, LineOfOnePage
      <4>3. prot_addr(p, FALSE)' = prot_addr(p, FALSE)
             /\ prot_addr(p, TRUE)' = prot_addr(p, TRUE)
        BY Zenon, <1>1, TranslationKept
      <4>4. LineRight(p)'
        <5>1. mmu_cache'[cache_index(p)] = line
          BY <4>1, <3>1
        <5>2. /\ prot_addr(p, FALSE)'.fault = "NONE" /\ prot_addr(p, FALSE)'.page = page
              /\ cw => prot_addr(p, TRUE)'.fault = "NONE"
          BY Zenon, <4>3
        <5>3. line.page = page /\ (line.can_write <=> cw)
          OBVIOUS
        <5> HIDE DEF line
        <5> QED BY <5>1, <5>2, <5>3, Zenon DEF LineRight, cache_index
      <4> QED BY <4>2, <4>4
    <3>2. CASE cache_index(q) # cache_index(p)
      <4>1. mmu_cache'[cache_index(q)] = mmu_cache[cache_index(q)]
        BY <2>1, <2>3, <3>2, PageType
      <4>2. Cached(q)
        BY <4>1, <2>5 DEF Cached, cache_id, cache_index
      <4>3. LineRight(q)
        BY <4>2, <2>5 DEF IInv, CacheCoherent, Coherent
      <4>4. prot_addr(q, FALSE)' = prot_addr(q, FALSE)
             /\ prot_addr(q, TRUE)' = prot_addr(q, TRUE)
        BY Zenon, <1>1, TranslationKept
      <4> QED BY Zenon, <4>1, <4>3, <4>4 DEF LineRight, cache_index
    <3> QED BY <3>1, <3>2
  <2> QED BY <2>4, <2>5 DEF IInv, CacheCoherent, Coherent
<1> QED BY <1>2, <1>3

\* A walk faults and clears, aborts and changes nothing, or fills a line.
LEMMA WalkKeeps ==
  ASSUME IInv, NEW p \in Pages, NEW store \in BOOLEAN, Walk(p, store)
  PROVE  IInv'
<1> DEFINE t == prot_addr(p, store)
<1>1. CASE tlb_exception(p, t.asid)
  BY <1>1, ClearKeeps DEF tlb_exception
<1>2. CASE CpuAbort
  BY <1>2, FrameKeeps DEF CpuAbort, SameTranslation
<1>3. CASE /\ t.fault = "NONE" /\ update_mmu_cache(p, t.page, store \/ t.dirty)
           /\ UNCHANGED <<tlb, cp0, running, staleAsid>>
  <2> DEFINE cw == store \/ t.dirty
  <2>1. cw \in BOOLEAN
    OBVIOUS
  <2>2. CASE store
    <3>1. store = TRUE
      BY <2>2
    <3>2. /\ prot_addr(p, FALSE).fault = "NONE" /\ prot_addr(p, FALSE).page = t.page
          /\ prot_addr(p, TRUE).fault = "NONE"
      BY Zenon, <1>3, <3>1, LoadsAndStoresAgree
    <3> HIDE DEF cw, t
    <3> QED BY Zenon, <1>3, <2>1, <3>2, UpdateKeeps DEF cw
  <2>3. CASE ~store
    <3>1. store = FALSE
      BY <2>3
    <3>2. /\ prot_addr(p, FALSE).fault = "NONE" /\ prot_addr(p, FALSE).page = t.page
          /\ cw => prot_addr(p, TRUE).fault = "NONE"
      BY Zenon, <1>3, <3>1, LoadsAndStoresAgree
    <3> QED BY Zenon, <1>3, <2>1, <3>2, UpdateKeeps
  <2> QED BY <2>2, <2>3
<1> QED BY <1>1, <1>2, <1>3 DEF Walk

-----------------------------------------------------------------------------
(* Types *)

\* The type invariant but for the history of refills.
CoreType ==
  /\ tlb \in [Index -> TlbEntry]
  /\ cp0 \in [entry_hi : EntryHi, entry_lo0 : EntryLo, entry_lo1 : EntryLo,
              pagemask : Mask, idx : Index, random : Index,
              ERL : BOOLEAN]
  /\ mmu_cache \in [0 .. CacheSize - 1 -> Line]
  /\ running \in BOOLEAN
  /\ staleAsid \in BOOLEAN

Cp0Type == [entry_hi : EntryHi, entry_lo0 : EntryLo, entry_lo1 : EntryLo,
            pagemask : Mask, idx : Index, random : Index, ERL : BOOLEAN]

LEMMA AlignType ==
  ASSUME NEW x \in Nat, NEW mask \in Nat
  PROVE  Align(x, mask) \in 0 .. x
<1>1. x % (mask + 1) \in 0 .. mask /\ x \div (mask + 1) \in Nat
      /\ x = (mask + 1) * (x \div (mask + 1)) + (x % (mask + 1))
  <2> DEFINE c == mask + 1
  <2>1. c \in Nat \ {0} /\ c - 1 = mask
    OBVIOUS
  <2> HIDE DEF c
  <2>2. x % c \in 0 .. c - 1 /\ x \div c \in Nat /\ x = c * (x \div c) + (x % c)
    BY <2>1, DivMod
  <2> QED BY <2>1, <2>2 DEF c
<1>2. (mask + 1) * (x \div (mask + 1)) \in Nat
  BY <1>1
<1> HIDE DEF Align
<1>3. Align(x, mask) = x - (x % (mask + 1))
  BY DEF Align
<1>4. (x % (mask + 1)) \in 0 .. x
  BY <1>1, <1>2
<1> QED BY <1>3, <1>4

LEMMA AlignRanges ==
  ASSUME NEW mask \in Mask
  PROVE  /\ \A vpn \in Vpn : Align(vpn, mask) \in Vpn
         /\ \A pfn \in VPage : Align(pfn, mask) \in VPage
<1>1. mask \in Nat
  BY DEF Mask
<1>2. ASSUME NEW vpn \in Vpn PROVE Align(vpn, mask) \in Vpn
  <2>1. vpn \in Nat /\ SegPages \in Nat
    BY MmuAssumption DEF Vpn
  <2>2. Align(vpn, mask) \in 0 .. vpn
    BY <1>1, <2>1, AlignType
  <2> QED BY <2>1, <2>2 DEF Vpn
<1>3. ASSUME NEW pfn \in VPage PROVE Align(pfn, mask) \in VPage
  <2>1. pfn \in Nat /\ SegPages \in Nat
    BY MmuAssumption DEF VPage
  <2>2. Align(pfn, mask) \in 0 .. pfn
    BY <1>1, <2>1, AlignType
  <2> QED BY <2>1, <2>2 DEF VPage
<1> QED BY <1>2, <1>3

\* The entry number i is replaced by one of the right type.
LEMMA TlbWriteType ==
  ASSUME CoreType, NEW i \in Index, tlb_write(i)
  PROVE  tlb' \in [Index -> TlbEntry]
<1> DEFINE mask == cp0.pagemask
           phyn(lo) == [pfn |-> Align(lo.pfn, mask), v |-> lo.v, d |-> lo.d]
           e == [mask |-> mask, vpn |-> Align(cp0.entry_hi.vpn, mask),
                 asid |-> cp0.entry_hi.asid,
                 g |-> cp0.entry_lo0.g /\ cp0.entry_lo1.g,
                 p0 |-> phyn(cp0.entry_lo0), p1 |-> phyn(cp0.entry_lo1)]
<1>1. /\ mask \in Mask /\ cp0.entry_hi \in EntryHi
      /\ cp0.entry_lo0 \in EntryLo /\ cp0.entry_lo1 \in EntryLo
  BY DEF CoreType
<1>2. ASSUME NEW lo \in EntryLo PROVE phyn(lo) \in Phyn
  BY <1>1, AlignRanges DEF EntryLo, Phyn
<1>3. /\ Align(cp0.entry_hi.vpn, mask) \in Vpn /\ cp0.entry_hi.asid \in Asid
      /\ (cp0.entry_lo0.g /\ cp0.entry_lo1.g) \in BOOLEAN
  BY <1>1, AlignRanges DEF EntryHi
<1>4. phyn(cp0.entry_lo0) \in Phyn /\ phyn(cp0.entry_lo1) \in Phyn
  BY <1>1, <1>2
<1>5. e \in TlbEntry
  <2> HIDE DEF phyn, mask
  <2> QED BY <1>1, <1>3, <1>4 DEF TlbEntry
<1>6. tlb' = [tlb EXCEPT ![i] = e]
  BY DEF tlb_write
<1>7. tlb \in [Index -> TlbEntry]
  BY DEF CoreType
<1> HIDE DEF e
<1> QED BY <1>5, <1>6, <1>7

\* The ASID a faulting access leaves behind is the current one or an entry's.
LEMMA FaultAsidType ==
  ASSUME CoreType, NEW p, NEW store,
         prot_addr(p, store).fault \in {"REFILL", "INVALID", "MODIFIED"}
  PROVE  prot_addr(p, store).asid \in Asid
<1>1. prot_addr(p, store) = page_translate(p, store)
  BY DEF prot_addr
<1>2. CASE Hits(p \div 2) = {}
  <2>1. cp0.entry_hi.asid \in Asid
    BY DEF CoreType, EntryHi
  <2>2. page_translate(p, store) = [fault |-> "REFILL", asid |-> cp0.entry_hi.asid]
    BY Zenon, <1>2 DEF page_translate
  <2> QED BY <1>1, <2>1, <2>2
<1>3. CASE Hits(p \div 2) # {}
  <2> DEFINE i == CHOOSE j \in Hits(p \div 2) : TRUE
  <2>1. i \in Index
    BY <1>3 DEF Hits, Scanned
  <2>2. tlb[i].asid \in Asid
    BY <2>1 DEF CoreType, TlbEntry
  <2> DEFINE t == page_translate(p, store)
             e == tlb[i]
             phyn == IF (p \div (e.mask + 1)) % 2 = 1 THEN e.p1 ELSE e.p0
             page == Align(phyn.pfn, e.mask) + (p % (e.mask + 1))
  <2>3. t = CASE ~phyn.v -> [fault |-> "INVALID", asid |-> e.asid]
              [] phyn.v /\ ~phyn.d /\ store -> [fault |-> "MODIFIED", asid |-> e.asid]
              [] OTHER -> [fault |-> "NONE", page |-> ioremap(page), dirty |-> phyn.d]
    BY <1>3, Zenon DEF page_translate
  <2>4. t.fault # "NONE"
    BY <1>1
  <2>5. t.asid = e.asid
    <3> HIDE DEF t, e, phyn, page
    <3> QED BY <2>3, <2>4
  <2> QED BY <1>1, <2>2, <2>5
<1> QED BY <1>2, <1>3

LEMMA WalkType ==
  ASSUME CoreType, NEW p \in Pages, NEW store \in BOOLEAN, Walk(p, store)
  PROVE  UNCHANGED tlb /\ cp0' \in Cp0Type /\ running' \in BOOLEAN /\ staleAsid' \in BOOLEAN
<1> DEFINE t == prot_addr(p, store)
<1>1. CASE t.fault \in {"REFILL", "INVALID", "MODIFIED"} /\ tlb_exception(p, t.asid)
  <2> DEFINE hi == [vpn |-> p \div 2, asid |-> t.asid]
  <2>1. p \in Nat /\ p \div 2 \in Vpn
    BY MmuAssumption DEF VPage, Vpn
  <2>2. t.asid \in Asid
    BY <1>1, FaultAsidType
  <2>3. hi \in EntryHi
    <3> HIDE DEF t
    <3> QED BY <2>1, <2>2 DEF EntryHi
  <2>4. cp0' = [cp0 EXCEPT !.entry_hi = hi]
    BY <1>1 DEF tlb_exception
  <2>5. cp0 \in Cp0Type
    BY DEF CoreType, Cp0Type
  <2>6. cp0' \in Cp0Type
    <3> HIDE DEF hi
    <3> QED BY <2>3, <2>4, <2>5 DEF Cp0Type
  <2> QED BY Zenon, <1>1, <2>6 DEF tlb_exception, clear_mmu_cache, CoreType
<1>2. CASE CpuAbort
  BY Zenon, <1>2 DEF CpuAbort, CoreType, Cp0Type
<1>3. CASE UNCHANGED <<tlb, cp0, running, staleAsid>>
  BY <1>3 DEF CoreType, Cp0Type
<1> QED BY <1>1, <1>2, <1>3 DEF Walk

\* What tlbr brings into the registers.
LEMMA TlbReadType ==
  ASSUME CoreType, tlb_read
  PROVE  /\ cp0' \in Cp0Type
         /\ cp0'.ERL = cp0.ERL /\ cp0'.entry_hi.asid = tlb[cp0.idx].asid
<1> DEFINE e == tlb[cp0.idx]
           lo(phyn) == [pfn |-> Align(phyn.pfn, e.mask), v |-> phyn.v, d |-> phyn.d,
                        g |-> e.g]
           hi == [vpn |-> Align(e.vpn, e.mask), asid |-> e.asid]
<1>1. cp0 \in Cp0Type
  BY DEF CoreType, Cp0Type
<1>2. e \in TlbEntry
  <2>1. cp0.idx \in Index
    BY <1>1 DEF Cp0Type
  <2>2. tlb \in [Index -> TlbEntry]
    BY DEF CoreType
  <2> QED BY <2>1, <2>2
<1>3. e.mask \in Mask /\ hi \in EntryHi /\ hi.asid = e.asid
  <2> HIDE DEF e
  <2> QED BY <1>2, AlignRanges DEF TlbEntry, EntryHi
<1>4. lo(e.p0) \in EntryLo /\ lo(e.p1) \in EntryLo
  <2> HIDE DEF e
  <2> QED BY <1>2, AlignRanges DEF TlbEntry, Phyn, EntryLo
<1>5. cp0' = [cp0 EXCEPT !.pagemask = e.mask, !.entry_hi = hi,
                         !.entry_lo0 = lo(e.p0), !.entry_lo1 = lo(e.p1)]
  BY DEF tlb_read
<1> DEFINE l0 == lo(e.p0)  l1 == lo(e.p1)  k == e.mask
<1>6. cp0' = [cp0 EXCEPT !.pagemask = k, !.entry_hi = hi, !.entry_lo0 = l0,
                         !.entry_lo1 = l1]
  BY <1>5
<1>7. k \in Mask /\ hi \in EntryHi /\ l0 \in EntryLo /\ l1 \in EntryLo
  BY <1>3, <1>4
<1> HIDE DEF l0, l1, k, hi
<1>8. cp0' \in Cp0Type /\ cp0'.ERL = cp0.ERL /\ cp0'.entry_hi = hi
  BY Zenon, <1>1, <1>6, <1>7 DEF Cp0Type
<1> QED BY <1>8, <1>3 DEF hi

-----------------------------------------------------------------------------
(* One step *)

\* Registers that are written one at a time, none of them part of a translation.
LEMMA RegisterStep ==
  ASSUME CoreType, IInv, UNCHANGED <<tlb, mmu_cache, running, staleAsid>>,
         cp0' \in Cp0Type, cp0'.entry_hi = cp0.entry_hi, cp0'.ERL = cp0.ERL
  PROVE  CoreType' /\ IInv'
<1>1. SameTranslation
  BY DEF SameTranslation
<1> QED BY <1>1, FrameKeeps DEF CoreType, Cp0Type

\* An instruction that clears the cache of translations.
LEMMA ClearStep ==
  ASSUME clear_mmu_cache, tlb' \in [Index -> TlbEntry], cp0' \in Cp0Type,
         running' \in BOOLEAN
  PROVE  CoreType' /\ IInv'
<1>1. IInv'
  BY ClearKeeps
<1> QED BY Zenon, <1>1 DEF IInv, CoreType, Cp0Type, clear_mmu_cache

LEMMA AccessStep ==
  ASSUME CoreType, IInv, NEW p \in Pages, vaddr_read(p) \/ vaddr_write(p)
  PROVE  CoreType' /\ IInv'
<1>1. CASE UNCHANGED vars
  <2>1. SameTranslation
    BY <1>1 DEF SameTranslation, vars
  <2> QED BY <1>1, <2>1, FrameKeeps DEF vars, CoreType
<1>2. ASSUME NEW store \in BOOLEAN, Walk(p, store) PROVE CoreType' /\ IInv'
  <2>1. IInv'
    BY <1>2, WalkKeeps
  <2>2. UNCHANGED tlb /\ cp0' \in Cp0Type /\ running' \in BOOLEAN /\ staleAsid' \in BOOLEAN
    BY <1>2, WalkType
  <2> QED BY <2>1, <2>2 DEF IInv, CoreType, Cp0Type
<1> QED BY Zenon, <1>1, <1>2 DEF vaddr_read, vaddr_write

LEMMA MmuStep ==
  ASSUME CoreType, IInv, [Next]_vars
  PROVE  CoreType' /\ IInv'
<1>0. /\ cp0 \in Cp0Type /\ tlb \in [Index -> TlbEntry] /\ running \in BOOLEAN
      /\ mmu_cache \in [0 .. CacheSize - 1 -> Line] /\ staleAsid \in BOOLEAN
  BY DEF CoreType, Cp0Type
<1>1. CASE UNCHANGED vars
  <2>1. SameTranslation
    BY <1>1 DEF SameTranslation, vars
  <2> QED BY <1>1, <2>1, FrameKeeps DEF vars, CoreType
<1>2. ASSUME NEW p \in Pages, vaddr_read(p) \/ vaddr_write(p) PROVE CoreType' /\ IInv'
  BY <1>2, AccessStep
<1>3. CASE tlb_present
  <2>1. CASE CpuAbort
    <3>1. SameTranslation
      BY <2>1 DEF SameTranslation, CpuAbort
    <3> QED BY Zenon, <2>1, <3>1, FrameKeeps DEF CpuAbort, CoreType
  <2>2. CASE ~CpuAbort
    <3> DEFINE i == CHOOSE j \in Hits(cp0.entry_hi.vpn) : TRUE
    <3>1. Hits(cp0.entry_hi.vpn) # {} => i \in Index
      BY DEF Hits, Scanned
    <3>2. \/ cp0' = cp0
          \/ Hits(cp0.entry_hi.vpn) # {} /\ cp0' = [cp0 EXCEPT !.idx = i]
      BY <1>3, <2>2 DEF tlb_present
    <3>3. cp0' \in Cp0Type /\ cp0'.entry_hi = cp0.entry_hi /\ cp0'.ERL = cp0.ERL
      <4> HIDE DEF i
      <4> QED BY <1>0, <3>1, <3>2 DEF Cp0Type
    <3>4. UNCHANGED <<tlb, mmu_cache, running, staleAsid>>
      BY <1>3, <2>2 DEF tlb_present
    <3> QED BY <3>3, <3>4, RegisterStep
  <2> QED BY <2>1, <2>2
<1>4. CASE tlb_read
  <2>1. /\ cp0' \in Cp0Type
        /\ cp0'.ERL = cp0.ERL /\ cp0'.entry_hi.asid = tlb[cp0.idx].asid
    BY <1>4, TlbReadType
  <2>2. /\ UNCHANGED <<tlb, mmu_cache, running>>
        /\ staleAsid' = (staleAsid \/ tlb[cp0.idx].asid # cp0.entry_hi.asid)
    BY <1>4 DEF tlb_read
  <2>3. CoreType'
    BY <1>0, <2>1, <2>2 DEF CoreType, Cp0Type
  <2>4. CASE tlb[cp0.idx].asid = cp0.entry_hi.asid
    <3>1. SameTranslation
      BY <2>1, <2>2, <2>4 DEF SameTranslation
    <3> QED BY Zenon, <2>2, <2>3, <3>1, FrameKeeps
  <2>5. CASE tlb[cp0.idx].asid # cp0.entry_hi.asid
    <3>1. staleAsid'
      BY Zenon, <2>2, <2>5
    <3> QED BY <2>2, <2>3, <3>1 DEF IInv, CacheCoherent
  <2> QED BY <2>4, <2>5
<1>5. CASE tlbwi
  <2>1. cp0.idx \in Index
    BY <1>0 DEF Cp0Type
  <2>2. tlb' \in [Index -> TlbEntry]
    BY <1>5, <2>1, TlbWriteType DEF tlbwi
  <2> QED BY <1>0, <1>5, <2>2, ClearStep DEF tlbwi
<1>6. CASE tlbwr
  <2>1. PICK i \in Index :
          /\ tlb_write(i)
          /\ cp0' = [cp0 EXCEPT !.random =
                       IF MARCH_NOOP THEN (cp0.random + 1) % NR_TLB_ENTRY ELSE i]
          /\ clear_mmu_cache
          /\ UNCHANGED running
    BY <1>6 DEF tlbwr
  <2> DEFINE r == IF MARCH_NOOP THEN (cp0.random + 1) % NR_TLB_ENTRY ELSE i
  <2>2. r \in Index
    <3>1. cp0.random \in Nat /\ NR_TLB_ENTRY \in Nat \ {0}
      BY <1>0, MmuAssumption DEF Cp0Type, Index
    <3>2. (cp0.random + 1) % NR_TLB_ENTRY \in 0 .. NR_TLB_ENTRY - 1
      BY <3>1
    <3> QED BY <3>2 DEF Index
  <2>3. cp0' \in Cp0Type
    <3> HIDE DEF r
    <3>1. cp0' = [cp0 EXCEPT !.random = r]
      BY <2>1 DEF r
    <3> QED BY <1>0, <2>2, <3>1 DEF Cp0Type
  <2>4. tlb' \in [Index -> TlbEntry]
    BY <2>1, TlbWriteType
  <2> QED BY <1>0, <2>1, <2>3, <2>4, ClearStep
<1>7. ASSUME NEW w \in EntryHis, mtc0_entry_hi(w) PROVE CoreType' /\ IInv'
  <2>1. w \in EntryHi
    BY MmuAssumption
  <2>2. cp0' \in Cp0Type
    BY <1>0, <1>7, <2>1 DEF mtc0_entry_hi, Cp0Type
  <2> QED BY <1>0, <1>7, <2>2, ClearStep DEF mtc0_entry_hi
<1>8. ASSUME NEW w \in EntryLo0s, mtc0_entry_lo0(w) PROVE CoreType' /\ IInv'
  <2>1. w \in EntryLo
    BY MmuAssumption
  <2>2. cp0' \in Cp0Type /\ cp0'.entry_hi = cp0.entry_hi /\ cp0'.ERL = cp0.ERL
    BY <1>0, <1>8, <2>1 DEF mtc0_entry_lo0, Cp0Type
  <2> QED BY <1>8, <2>2, RegisterStep DEF mtc0_entry_lo0
<1>9. ASSUME NEW w \in EntryLo1s, mtc0_entry_lo1(w) PROVE CoreType' /\ IInv'
  <2>1. w \in EntryLo
    BY MmuAssumption
  <2>2. cp0' \in Cp0Type /\ cp0'.entry_hi = cp0.entry_hi /\ cp0'.ERL = cp0.ERL
    BY <1>0, <1>9, <2>1 DEF mtc0_entry_lo1, Cp0Type
  <2> QED BY <1>9, <2>2, RegisterStep DEF mtc0_entry_lo1
<1>10. ASSUME NEW w \in PageMasks, mtc0_pagemask(w) PROVE CoreType' /\ IInv'
  <2>1. w \in Mask
    BY MmuAssumption
  <2>2. cp0' \in Cp0Type /\ cp0'.entry_hi = cp0.entry_hi /\ cp0'.ERL = cp0.ERL
    BY <1>0, <1>10, <2>1 DEF mtc0_pagemask, Cp0Type
  <2> QED BY <1>10, <2>2, RegisterStep DEF mtc0_pagemask
<1>11. ASSUME NEW i \in Index, mtc0_index(i) PROVE CoreType' /\ IInv'
  <2>1. cp0' \in Cp0Type /\ cp0'.entry_hi = cp0.entry_hi /\ cp0'.ERL = cp0.ERL
    BY <1>0, <1>11 DEF mtc0_index, Cp0Type
  <2> QED BY <1>11, <2>1, RegisterStep DEF mtc0_index
<1>12. ASSUME NEW erl \in BOOLEAN, mtc0_status(erl) PROVE CoreType' /\ IInv'
  <2>1. cp0' \in Cp0Type /\ cp0'.entry_hi = cp0.entry_hi /\ cp0'.ERL = erl
    BY <1>0, <1>12 DEF mtc0_status, Cp0Type
  <2>2. CASE erl = cp0.ERL
    BY <1>12, <2>1, <2>2, RegisterStep DEF mtc0_status
  <2>3. CASE erl # cp0.ERL
    BY <1>0, <1>12, <2>1, <2>3, ClearStep DEF mtc0_status
  <2> QED BY <2>2, <2>3
<1>13. CASE eret
  <2>1. cp0' \in Cp0Type
    BY Zenon, <1>0, <1>13 DEF eret, Cp0Type
  <2> QED BY <1>0, <1>13, <2>1, ClearStep DEF eret
<1>14. CASE raise_exception
  BY <1>0, <1>14, ClearStep DEF raise_exception
<1> QED BY <1>1, <1>2, <1>3, <1>4, <1>5, <1>6, <1>7, <1>8, <1>9, <1>10, <1>11,
           <1>12, <1>13, <1>14 DEF Next

LEMMA MmuInit == Init => CoreType /\ IInv
<1> SUFFICES ASSUME Init PROVE CoreType /\ IInv
  OBVIOUS
<1>1. IInv
  <2>1. \A p \in Pages : ~Cached(p)
    BY PageType DEF Init, Cached, EmptyCache, EmptyLine, NoId
  <2> QED BY <2>1, EmptyCacheType DEF Init, IInv, CacheCoherent, Coherent
<1>2. 0 \in VPage /\ 0 \in Vpn /\ 0 \in Index /\ 0 \in Asid /\ 0 \in Mask
  BY MmuAssumption DEF VPage, Vpn, Index, Asid, Mask
<1> DEFINE nophyn == [pfn |-> 0, v |-> FALSE, d |-> FALSE]
           nolo == [pfn |-> 0, v |-> FALSE, d |-> FALSE, g |-> FALSE]
           hi == [vpn |-> 0, asid |-> 0]
           e == [mask |-> 0, vpn |-> 0, asid |-> 0, g |-> FALSE,
                 p0 |-> nophyn, p1 |-> nophyn]
<1>3. nophyn \in Phyn /\ nolo \in EntryLo /\ hi \in EntryHi
  BY <1>2 DEF Phyn, EntryLo, EntryHi
<1>4. e \in TlbEntry
  <2> HIDE DEF nophyn
  <2> QED BY <1>2, <1>3 DEF TlbEntry
<1>5. tlb = [i \in Index |-> e]
  BY Zenon DEF Init
<1>6. cp0 = [entry_hi |-> hi, entry_lo0 |-> nolo, entry_lo1 |-> nolo,
             pagemask |-> 0, idx |-> 0, random |-> 0, ERL |-> FALSE]
  BY Zenon DEF Init
<1>7. tlb \in [Index -> TlbEntry]
  <2> HIDE DEF e
  <2> QED BY <1>4, <1>5
<1>8. cp0 \in Cp0Type
  <2> HIDE DEF hi, nolo
  <2> QED BY <1>2, <1>3, <1>6 DEF Cp0Type
<1> QED BY Zenon, <1>1, <1>7, <1>8 DEF IInv, CoreType, Cp0Type, Init

-----------------------------------------------------------------------------
(* Refills *)

\* Of the entries that match there is a first one.
LEMMA FirstOf ==
  ASSUME NEW T \in SUBSET Index, T # {}
  PROVE  \E x \in T : \A y \in T : ~(y < x)
<1> DEFINE R == OpToRel(<, Nat)
<1>1. T \subseteq Nat
  BY DEF Index
<1>2. IsWellFoundedOn(R, Nat)
  BY Zenon, NatLessThanWellFounded
<1>3. \A x, y \in Nat : y < x => <<y, x>> \in R
  BY DEF OpToRel
<1> HIDE DEF R
<1>4. PICK x \in T : \A y \in T : <<y, x>> \notin R
  BY Zenon, <1>1, <1>2, WFMin
<1> QED BY Zenon, <1>1, <1>3, <1>4

LEMMA AlignByOne ==
  ASSUME NEW x \in Nat
  PROVE  Align(x, 0) = x
BY DEF Align

\* An entry for pages of 4 KB answers access m in its address space.
Answers(e, m) == e.vpn = m.page \div 2 /\ (e.g \/ e.asid = m.asid)

\* Entry e is the one a handler wrote for access f.
Holds(e, f) ==
  /\ e.vpn = f.page \div 2 /\ e.asid = f.asid
  /\ (IF f.page % 2 = 1 THEN e.p1 ELSE e.p0)
       = [pfn |-> f.lo.pfn, v |-> f.lo.v, d |-> f.lo.d]

MissType == [page : VPage, asid : Asid]
FillType == [page : VPage, asid : Asid, lo : EntryLo]

\* While an access counts as missed EntryHi describes it and no entry answers it.
MissInv ==
  \A m \in missed :
    /\ m \in MissType
    /\ cp0.entry_hi = [vpn |-> m.page \div 2, asid |-> m.asid]
    /\ \A i \in Index : tlb[i].mask = 0 /\ ~Answers(tlb[i], m)

\* While it counts as filled one entry answers it, the one written for it.
FillInv ==
  \A f \in filled :
    /\ f \in FillType
    /\ \E i \in Index :
         /\ Holds(tlb[i], f)
         /\ \A j \in Index : tlb[j].mask = 0 /\ (j # i => ~Answers(tlb[j], f))

RInv == MissInv /\ FillInv

\* A walk that ends without a hit has looked at every entry.
LEMMA MissSeesAll ==
  ASSUME CoreType, NEW p \in Pages, Hits(p \div 2) = {}, ~MaskRefused(p \div 2),
         NEW i \in Index
  PROVE  /\ tlb[i].mask = 0
         /\ ~Answers(tlb[i], [page |-> p, asid |-> cp0.entry_hi.asid])
<1> DEFINE vpn == p \div 2
           T == {j \in Index : Matches(tlb[j], vpn)}
<1>1. T = {}
  <2> SUFFICES ASSUME T # {} PROVE FALSE
    OBVIOUS
  <2>1. PICK x \in T : \A y \in T : ~(y < x)
    <3> HIDE DEF T
    <3>1. T \in SUBSET Index
      BY DEF T
    <3> QED BY <3>1, FirstOf
  <2>2. x \in Hits(vpn)
    BY <2>1 DEF Hits, Scanned
  <2> QED BY <2>2
<1>2. \A j \in Index : ~Matches(tlb[j], vpn)
  BY <1>1
<1>3. i \in Scanned(vpn)
  BY <1>2 DEF Scanned
<1>4. tlb[i].mask = 0
  BY <1>3 DEF MaskRefused
<1>5. vpn \in Nat /\ tlb[i].vpn \in Nat
  BY MmuAssumption DEF VPage, CoreType, TlbEntry, Vpn
<1>6. Align(tlb[i].vpn, 0) = tlb[i].vpn /\ Align(vpn, 0) = vpn
  BY <1>5, AlignByOne
<1>7. ~(tlb[i].vpn = vpn /\ (tlb[i].g \/ tlb[i].asid = cp0.entry_hi.asid))
  BY Zenon, <1>2, <1>4, <1>6 DEF Matches
<1> QED BY Zenon, <1>4, <1>7 DEF Answers

\* A refill exception is raised when there is no hit and no mask was refused.
LEMMA RefillMeansMiss ==
  ASSUME NEW p, NEW store, prot_addr(p, store).fault = "REFILL"
  PROVE  /\ Hits(p \div 2) = {} /\ ~MaskRefused(p \div 2)
         /\ prot_addr(p, store).asid = cp0.entry_hi.asid
<1>1. prot_addr(p, store) = page_translate(p, store) /\ ~MaskRefused(p \div 2)
  BY DEF prot_addr
<1>2. Hits(p \div 2) = {}
  <2> SUFFICES ASSUME Hits(p \div 2) # {} PROVE FALSE
    OBVIOUS
  <2> DEFINE e == tlb[CHOOSE j \in Hits(p \div 2) : TRUE]
             t == page_translate(p, store)
             phyn == IF (p \div (e.mask + 1)) % 2 = 1 THEN e.p1 ELSE e.p0
             page == Align(phyn.pfn, e.mask) + (p % (e.mask + 1))
  <2>1. t = CASE ~phyn.v -> [fault |-> "INVALID", asid |-> e.asid]
              [] phyn.v /\ ~phyn.d /\ store -> [fault |-> "MODIFIED", asid |-> e.asid]
              [] OTHER -> [fault |-> "NONE", page |-> ioremap(page), dirty |-> phyn.d]
    BY Zenon DEF page_translate
  <2>2. t.fault = "REFILL"
    BY <1>1
  <2> HIDE DEF t, e, phyn, page
  <2> QED BY <2>1, <2>2
<1>3. page_translate(p, store) = [fault |-> "REFILL", asid |-> cp0.entry_hi.asid]
  BY Zenon, <1>2 DEF page_translate
<1> QED BY <1>1, <1>2, <1>3

\* Steps that leave the TLB alone, and EntryHi while an access counts as missed.
LEMMA RefillFrame ==
  ASSUME RInv, UNCHANGED <<tlb, filled>>,
         missed' = {} \/ (missed' = missed /\ cp0'.entry_hi = cp0.entry_hi)
  PROVE  RInv'
<1>1. FillInv'
  BY Zenon DEF RInv, FillInv
<1>2. MissInv'
  BY Zenon DEF RInv, MissInv
<1> QED BY <1>1, <1>2 DEF RInv

\* The write that answers a miss: the new entry is the only one that does.
LEMMA RefillWrite ==
  ASSUME CoreType, RInv, NEW i \in Index, tlb_write(i), Fill
  PROVE  RInv'
<1> DEFINE phyn(lo) == [pfn |-> Align(lo.pfn, 0), v |-> lo.v, d |-> lo.d]
<1>1. MissInv'
  BY DEF Fill, MissInv
<1>2. ASSUME NEW f \in filled'
      PROVE  /\ f \in FillType
             /\ Holds(tlb'[i], f)
             /\ \A j \in Index : tlb'[j].mask = 0 /\ (j # i => ~Answers(tlb'[j], f))
  <2>1. cp0.pagemask = 0
    BY <1>2 DEF Fill
  <2>2. PICK m \in missed :
          f = [page |-> m.page, asid |-> m.asid,
               lo |-> IF m.page % 2 = 1 THEN cp0.entry_lo1 ELSE cp0.entry_lo0]
    BY <1>2, <2>1 DEF Fill
  <2>3. /\ m \in MissType
        /\ cp0.entry_hi = [vpn |-> m.page \div 2, asid |-> m.asid]
        /\ \A j \in Index : tlb[j].mask = 0 /\ ~Answers(tlb[j], m)
    BY <2>2 DEF RInv, MissInv
  <2>4. cp0.entry_lo0 \in EntryLo /\ cp0.entry_lo1 \in EntryLo
    BY DEF CoreType
  <2>5. f \in FillType
    BY <2>2, <2>3, <2>4 DEF MissType, FillType
  <2>6. f.page = m.page /\ f.asid = m.asid
    BY <2>2
  <2>7. ASSUME NEW j \in Index, j # i
        PROVE  tlb'[j].mask = 0 /\ ~Answers(tlb'[j], f)
    <3>1. tlb'[j] = tlb[j]
      BY <2>7 DEF tlb_write, CoreType
    <3> QED BY <2>3, <2>6, <3>1 DEF Answers
  <2>8. cp0.entry_hi.vpn \in Nat /\ cp0.entry_lo0.pfn \in Nat /\ cp0.entry_lo1.pfn \in Nat
    BY DEF CoreType, EntryHi, EntryLo, Vpn, VPage
  <2>9. /\ Align(cp0.entry_hi.vpn, 0) = cp0.entry_hi.vpn
        /\ Align(cp0.entry_lo0.pfn, 0) = cp0.entry_lo0.pfn
        /\ Align(cp0.entry_lo1.pfn, 0) = cp0.entry_lo1.pfn
    BY <2>8, AlignByOne
  <2>10. tlb'[i] = [mask |-> 0, vpn |-> Align(cp0.entry_hi.vpn, 0),
                    asid |-> cp0.entry_hi.asid,
                    g |-> cp0.entry_lo0.g /\ cp0.entry_lo1.g,
                    p0 |-> phyn(cp0.entry_lo0), p1 |-> phyn(cp0.entry_lo1)]
    BY Zenon, <2>1 DEF tlb_write, CoreType
  <2>11. /\ tlb'[i].mask = 0 /\ tlb'[i].vpn = m.page \div 2 /\ tlb'[i].asid = m.asid
         /\ tlb'[i].p0 = phyn(cp0.entry_lo0) /\ tlb'[i].p1 = phyn(cp0.entry_lo1)
    <3> HIDE DEF phyn
    <3> QED BY <2>3, <2>9, <2>10
  <2>12. /\ tlb'[i].p0 = [pfn |-> cp0.entry_lo0.pfn, v |-> cp0.entry_lo0.v, d |-> cp0.entry_lo0.d]
         /\ tlb'[i].p1 = [pfn |-> cp0.entry_lo1.pfn, v |-> cp0.entry_lo1.v, d |-> cp0.entry_lo1.d]
    BY Zenon, <2>9, <2>11
  <2>13. f.lo = IF m.page % 2 = 1 THEN cp0.entry_lo1 ELSE cp0.entry_lo0
    BY <2>2
  <2>14. Holds(tlb'[i], f)
    <3>1. CASE m.page % 2 = 1
      BY Zenon, <2>6, <2>11, <2>12, <2>13, <3>1 DEF Holds
    <3>2. CASE m.page % 2 # 1
      BY Zenon, <2>6, <2>11, <2>12, <2>13, <3>2 DEF Holds
    <3> QED BY <3>1, <3>2
  <2> QED BY <2>5, <2>7, <2>11, <2>14
<1>3. FillInv'
  BY Zenon, <1>2 DEF FillInv
<1> QED BY <1>1, <1>3 DEF RInv

\* A walk misses, faults otherwise, or leaves the history of refills alone.
LEMMA RefillWalk ==
  ASSUME CoreType, RInv, NEW p \in Pages, NEW store \in BOOLEAN, Walk(p, store)
  PROVE  RInv'
<1> DEFINE t == prot_addr(p, store)
<1>1. CASE tlb_exception(p, t.asid) /\ Missed(p, t.fault) /\ t.fault = "REFILL"
  <2> DEFINE m == [page |-> p, asid |-> cp0.entry_hi.asid]
  <2>1. UNCHANGED <<tlb, filled>> /\ missed' = {m}
    BY <1>1 DEF tlb_exception, Missed
  <2>2. t.asid = cp0.entry_hi.asid /\ Hits(p \div 2) = {} /\ ~MaskRefused(p \div 2)
    BY <1>1, RefillMeansMiss
  <2>3. cp0'.entry_hi = [vpn |-> p \div 2, asid |-> cp0.entry_hi.asid]
    <3>1. cp0' = [cp0 EXCEPT !.entry_hi = [vpn |-> p \div 2, asid |-> cp0.entry_hi.asid]]
      BY Zenon, <1>1, <2>2 DEF tlb_exception
    <3> QED BY <3>1 DEF CoreType
  <2>4. m \in MissType
    BY MmuAssumption DEF MissType, CoreType, EntryHi
  <2>5. \A i \in Index : tlb[i].mask = 0 /\ ~Answers(tlb[i], m)
    BY <2>2, MissSeesAll
  <2>6. m.page = p /\ m.asid = cp0.entry_hi.asid
    OBVIOUS
  <2> HIDE DEF m
  <2>7. MissInv'
    BY Zenon, <2>1, <2>3, <2>4, <2>5, <2>6 DEF MissInv
  <2>8. FillInv'
    BY Zenon, <2>1 DEF RInv, FillInv
  <2> QED BY <2>7, <2>8 DEF RInv
<1>2. CASE tlb_exception(p, t.asid) /\ Missed(p, t.fault) /\ t.fault # "REFILL"
  BY Zenon, <1>2, RefillFrame DEF tlb_exception, Missed
<1>3. CASE CpuAbort
  BY <1>3, RefillFrame DEF CpuAbort, refill
<1>4. CASE UNCHANGED <<tlb, cp0, running, staleAsid, refill>>
  BY <1>4, RefillFrame DEF refill
<1> QED BY <1>1, <1>2, <1>3, <1>4 DEF Walk

LEMMA RefillStep ==
  ASSUME CoreType, RInv, [Next]_vars
  PROVE  RInv'
<1>1. CASE UNCHANGED vars
  BY <1>1, RefillFrame DEF vars, refill
<1>2. ASSUME NEW p \in Pages, vaddr_read(p) \/ vaddr_write(p) PROVE RInv'
  <2>1. (\E store \in BOOLEAN : Walk(p, store)) \/ UNCHANGED vars
    BY Zenon, <1>2 DEF vaddr_read, vaddr_write
  <2> QED BY Zenon, <1>1, <2>1, RefillWalk
<1>3. CASE tlb_present
  <2>1. CASE CpuAbort
    BY <2>1, RefillFrame DEF CpuAbort, refill
  <2>2. CASE ~CpuAbort
    <3>1. UNCHANGED <<tlb, refill>> /\ cp0'.entry_hi = cp0.entry_hi
      BY <1>3, <2>2 DEF tlb_present, CoreType
    <3> QED BY <3>1, RefillFrame DEF refill
  <2> QED BY <2>1, <2>2
<1>4. CASE tlb_read
  BY <1>4, RefillFrame DEF tlb_read, Forget
<1>5. CASE tlbwi
  <2>1. cp0.idx \in Index
    BY DEF CoreType
  <2> QED BY <1>5, <2>1, RefillWrite DEF tlbwi
<1>6. CASE tlbwr
  <2>1. PICK i \in Index : tlb_write(i) /\ Fill
    BY <1>6 DEF tlbwr
  <2> QED BY <2>1, RefillWrite
<1>7. ASSUME NEW w \in EntryHis, mtc0_entry_hi(w) PROVE RInv'
  BY <1>7, RefillFrame DEF mtc0_entry_hi, Forget
<1>8. ASSUME NEW w, mtc0_entry_lo0(w) \/ mtc0_entry_lo1(w) \/ mtc0_pagemask(w)
             \/ mtc0_index(w) \/ mtc0_status(w)
      PROVE  RInv'
  <2>1. UNCHANGED <<tlb, refill>> /\ cp0'.entry_hi = cp0.entry_hi
    BY <1>8 DEF mtc0_entry_lo0, mtc0_entry_lo1, mtc0_pagemask, mtc0_index, mtc0_status,
                CoreType
  <2> QED BY <2>1, RefillFrame DEF refill
<1>9. CASE eret \/ raise_exception
  <2>1. UNCHANGED <<tlb, refill>> /\ cp0'.entry_hi = cp0.entry_hi
    BY <1>9 DEF eret, raise_exception, CoreType
  <2> QED BY <2>1, RefillFrame DEF refill
<1> QED BY <1>1, <1>2, <1>3, <1>4, <1>5, <1>6, <1>7, <1>8, <1>9 DEF Next

\* The one entry that answers is the one page_translate returns.
LEMMA FilledAnswered ==
  ASSUME CoreType, RInv
  PROVE  RefillAnswered
<1> SUFFICES ASSUME NEW f \in filled, f.asid = cp0.entry_hi.asid
             PROVE  LET t == page_translate(f.page, FALSE)
                    IN /\ ~MaskRefused(f.page \div 2)
                       /\ IF f.lo.v THEN t.fault = "NONE" /\ t.page = ioremap(f.lo.pfn)
                          ELSE t.fault = "INVALID"
  BY Zenon DEF RefillAnswered
<1> DEFINE vpn == f.page \div 2
           t == page_translate(f.page, FALSE)
<1>1. f \in FillType
  BY DEF RInv, FillInv
<1>2. PICK i \in Index :
        /\ Holds(tlb[i], f)
        /\ \A j \in Index : tlb[j].mask = 0 /\ (j # i => ~Answers(tlb[j], f))
  BY Zenon DEF RInv, FillInv
<1>3. f.page \in Nat /\ vpn \in Nat /\ f.lo.pfn \in Nat
  BY <1>1, MmuAssumption DEF FillType, VPage, EntryLo
<1>4. ASSUME NEW j \in Index PROVE Matches(tlb[j], vpn) <=> j = i
  <2>1. tlb[j].mask = 0 /\ tlb[j].vpn \in Nat
    BY <1>2 DEF CoreType, TlbEntry, Vpn
  <2>2. Align(tlb[j].vpn, 0) = tlb[j].vpn /\ Align(vpn, 0) = vpn
    BY <1>3, <2>1, AlignByOne
  <2>3. Matches(tlb[j], vpn) <=> Answers(tlb[j], f)
    BY Zenon, <2>1, <2>2 DEF Matches, Answers
  <2>4. Answers(tlb[i], f)
    BY Zenon, <1>2 DEF Holds, Answers
  <2> QED BY Zenon, <1>2, <2>3, <2>4
<1>5. i \in Hits(vpn)
  BY <1>4 DEF Hits, Scanned, Index
<1>6. Hits(vpn) = {i}
  BY <1>4, <1>5 DEF Hits, Scanned
<1>7. ~MaskRefused(vpn)
  BY <1>2 DEF MaskRefused, Scanned
<1> DEFINE e == tlb[CHOOSE j \in Hits(vpn) : TRUE]
           phyn == IF (f.page \div (e.mask + 1)) % 2 = 1 THEN e.p1 ELSE e.p0
           page == Align(phyn.pfn, e.mask) + (f.page % (e.mask + 1))
<1>8. t = CASE ~phyn.v -> [fault |-> "INVALID", asid |-> e.asid]
            [] phyn.v /\ ~phyn.d /\ FALSE -> [fault |-> "MODIFIED", asid |-> e.asid]
            [] OTHER -> [fault |-> "NONE", page |-> ioremap(page), dirty |-> phyn.d]
  BY Zenon, <1>5 DEF page_translate
<1>9. e = tlb[i]
  BY Zenon, <1>6
<1>10. e.mask = 0
  BY Zenon, <1>2, <1>9
<1>11. f.page \div (e.mask + 1) = f.page /\ f.page % (e.mask + 1) = 0
  <2> HIDE DEF e
  <2> QED BY <1>3, <1>10
<1>12. phyn = [pfn |-> f.lo.pfn, v |-> f.lo.v, d |-> f.lo.d]
  <2> HIDE DEF e
  <2> QED BY Zenon, <1>2, <1>9, <1>11 DEF Holds
<1>13. phyn.pfn = f.lo.pfn /\ phyn.v = f.lo.v
  <2> HIDE DEF phyn
  <2> QED BY <1>12
<1>14. page = f.lo.pfn
  <2> HIDE DEF phyn, e
  <2> QED BY <1>3, <1>10, <1>11, <1>13, AlignByOne
<1>15. IF f.lo.v THEN t.fault = "NONE" /\ t.page = ioremap(f.lo.pfn)
       ELSE t.fault = "INVALID"
  <2> HIDE DEF t, phyn, page, e
  <2>1. CASE f.lo.v
    <3>1. t = [fault |-> "NONE", page |-> ioremap(page), dirty |-> phyn.d]
      BY Zenon, <1>8, <1>13, <2>1
    <3> QED BY <1>14, <2>1, <3>1
  <2>2. CASE ~f.lo.v
    <3>1. t = [fault |-> "INVALID", asid |-> e.asid]
      BY Zenon, <1>8, <1>13, <2>2
    <3> QED BY <2>2, <3>1
  <2> QED BY <2>1, <2>2
<1> QED BY Zenon, <1>7, <1>15

LEMMA RefillInit == Init => RInv
BY Zenon DEF Init, RInv, MissInv, FillInv

\* The three parts of the inductive invariant and what they say of the types.
LEMMA MmuAlways == Spec => [](CoreType /\ IInv /\ RInv)
<1>1. CoreType /\ IInv /\ RInv /\ [Next]_vars => (CoreType /\ IInv /\ RInv)'
  BY MmuStep, RefillStep
<1> QED BY <1>1, MmuInit, RefillInit, PTL DEF Spec

-----------------------------------------------------------------------------
(* Theorems *)

\* The TLB, the registers and the cache of translations keep their types: an
\* index always names an entry, also after tlbwr on the noop machine has counted
\* through all of them.
THEOREM MmuTypeCorrect == Spec => []TypeOK
<1>1. CoreType /\ RInv => TypeOK
  BY DEF CoreType, RInv, MissInv, FillInv, MissType, FillType, TypeOK
<1> QED BY <1>1, MmuAlways, PTL

\* Every step that changes what an address translates to clears the cache of
\* translations (clear_mmu_cache in tlb_exception, tlbwi, tlbwr, mtc0 and eret),
\* the only exception being a tlbr that brings in another ASID.
THEOREM CacheCorrect == Spec => []CacheCoherent
<1>1. IInv => CacheCoherent
  BY DEF IInv
<1> QED BY <1>1, MmuAlways, PTL

\* An access that raised a refill exception finds, tried again in its address
\* space, the page the handler wrote for it (tlb_exception, tlb_write and
\* page_translate), for every TLB, every choice of tlbwr and whatever came between.
THEOREM RefillCorrect == Spec => []RefillAnswered
<1>1. CoreType /\ RInv => RefillAnswered
  BY FilledAnswered
<1> QED BY <1>1, MmuAlways, PTL

-----------------------------------------------------------------------------
(* Action properties *)

LEMMA TypeAlways == Spec => []CoreType
BY MmuAlways, PTL

\* What a walk that faults leaves in EntryHi: the ASID that was there, or that
\* of the entry it found, which then is the current one or global.
LEMMA FaultAsid ==
  ASSUME CoreType, NEW p, NEW store,
         prot_addr(p, store).fault \in {"REFILL", "INVALID", "MODIFIED"}
  PROVE  \/ prot_addr(p, store).asid = cp0.entry_hi.asid
         \/ \E i \in Hits(p \div 2) : tlb[i].g /\ tlb[i].asid = prot_addr(p, store).asid
<1>1. prot_addr(p, store) = page_translate(p, store)
  BY Zenon DEF prot_addr
<1>2. CASE Hits(p \div 2) = {}
  <2>1. page_translate(p, store) = [fault |-> "REFILL", asid |-> cp0.entry_hi.asid]
    BY Zenon, <1>2 DEF page_translate
  <2> QED BY <1>1, <2>1
<1>3. CASE Hits(p \div 2) # {}
  <2> DEFINE i == CHOOSE j \in Hits(p \div 2) : TRUE
             t == page_translate(p, store)
             e == tlb[i]
             phyn == IF (p \div (e.mask + 1)) % 2 = 1 THEN e.p1 ELSE e.p0
             page == Align(phyn.pfn, e.mask) + (p % (e.mask + 1))
  <2>1. i \in Hits(p \div 2)
    BY <1>3
  <2>2. e.g \/ e.asid = cp0.entry_hi.asid
    BY Zenon, <2>1 DEF Hits, Matches
  <2>3. t = CASE ~phyn.v -> [fault |-> "INVALID", asid |-> e.asid]
              [] phyn.v /\ ~phyn.d /\ store -> [fault |-> "MODIFIED", asid |-> e.asid]
              [] OTHER -> [fault |-> "NONE", page |-> ioremap(page), dirty |-> phyn.d]
    BY <1>3, Zenon DEF page_translate
  <2>4. t.fault # "NONE"
    BY <1>1
  <2>5. t.asid = e.asid
    <3> HIDE DEF t, e, phyn, page
    <3> QED BY <2>3, <2>4
  <2> QED BY Zenon, <1>1, <2>1, <2>2, <2>5
<1> QED BY <1>2, <1>3

\* A load or store changes the current ASID only through a global entry that
\* belongs to another address space (tlb_exception).
THEOREM AsidCorrect == Spec => AsidKept
<1> DEFINE Kept(p) ==
      \/ cp0'.entry_hi.asid = cp0.entry_hi.asid
      \/ \E i \in Hits(p \div 2) : tlb[i].g /\ tlb[i].asid = cp0'.entry_hi.asid
<1>1. ASSUME CoreType, NEW p \in Pages, NEW store \in BOOLEAN, Walk(p, store)
      PROVE  Kept(p)
  <2> DEFINE t == prot_addr(p, store)
  <2>1. CASE t.fault \in {"REFILL", "INVALID", "MODIFIED"} /\ tlb_exception(p, t.asid)
    <3>1. cp0' = [cp0 EXCEPT !.entry_hi = [vpn |-> p \div 2, asid |-> t.asid]]
      BY <2>1 DEF tlb_exception
    <3>2. cp0'.entry_hi.asid = t.asid
      <4> HIDE DEF t
      <4> QED BY <1>1, <3>1 DEF CoreType
    <3> QED BY <1>1, <2>1, <3>2, FaultAsid
  <2>2. CASE UNCHANGED cp0
    BY <2>2
  <2> QED BY <1>1, <2>1, <2>2 DEF Walk, CpuAbort
<1>2. ASSUME CoreType, NEW p \in Pages, vaddr_read(p) \/ vaddr_write(p)
      PROVE  Kept(p)
  BY Zenon, <1>1, <1>2 DEF vaddr_read, vaddr_write, vars
<1>3. CoreType /\ [Next]_vars =>
        [cp0'.entry_hi.asid # cp0.entry_hi.asid =>
           \A p \in Pages : vaddr_read(p) \/ vaddr_write(p) =>
             \E i \in Hits(p \div 2) : tlb[i].g /\ tlb[i].asid = cp0'.entry_hi.asid]_vars
  BY <1>2
<1> QED BY <1>3, TypeAlways, PTL DEF Spec, AsidKept
=============================================================================
