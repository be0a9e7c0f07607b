------------------------------- MODULE MCMmu -------------------------------
(* Small instances of Mmu: two TLB entries, segments of four pages, two      *)
(* address spaces.                                                           *)
EXTENDS Mmu

\* Two address spaces that map the same page pair.
MCEntryHisShared == {[vpn |-> 0, asid |-> 0], [vpn |-> 0, asid |-> 1]}

\* Two address spaces, two page pairs.
MCEntryHisApart == {[vpn |-> 0, asid |-> 0], [vpn |-> 1, asid |-> 1]}

\* A private page that may not be written and a global one that may.
MCEntryLo0s == {[pfn |-> 1, v |-> TRUE, d |-> FALSE, g |-> FALSE],
                [pfn |-> 4, v |-> TRUE, d |-> TRUE, g |-> TRUE]}

\* A global page that may not be written.
MCEntryLo0sReadOnly == {[pfn |-> 4, v |-> TRUE, d |-> FALSE, g |-> TRUE]}

\* A device page.
MCEntryLo1sDevice == {[pfn |-> 2, v |-> TRUE, d |-> TRUE, g |-> TRUE]}

\* A page that is not present.
MCEntryLo1sInvalid == {[pfn |-> 0, v |-> FALSE, d |-> FALSE, g |-> TRUE]}
=============================================================================
