--------------------------- MODULE MCMMUEmulator ---------------------------
(***************************************************************************)
(* Instances of MMUEmulator for TLC.  There are two tables: the root, and  *)
(* one that may point to itself, so that its two slots serve levels 1 to 4 *)
(* and a walk that never ends is reachable.                                *)
(***************************************************************************)
EXTENDS MMUEmulator

Root == {}         \* address 0, where TTBR0 and TTBR1 point at reset
Lower == {20}      \* 0x100000, a table Root and the TTBRs may point to

\* A descriptor with output address pa
Pointing(attributes, pa) == attributes \cup {b + 1 : b \in pa}

ToLower == Pointing({0, 1}, Lower)        \* valid table descriptor
Block == Pointing({0, 3, 6}, {12, 30})    \* valid, shareable, ap = 2

MCSlots == {<<Root, {}>>, <<Lower, {}>>, <<Lower, {0}>>}
MCDescriptors == {{}, ToLower, Block}

MCTTBR == {Root, Lower}
MCTCR == {{4, 20}}                        \* T0SZ = T1SZ = 16

\* Two pages of one address space and one of the kernel: a page at level 3,
\* one inside a 2MB block at level 2, and one that may run past level 3.
High == 48 .. 63
PagesVA == {{3, 12}, {4, 21}, High}
PagesASID == {{0}}
PagesStores == {<<<<Root, {}>>, ToLower>>, <<<<Root, {}>>, Block>>,
                <<<<Lower, {}>>, ToLower>>,
                <<<<Lower, {0}>>, Block>>, <<<<Lower, {0}>>, {}>>}

\* One page of two address spaces, and one of the kernel.
SpacesVA == {{3, 12}, High \cup {12}}
SpacesASID == {{0}, {1}}
SpacesStores == {<<<<Root, {}>>, ToLower>>, <<<<Root, {}>>, Block>>,
                 <<<<Root, {}>>, {}>>}

\* A TTBR value with an ASID in bits 48-63
TaggedTTBR == {Root, Root \cup {48}}
=============================================================================
