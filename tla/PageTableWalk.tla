--------------------------- MODULE PageTableWalk ---------------------------
(***************************************************************************)
(* The page table walk of MMUEmulator (walk_page_tables, walk_level and    *)
(* the descriptor they decode), as operators on 64-bit words (module       *)
(* Words); nothing is scaled down.                                         *)
(*                                                                         *)
(* The descriptor read of walk_level is a stub (`desc.value = 0`) waiting  *)
(* for a memory callback.  With Stub = TRUE the module is the code as it   *)
(* is; with Stub = FALSE the read returns what guest memory holds at       *)
(* table_base + index * 8, as the comment above the stub prescribes, and   *)
(* nothing else changes.                                                   *)
(***************************************************************************)
EXTENDS Words

CONSTANTS
    Slots,        \* where descriptors live: <<table address, index>>
    Descriptors,  \* 64-bit values the guest stores in them
    Stub          \* TRUE: the descriptor read is the stub of the code

ASSUME MemoryAssumption ==
    /\ Slots \subseteq Word(64) \X Word(9)
    /\ Descriptors \subseteq Word(64)
    /\ Stub \in BOOLEAN

Memories == [Slots -> Descriptors]

-----------------------------------------------------------------------------
(* Addresses and address spaces *)

AllAsids == 0 .. 15          \* 0xFFFF: every address space

Page(va) == ClearLow(va, 12)

HighHalf(va) == 48 .. 63 \subseteq va

LowHalf(va) == va \cap (48 .. 63) = {}

-----------------------------------------------------------------------------
(* Descriptors.  The bit-fields of PageTableDescriptor add up to 65 bits,  *)
(* so each field after `ap` sits one bit above the position its comment    *)
(* names.                                                                  *)

IsValid(d) == 0 \in d

IsTable(d) == 1 \in d

GetOutputAddress(d) == ShiftLeft(Field(d, 13, 36), 12, 64)

\* The 3-bit attribute index never reaches the case 0x44 (NORMAL_WB).
DecodeMemoryType(d) ==
    LET attr == Number(Field(d, 9, 3))
    IN  CASE attr = 0 -> "DEVICE_nGnRnE"
          [] attr = 1 -> "DEVICE_nGnRE"
          [] attr = 4 -> "NORMAL_NC"
          [] OTHER    -> "NORMAL"

\* AccessPermission gives EL0_x and EL1_x the same number: 0 none, 1 RO, 2 RW.
DecodePermissions(d) ==
    LET ap == Number(Field(d, 5, 3))
    IN  CASE ap \in {1, 5} -> 1
          [] ap = 4        -> 0
          [] OTHER         -> 2

Permissions == 0 .. 2

MemoryTypes == {"DEVICE_nGnRnE", "DEVICE_nGnRE", "NORMAL_NC", "NORMAL"}

-----------------------------------------------------------------------------
(* The walk.  An operator of this section returns the SET of the outcomes  *)
(* the code may produce: it has one element except where the behaviour is  *)
(* undefined.                                                              *)

Fault == [kind |-> "fault"]

\* The walk recurses without end, or ends the process.
Diverges == [kind |-> "diverges"]

\* Seeded fault: the block sizes are those of the level above.
SizeOfLevelAbove == <<39, 30, 21, 12>>

\* Sizes are kept as their logarithms: 12 is 4KB, 21 is 2MB, 30 is 1GB.
BlockSize == <<30, 21, 21, 12>>

Sizes == {12, 21, 30}

Region(d, size) ==
    [kind |-> "mapped", base |-> ClearLow(GetOutputAddress(d), size),
     size |-> size, type |-> DecodeMemoryType(d), ap |-> DecodePermissions(d),
     shareable |-> Field(d, 2, 2) # {}]

Regions == [kind : {"mapped"}, base : Word(64), size : Sizes,
            type : MemoryTypes, ap : Permissions, shareable : BOOLEAN]

ReadDescriptor(m, table, index) ==
    IF Stub \/ <<table, index>> \notin Slots THEN {} ELSE m[<<table, index>>]

DescriptorAt(m, table, va, level) ==
    ReadDescriptor(m, table, Field(va, 39 - 9 * level, 9))

\* Seeded fault: the valid bit is not tested.
VisitUnchecked(d, level, deeper) ==
    IF IsTable(d) THEN deeper
    ELSE IF level < 4 THEN {Region(d, BlockSize[level + 1])}
    ELSE {Fault}

\* One level of walk_level; `deeper` is what the next level returns.
Visit(d, level, deeper) ==
    IF ~ IsValid(d) THEN {Fault}
    ELSE IF IsTable(d) THEN deeper
    ELSE IF level < 4 THEN {Region(d, BlockSize[level + 1])}
    ELSE {Fault}

\* From level 5 on the shift count is negative: the index is undefined, and
\* the walk faults at some level or goes on for ever.
WalkBeyond == {Fault, Diverges}

WalkLevel4(m, table, va) ==
    Visit(DescriptorAt(m, table, va, 4), 4, WalkBeyond)

WalkLevel3(m, table, va) ==
    LET d == DescriptorAt(m, table, va, 3)
    IN  Visit(d, 3, WalkLevel4(m, GetOutputAddress(d), va))

WalkLevel2(m, table, va) ==
    LET d == DescriptorAt(m, table, va, 2)
    IN  Visit(d, 2, WalkLevel3(m, GetOutputAddress(d), va))

WalkLevel1(m, table, va) ==
    LET d == DescriptorAt(m, table, va, 1)
    IN  Visit(d, 1, WalkLevel2(m, GetOutputAddress(d), va))

WalkLevel0(m, table, va) ==
    LET d == DescriptorAt(m, table, va, 0)
    IN  Visit(d, 0, WalkLevel1(m, GetOutputAddress(d), va))

T0SZ(tcr) == Number(Field(tcr, 0, 6))

T1SZ(tcr) == Number(Field(tcr, 16, 6))

\* 1ULL << (64 - size); a shift by 64 is undefined and gives 0 or 1.
Limit(size) == IF size = 0 THEN {{}, {0}} ELSE {{64 - size}}

VaInTtbr0(va, tcr) == {Less(va, limit) : limit \in Limit(T0SZ(tcr))}

VaInTtbr1(va, tcr) == {~ Less(va, start) : start \in Limit(T1SZ(tcr))}

TableBase(ttbr) == ClearLow(ttbr, 16)

WalkPageTables(ttbr0, ttbr1, tcr, m, va) ==
    UNION {IF in0 THEN WalkLevel0(m, TableBase(ttbr0), va)
           ELSE UNION {IF in1 THEN WalkLevel0(m, TableBase(ttbr1), va)
                       ELSE {Fault} : in1 \in VaInTtbr1(va, tcr)}
             : in0 \in VaInTtbr0(va, tcr)}
=============================================================================
