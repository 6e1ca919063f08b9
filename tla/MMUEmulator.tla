---------------------------- MODULE MMUEmulator ----------------------------
(***************************************************************************)
(* MMUEmulator (MMUEmulator.hpp, MMUEmulator.cpp): the TLB, the            *)
(* translation registers and the statistics, over the walk of module       *)
(* PageTableWalk.  Guest memory is external: the guest stores descriptors  *)
(* at any time, and owes the emulator an invalidation afterwards.          *)
(***************************************************************************)
EXTENDS PageTableWalk, FiniteSets

CONSTANTS
    VA,        \* virtual addresses passed to the emulator, 64-bit words
    ASID,      \* address space identifiers in use, 16-bit words
    TTBR,      \* values written to TTBR0 and TTBR1
    TCR,       \* values written to TCR
    Stores,    \* the stores of the guest to its tables: <<slot, descriptor>>
    TLB_SIZE,  \* capacity of the TLB
    MaxCalls,  \* bound: translations between two reset_stats
    MaxSeen    \* bound: memory contents remembered in `seen`

ASSUME AddressAssumption == VA \subseteq Word(64) /\ ASID \subseteq Word(16)

ASSUME RegisterAssumption == TTBR \subseteq Word(64) /\ TCR \subseteq Word(64)

ASSUME StoreAssumption ==
    /\ Stores \subseteq Slots \X Descriptors
    /\ {} \in Descriptors

ASSUME SizeAssumption == TLB_SIZE \in Nat \ {0}

ASSUME BoundAssumption == MaxCalls \in Nat /\ MaxSeen \in Nat

VARIABLES
    ttbr0_, ttbr1_, tcr_,  \* the translation registers
    tlb_,                  \* the TLB: a map from keys to entries
    stats_,                \* Stats
    memory,                \* external: the page tables in guest memory
    reply,                 \* what the last call returned, if a translation
    running,               \* FALSE once a walk never returned
    seen                   \* history: for a page and an ASID, the contents
                           \* of memory since its last invalidation

registers == <<ttbr0_, ttbr1_, tcr_>>

vars == <<registers, tlb_, stats_, memory, reply, running, seen>>

Pages == {Page(va) : va \in VA}

\* Every outcome of a walk of the tables in m with the registers as they are
Walk(m, va) == WalkPageTables(ttbr0_, ttbr1_, tcr_, m, va)

Entries == [virtual_address : Word(64), physical_address : Word(64),
            size : Sizes, type : MemoryTypes, ap : Permissions,
            asid : Word(16), valid : BOOLEAN]

Counters == {"tlb_hits", "tlb_misses", "page_walks", "translation_faults"}

Stats == [Counters -> Nat]

NoStats == [counter \in Counters |-> 0]

NoReply == [kind |-> "none"]

Replies ==
    {NoReply}
      \cup [kind : {"fault"}, va : VA, asid : ASID]
      \cup [kind : {"mapped"}, va : VA, asid : ASID, hit : BOOLEAN,
            pa : Word(64), region : Regions]

Init ==
    /\ ttbr0_ = {} /\ ttbr1_ = {} /\ tcr_ = {}
    /\ tlb_ = [key \in {} |-> {}]
    /\ stats_ = NoStats
    /\ memory = [slot \in Slots |-> {}]
    /\ reply = NoReply
    /\ running = TRUE
    /\ seen = [p \in Pages \X ASID |-> {memory}]

-----------------------------------------------------------------------------
(* The TLB *)

\* Seeded fault: the key of an entry leaves out the ASID.
KeyWithoutAsid(va, asid) == ClearLow(va, 12)

\* (va & ~0xFFF) | (asid << 48): the ASID lands on bits 48-63 of the address.
TlbKey(va, asid) == ClearLow(va, 12) \cup {b + 48 : b \in asid}

Hit(va, asid) ==
    TlbKey(va, asid) \in DOMAIN tlb_ /\ tlb_[TlbKey(va, asid)].valid

Without(tlb, keys) == [key \in DOMAIN tlb \ keys |-> tlb[key]]

With(tlb, key, entry) ==
    [k \in DOMAIN tlb \cup {key} |-> IF k = key THEN entry ELSE tlb[k]]

\* Seeded fault: the TLB is full only beyond TLB_SIZE.
EvictedTooLate(tlb) ==
    IF Cardinality(DOMAIN tlb) > TLB_SIZE
    THEN {Without(tlb, {key}) : key \in DOMAIN tlb}
    ELSE {tlb}

\* erase(begin()): the order of the hash map is unspecified, so any entry
Evicted(tlb) ==
    IF Cardinality(DOMAIN tlb) >= TLB_SIZE
    THEN {Without(tlb, {key}) : key \in DOMAIN tlb}
    ELSE {tlb}

NewEntry(va, asid, region) ==
    [virtual_address |-> ClearLow(va, region.size),
     physical_address |-> ClearLow(region.base, region.size),
     size |-> region.size, type |-> region.type, ap |-> region.ap,
     asid |-> asid, valid |-> TRUE]

\* What a hit puts in the caller's fresh region: `shareable` is not cached.
CachedRegion(entry) ==
    [kind |-> "mapped", base |-> entry.physical_address, size |-> entry.size,
     type |-> entry.type, ap |-> entry.ap, shareable |-> FALSE]

Mapped(va, asid, hit, region) ==
    [kind |-> "mapped", va |-> va, asid |-> asid, hit |-> hit,
     pa |-> region.base \cup LowBits(va, region.size), region |-> region]

-----------------------------------------------------------------------------
(* translate and translate_with_attributes *)

Count(counters) ==
    stats_' = [counter \in Counters |->
                 stats_[counter] + IF counter \in counters THEN 1 ELSE 0]

CanCall == running /\ stats_.tlb_hits + stats_.tlb_misses < MaxCalls

\* Seeded fault: the miss is counted before the lookup is known to fail.
HitCountedAsMiss(va, asid) ==
    /\ CanCall
    /\ Hit(va, asid)
    /\ Count({"tlb_hits", "tlb_misses"})
    /\ reply' = Mapped(va, asid, TRUE, CachedRegion(tlb_[TlbKey(va, asid)]))
    /\ UNCHANGED <<registers, tlb_, memory, running, seen>>

TranslateHit(va, asid) ==
    /\ CanCall
    /\ Hit(va, asid)
    /\ Count({"tlb_hits"})
    /\ reply' = Mapped(va, asid, TRUE, CachedRegion(tlb_[TlbKey(va, asid)]))
    /\ UNCHANGED <<registers, tlb_, memory, running, seen>>

\* Seeded fault: the entry is inserted before the victim is chosen.
MissEvictsLast(va, asid) ==
    /\ CanCall
    /\ ~ Hit(va, asid)
    /\ Count({"tlb_misses", "page_walks"})
    /\ \E region \in Walk(memory, va) \ {Fault, Diverges} :
         LET filled == With(tlb_, TlbKey(va, asid), NewEntry(va, asid, region))
         IN  /\ tlb_' \in IF Cardinality(DOMAIN tlb_) >= TLB_SIZE
                           THEN Evicted(filled) ELSE {filled}
             /\ reply' = Mapped(va, asid, FALSE, region)
    /\ UNCHANGED <<registers, memory, running, seen>>

TranslateMiss(va, asid) ==
    /\ CanCall
    /\ ~ Hit(va, asid)
    /\ Count({"tlb_misses", "page_walks"})
    /\ \E region \in Walk(memory, va) \ {Fault, Diverges}, tlb \in Evicted(tlb_) :
         /\ tlb_' = With(tlb, TlbKey(va, asid), NewEntry(va, asid, region))
         /\ reply' = Mapped(va, asid, FALSE, region)
    /\ UNCHANGED <<registers, memory, running, seen>>

TranslateFault(va, asid) ==
    /\ CanCall
    /\ ~ Hit(va, asid)
    /\ Fault \in Walk(memory, va)
    /\ Count({"tlb_misses", "page_walks", "translation_faults"})
    /\ reply' = [kind |-> "fault", va |-> va, asid |-> asid]
    /\ UNCHANGED <<registers, tlb_, memory, running, seen>>

\* The call never returns, and nothing runs after it.
TranslateDiverges(va, asid) ==
    /\ CanCall
    /\ ~ Hit(va, asid)
    /\ Diverges \in Walk(memory, va)
    /\ Count({"tlb_misses", "page_walks"})
    /\ reply' = NoReply
    /\ running' = FALSE
    /\ UNCHANGED <<registers, tlb_, memory, seen>>

-----------------------------------------------------------------------------
(* Invalidation.  `seen` forgets what each call promises to forget: the    *)
(* covered sets are those of TranslationService.                           *)

CoveredByVa(va, asid) ==
    {Page(va)} \X (IF HighHalf(va) THEN ASID ELSE {asid})

CoveredByAsid(asid) ==
    IF asid = AllAsids THEN Pages \X ASID
    ELSE {p \in Pages : LowHalf(p)} \X {asid}

Forget(covered) ==
    seen' = [p \in Pages \X ASID |->
               IF p \in covered THEN {memory} ELSE seen[p]]

\* Seeded fault: the call uses the default ASID and not the caller's.
InvalidateVaOfDefaultAsid(va, asid) ==
    /\ running
    /\ reply' = NoReply
    /\ tlb_' = Without(tlb_, {TlbKey(va, {})})
    /\ Forget(CoveredByVa(va, asid))
    /\ UNCHANGED <<registers, stats_, memory, running>>

TlbInvalidateVa(va, asid) ==
    /\ running
    /\ reply' = NoReply
    /\ tlb_' = Without(tlb_, {TlbKey(va, asid)})
    /\ Forget(CoveredByVa(va, asid))
    /\ UNCHANGED <<registers, stats_, memory, running>>

\* Seeded fault: 0xFFFF is compared like any other ASID.
InvalidateAsidWithoutWildcard(asid) ==
    /\ running
    /\ reply' = NoReply
    /\ tlb_' = Without(tlb_, {key \in DOMAIN tlb_ :
                                tlb_[key].asid = asid /\ tlb_[key].valid})
    /\ Forget(CoveredByAsid(asid))
    /\ UNCHANGED <<registers, stats_, memory, running>>

TlbInvalidateAsid(asid) ==
    /\ running
    /\ reply' = NoReply
    /\ tlb_' = Without(tlb_, {key \in DOMAIN tlb_ :
                                /\ tlb_[key].asid = asid \/ asid = AllAsids
                                /\ tlb_[key].valid})
    /\ Forget(CoveredByAsid(asid))
    /\ UNCHANGED <<registers, stats_, memory, running>>

FlushTlb ==
    /\ tlb_' = [key \in {} |-> {}]
    /\ Forget(Pages \X ASID)

TlbInvalidateAll ==
    /\ running
    /\ reply' = NoReply
    /\ FlushTlb
    /\ UNCHANGED <<registers, stats_, memory, running>>

-----------------------------------------------------------------------------
(* The registers and the statistics *)

\* Seeded fault: the register write does not flush the TLB.
SetTtbr0WithoutFlush(value) ==
    /\ running
    /\ reply' = NoReply
    /\ ttbr0_' = value
    /\ tlb_' = tlb_
    /\ Forget(Pages \X ASID)
    /\ UNCHANGED <<ttbr1_, tcr_, stats_, memory, running>>

SetTtbr0(value) ==
    /\ running
    /\ reply' = NoReply
    /\ ttbr0_' = value
    /\ FlushTlb
    /\ UNCHANGED <<ttbr1_, tcr_, stats_, memory, running>>

SetTtbr1(value) ==
    /\ running
    /\ reply' = NoReply
    /\ ttbr1_' = value
    /\ FlushTlb
    /\ UNCHANGED <<ttbr0_, tcr_, stats_, memory, running>>

SetTcr(value) ==
    /\ running
    /\ reply' = NoReply
    /\ tcr_' = value
    /\ FlushTlb
    /\ UNCHANGED <<ttbr0_, ttbr1_, stats_, memory, running>>

ResetStats ==
    /\ running
    /\ reply' = NoReply
    /\ stats_' = NoStats
    /\ UNCHANGED <<registers, tlb_, memory, running, seen>>

\* External: the guest stores a descriptor.
GuestStore(slot, d) ==
    /\ running
    /\ reply' = NoReply
    /\ memory' = [memory EXCEPT ![slot] = d]
    /\ seen' = [p \in Pages \X ASID |-> seen[p] \cup {memory'}]
    /\ Cardinality(UNION {seen'[p] : p \in Pages \X ASID}) <= MaxSeen
    /\ UNCHANGED <<registers, tlb_, stats_, running>>

Next ==
    \/ \E va \in VA, asid \in ASID :
         \/ TranslateHit(va, asid)
         \/ TranslateMiss(va, asid)
         \/ TranslateFault(va, asid)
         \/ TranslateDiverges(va, asid)
         \/ TlbInvalidateVa(va, asid)
    \/ \E asid \in ASID \cup {AllAsids} : TlbInvalidateAsid(asid)
    \/ TlbInvalidateAll
    \/ \E value \in TTBR : SetTtbr0(value) \/ SetTtbr1(value)
    \/ \E value \in TCR : SetTcr(value)
    \/ ResetStats
    \/ \E store \in Stores : GuestStore(store[1], store[2])

Spec == Init /\ [][Next]_vars

-----------------------------------------------------------------------------
(* Properties *)

\* The type invariant.
TypeOK ==
    /\ ttbr0_ \in Word(64) /\ ttbr1_ \in Word(64) /\ tcr_ \in Word(64)
    /\ DOMAIN tlb_ \subseteq Word(64)
    /\ \A key \in DOMAIN tlb_ : tlb_[key] \in Entries
    /\ stats_ \in Stats
    /\ memory \in Memories
    /\ reply \in Replies
    /\ running \in BOOLEAN
    /\ seen \in [Pages \X ASID -> SUBSET Memories]

\* The inputs the TLB key can tell apart: canonical addresses, and no ASID
\* 0xFFFF, which tlb_invalidate_asid takes for "all".
WellFormedInputs ==
    /\ \A va \in VA : HighHalf(va) \/ LowHalf(va)
    /\ AllAsids \notin ASID

\* T0SZ and T1SZ such that both limits are page boundaries that exist.  At
\* reset TCR is 0, and they do not.
Supported(tcr) == T0SZ(tcr) \in 1 .. 52 /\ T1SZ(tcr) \in 1 .. 52

Configured == Supported(tcr_)

Agrees(entry, region) ==
    /\ region.kind = "mapped"
    /\ entry.physical_address = region.base
    /\ entry.size = region.size
    /\ entry.type = region.type
    /\ entry.ap = region.ap

\* A walk of some contents that memory had recently enough finds the entry.
Justified(va, asid, entry) ==
    \E m \in seen[<<Page(va), asid>>] : \E region \in Walk(m, va) :
        Agrees(entry, region)

\* What the TLB holds for an address is what a walk of that address, with
\* the registers as they are now, finds in some contents guest memory had
\* since the last invalidation that covers the address and the ASID.  So
\* no entry survives a register write or its own invalidation, and none
\* answers for another page or another address space's tables.
TlbCoherent ==
    WellFormedInputs /\ Configured =>
        \A va \in VA, asid \in ASID :
            TlbKey(va, asid) \in DOMAIN tlb_ =>
                Justified(va, asid, tlb_[TlbKey(va, asid)])

\* A low-half address only ever hits an entry its own address space filled
\* ("ASID-based TLB tagging", MMUEmulator.hpp:157).
AsidTagged ==
    WellFormedInputs =>
        \A va \in VA, asid \in ASID :
            LowHalf(va) /\ TlbKey(va, asid) \in DOMAIN tlb_ =>
                tlb_[TlbKey(va, asid)].asid = asid

\* The TLB never holds more than TLB_SIZE entries ("Max TLB entries").
TlbBounded == Cardinality(DOMAIN tlb_) <= TLB_SIZE

\* The counters agree across every path of a translation: each miss is one
\* walk and a walk faults at most once, also when a walk never returns.
StatsConsistent ==
    /\ stats_.page_walks = stats_.tlb_misses
    /\ stats_.translation_faults <= stats_.page_walks

\* A step that is a call to translate which returns
Translating == reply' # NoReply /\ stats_' # stats_

\* A translation that succeeds leaves its own entry in the TLB, and costs at
\* most one other entry, and that only when the TLB was full: the eviction
\* never takes the entry being inserted nor runs on a hit or a fault.
TlbRetention ==
    [][Translating =>
         LET lost == DOMAIN tlb_ \ DOMAIN tlb_'
         IN  /\ reply'.kind = "mapped" =>
                  TlbKey(reply'.va, reply'.asid) \in DOMAIN tlb_'
             /\ lost # {} => /\ Cardinality(lost) = 1
                             /\ Cardinality(DOMAIN tlb_) = TLB_SIZE
                             /\ reply'.kind = "mapped" /\ ~ reply'.hit]_vars

\* An invalidation takes the entries it names and no others.  By address:
\* the page's alone, in its address space or, for a kernel page, in all of
\* them; the other pages of the same 2MB or 1GB block stay.  By ASID: of the
\* low half, the pages of that space alone, or with 0xFFFF everything.
InvalidationReach ==
    [][WellFormedInputs =>
         \A va, other \in VA, asid, space \in ASID :
            TlbKey(other, space) \in DOMAIN tlb_ =>
              LET dropped == TlbKey(other, space) \notin DOMAIN tlb_'
              IN  /\ TlbInvalidateVa(va, asid) =>
                       (dropped <=> /\ Page(other) = Page(va)
                                    /\ HighHalf(va) \/ space = asid)
                  /\ TlbInvalidateAsid(asid) /\ LowHalf(other) =>
                       (dropped <=> space = asid)
                  /\ TlbInvalidateAsid(AllAsids) => dropped]_vars

\* TLBEntry::matches, which says which entries may answer for an address
\* and an ASID, and which nothing calls.
Matches(entry, va, asid) ==
    /\ entry.valid
    /\ entry.asid = asid \/ entry.asid = AllAsids
    /\ ClearLow(entry.virtual_address, entry.size) = ClearLow(va, entry.size)

\* Documented (MMUEmulator.hpp:88-94, 157): an entry answers only for the
\* address space that filled it.
HitsMatch ==
    \A va \in VA, asid \in ASID :
        TlbKey(va, asid) \in DOMAIN tlb_ =>
            Matches(tlb_[TlbKey(va, asid)], va, asid)

\* Documented (MMUEmulator.hpp:177): `region` receives the attributes of the
\* memory region, whichever way the translation was found.
RegionComplete ==
    reply.kind = "mapped" =>
        \E m \in UNION {seen[p] : p \in Pages \X ASID} :
            reply.region \in Walk(m, reply.va)

\* Documented (MMUEmulator.cpp:127): the ASID in the upper bits of a TTBR is
\* cleared, so it changes no translation.
AsidDoesNotMoveTable ==
    \A va \in VA :
        Walk(memory, va) = WalkPageTables(LowBits(ttbr0_, 48), LowBits(ttbr1_, 48),
                                          tcr_, memory, va)

\* With the stub in place no translation succeeds, whatever the guest's
\* tables hold, and nothing ever enters the TLB.
StubNeverTranslates ==
    /\ DOMAIN tlb_ = {}
    /\ stats_.tlb_hits = 0
    /\ reply.kind # "mapped"
    /\ stats_.translation_faults = stats_.page_walks

\* What the caller of translate is told, without how it was found: the
\* answers of TranslationService.
Translation(va, asid, region) ==
    [kind |-> "mapped", va |-> va, asid |-> asid,
     pa |-> region.base \cup LowBits(va, region.size), size |-> region.size,
     type |-> region.type, ap |-> region.ap]

Translations == [kind : {"mapped"}, va : VA, asid : ASID, pa : Word(64),
                 size : Sizes, type : MemoryTypes, ap : Permissions]

Answer ==
    IF reply.kind = "mapped"
    THEN [Translation(reply.va, reply.asid, reply.region) EXCEPT !.pa = reply.pa]
    ELSE reply

Found(ttbr0, ttbr1, tcr, m, va, asid) ==
    {Translation(va, asid, region) :
       region \in WalkPageTables(ttbr0, ttbr1, tcr, m, va) \ {Fault, Diverges}}

Faults(ttbr0, ttbr1, tcr, m, va) ==
    Fault \in WalkPageTables(ttbr0, ttbr1, tcr, m, va)

Service == INSTANCE TranslationService WITH answer <- Answer

\* The emulator with its TLB implements a translation service without one,
\* whose answers may be out of date by no more than the invalidations owed,
\* and whose faults are never out of date.  It does so for the inputs of
\* WellFormedInputs.
ImplementsService == Service!Spec
=============================================================================
