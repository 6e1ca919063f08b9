------------------------- MODULE MMUEmulatorProofs -------------------------
(***************************************************************************)
(* Theorems about MMUEmulator, for every value of its constants.           *)
(***************************************************************************)
EXTENDS MMUEmulator, TLAPS, FiniteSetTheorems

\* Blocks and pages are aligned to their size, so that adding the offset is
\* the union of disjoint words.
Aligned == {region \in Regions : ClearLow(region.base, region.size) = region.base}

Outcomes == Aligned \cup {Fault, Diverges}

-----------------------------------------------------------------------------
(* Words and walks *)

\* Clearing or keeping the low bits of a word gives a word.
LEMMA WordOperations ==
    ASSUME NEW x \in Word(64), NEW n
    PROVE  ClearLow(x, n) \in Word(64) /\ LowBits(x, n) \in Word(64)
<1>1. x \subseteq 0 .. 64 - 1
  BY DEF Word
<1>2. ClearLow(x, n) \subseteq x /\ LowBits(x, n) \subseteq x
  BY DEF ClearLow, LowBits
<1> QED
  BY <1>1, <1>2 DEF Word

\* A block or page descriptor describes an aligned region, whatever its bits.
LEMMA RegionType ==
    ASSUME NEW d, NEW size \in Sizes
    PROVE  Region(d, size) \in Aligned
<1>1. GetOutputAddress(d) \in Word(64)
  BY DEF GetOutputAddress, ShiftLeft, Word
<1>2. ClearLow(GetOutputAddress(d), size) \in Word(64)
  BY <1>1, WordOperations DEF Sizes
<1>3. DecodeMemoryType(d) \in MemoryTypes
  BY DEF DecodeMemoryType, MemoryTypes
<1>4. DecodePermissions(d) \in Permissions
  BY DEF DecodePermissions, Permissions
<1>5. Region(d, size) \in Regions
  BY <1>2, <1>3, <1>4 DEF Region, Regions
<1>6. \A x : ClearLow(ClearLow(x, size), size) = ClearLow(x, size)
  BY DEF ClearLow
<1> QED
  BY <1>5, <1>6 DEF Region, Aligned

\* Each level returns outcomes if the level below does.
LEMMA VisitType ==
    ASSUME NEW d, NEW level \in 0 .. 4, NEW deeper, deeper \subseteq Outcomes
    PROVE  Visit(d, level, deeper) \subseteq Outcomes
<1>1. ASSUME level < 4 PROVE BlockSize[level + 1] \in Sizes
  BY <1>1 DEF BlockSize, Sizes
<1>2. ASSUME level < 4 PROVE Region(d, BlockSize[level + 1]) \in Aligned
  BY <1>1, <1>2, RegionType
<1> QED
  BY <1>2 DEF Visit, Outcomes

\* Every walk, from any table and with any registers, returns outcomes.
LEMMA WalkType ==
    ASSUME NEW ttbr0, NEW ttbr1, NEW tcr, NEW m, NEW va
    PROVE  WalkPageTables(ttbr0, ttbr1, tcr, m, va) \subseteq Outcomes
<1>4. \A table : WalkLevel4(m, table, va) \subseteq Outcomes
  BY VisitType DEF WalkLevel4, WalkBeyond, Outcomes
<1>3. \A table : WalkLevel3(m, table, va) \subseteq Outcomes
  BY <1>4, VisitType DEF WalkLevel3
<1>2. \A table : WalkLevel2(m, table, va) \subseteq Outcomes
  BY <1>3, VisitType DEF WalkLevel2
<1>1. \A table : WalkLevel1(m, table, va) \subseteq Outcomes
  BY <1>2, VisitType DEF WalkLevel1
<1>0. \A table : WalkLevel0(m, table, va) \subseteq Outcomes
  BY <1>1, VisitType DEF WalkLevel0
<1> QED
  BY <1>0 DEF WalkPageTables, Outcomes

-----------------------------------------------------------------------------
(* Type correctness *)

TlbType(tlb) ==
    /\ DOMAIN tlb \subseteq Word(64)
    /\ \A key \in DOMAIN tlb : tlb[key] \in Entries

\* The key of a translation is a 64-bit word.
LEMMA KeyType ==
    ASSUME NEW va \in VA, NEW asid \in ASID
    PROVE  TlbKey(va, asid) \in Word(64)
<1>1. ClearLow(va, 12) \in Word(64)
  BY AddressAssumption, WordOperations
<1>2. asid \subseteq 0 .. 16 - 1
  BY AddressAssumption DEF Word
<1>3. {b + 48 : b \in asid} \subseteq 0 .. 64 - 1
  BY <1>2
<1> QED
  BY <1>1, <1>3 DEF TlbKey, Word

\* What a walk found becomes a well-typed entry, and a well-typed answer.
LEMMA EntryType ==
    ASSUME NEW va \in VA, NEW asid \in ASID, NEW region \in Regions
    PROVE  NewEntry(va, asid, region) \in Entries
<1>1. va \in Word(64) /\ asid \in Word(16)
  BY AddressAssumption
<1>2. region.base \in Word(64) /\ region.size \in Sizes
  BY DEF Regions
<1>3. ClearLow(va, region.size) \in Word(64)
  BY <1>1, WordOperations
<1>4. ClearLow(region.base, region.size) \in Word(64)
  BY <1>2, WordOperations
<1> QED
  BY <1>1, <1>2, <1>3, <1>4 DEF NewEntry, Entries, Regions

LEMMA AnswerType ==
    ASSUME NEW va \in VA, NEW asid \in ASID, NEW hit \in BOOLEAN,
           NEW region \in Regions
    PROVE  Mapped(va, asid, hit, region) \in Replies
<1>1. va \in Word(64) /\ region.base \in Word(64)
  BY AddressAssumption DEF Regions
<1>2. LowBits(va, region.size) \in Word(64)
  BY <1>1, WordOperations
<1>3. region.base \cup LowBits(va, region.size) \in Word(64)
  BY <1>1, <1>2 DEF Word
<1> QED
  BY <1>3 DEF Mapped, Replies

\* An entry holds what CachedRegion needs.
LEMMA CachedRegionType ==
    ASSUME NEW entry \in Entries
    PROVE  CachedRegion(entry) \in Regions
BY DEF CachedRegion, Entries, Regions

\* Erasing entries and adding one keep a TLB well typed.
LEMMA TlbOperations ==
    ASSUME NEW tlb, TlbType(tlb)
    PROVE  /\ \A keys : TlbType(Without(tlb, keys))
           /\ \A key \in Word(64), entry \in Entries :
                TlbType(With(tlb, key, entry))
           /\ \A victim \in Evicted(tlb) : TlbType(victim)
<1>1. \A keys : TlbType(Without(tlb, keys))
  BY DEF TlbType, Without
<1>2. \A key \in Word(64), entry \in Entries : TlbType(With(tlb, key, entry))
  BY DEF TlbType, With
<1>3. \A victim \in Evicted(tlb) : TlbType(victim)
  BY <1>1 DEF Evicted
<1> QED
  BY <1>1, <1>2, <1>3

\* The emulator starts well typed.
LEMMA TypeInit == Init => TypeOK
<1> SUFFICES ASSUME Init PROVE TypeOK
  OBVIOUS
<1>1. {} \in Word(64)
  BY DEF Word
<1>2. memory \in Memories
  BY StoreAssumption DEF Init, Memories
<1>3. stats_ \in Stats
  BY DEF Init, NoStats, Stats
<1>4. reply \in Replies
  BY DEF Init, Replies
<1>5. seen \in [Pages \X ASID -> SUBSET Memories]
  BY <1>2 DEF Init
<1>6. DOMAIN tlb_ = {}
  BY DEF Init
<1> QED
  BY <1>1, <1>2, <1>3, <1>4, <1>5, <1>6 DEF Init, TypeOK

\* A step of any action keeps the emulator well typed.
LEMMA TypeNext == TypeOK /\ [Next]_vars => TypeOK'
<1> SUFFICES ASSUME TypeOK, [Next]_vars PROVE TypeOK'
  OBVIOUS
<1> USE DEF TypeOK
<1>0. TlbType(tlb_)
  BY DEF TlbType
<1>a. ASSUME NEW covered, Forget(covered)
      PROVE  seen' \in [Pages \X ASID -> SUBSET Memories]
  BY <1>a DEF Forget
<1>b. ASSUME FlushTlb
      PROVE  /\ DOMAIN tlb_' = {}
             /\ seen' \in [Pages \X ASID -> SUBSET Memories]
  BY <1>a, <1>b DEF FlushTlb
<1>c. NoReply \in Replies
  BY DEF Replies
<1>1. ASSUME NEW va \in VA, NEW asid \in ASID, TranslateHit(va, asid)
      PROVE  TypeOK'
  <2>1. tlb_[TlbKey(va, asid)] \in Entries
    BY <1>1 DEF TranslateHit, Hit
  <2>2. reply' \in Replies
    BY <1>1, <2>1, CachedRegionType, AnswerType DEF TranslateHit
  <2>3. stats_' \in Stats
    BY <1>1 DEF TranslateHit, Count, Stats
  <2> QED
    BY <1>1, <2>2, <2>3 DEF TranslateHit, registers
<1>2. ASSUME NEW va \in VA, NEW asid \in ASID, TranslateMiss(va, asid)
      PROVE  TypeOK'
  <2>1. PICK region \in Walk(memory, va) \ {Fault, Diverges},
             tlb \in Evicted(tlb_) :
          /\ tlb_' = With(tlb, TlbKey(va, asid), NewEntry(va, asid, region))
          /\ reply' = Mapped(va, asid, FALSE, region)
    BY <1>2 DEF TranslateMiss
  <2>2. region \in Regions
    BY WalkType DEF Walk, Outcomes, Aligned
  <2>3. TlbType(tlb_')
    BY <1>0, <2>1, <2>2, KeyType, EntryType, TlbOperations
  <2>4. reply' \in Replies
    BY <2>1, <2>2, AnswerType
  <2>5. stats_' \in Stats
    BY <1>2 DEF TranslateMiss, Count, Stats
  <2> QED
    BY <1>2, <2>3, <2>4, <2>5 DEF TranslateMiss, registers, TlbType
<1>3. ASSUME NEW va \in VA, NEW asid \in ASID, TranslateFault(va, asid)
      PROVE  TypeOK'
  <2>1. reply' \in Replies
    BY <1>3 DEF TranslateFault, Replies
  <2>2. stats_' \in Stats
    BY <1>3 DEF TranslateFault, Count, Stats
  <2> QED
    BY <1>3, <2>1, <2>2 DEF TranslateFault, registers
<1>4. ASSUME NEW va \in VA, NEW asid \in ASID, TranslateDiverges(va, asid)
      PROVE  TypeOK'
  <2>1. stats_' \in Stats
    BY <1>4 DEF TranslateDiverges, Count, Stats
  <2> QED
    BY <1>4, <1>c, <2>1 DEF TranslateDiverges, registers
<1>5. ASSUME NEW va \in VA, NEW asid \in ASID, TlbInvalidateVa(va, asid)
      PROVE  TypeOK'
  <2>1. TlbType(tlb_')
    BY <1>0, <1>5, TlbOperations DEF TlbInvalidateVa
  <2> QED
    BY <1>5, <1>a, <1>c, <2>1 DEF TlbInvalidateVa, registers, TlbType
<1>6. ASSUME NEW asid, TlbInvalidateAsid(asid)
      PROVE  TypeOK'
  <2>1. TlbType(tlb_')
    BY <1>0, <1>6, TlbOperations DEF TlbInvalidateAsid
  <2> QED
    BY <1>6, <1>a, <1>c, <2>1 DEF TlbInvalidateAsid, registers, TlbType
<1>7. CASE TlbInvalidateAll
  BY <1>7, <1>b, <1>c DEF TlbInvalidateAll, registers
<1>8. ASSUME NEW value \in TTBR, SetTtbr0(value) \/ SetTtbr1(value)
      PROVE  TypeOK'
  BY <1>8, <1>b, <1>c, RegisterAssumption DEF SetTtbr0, SetTtbr1
<1>9. ASSUME NEW value \in TCR, SetTcr(value)
      PROVE  TypeOK'
  BY <1>9, <1>b, <1>c, RegisterAssumption DEF SetTcr
<1>10. CASE ResetStats
  BY <1>10, <1>c DEF ResetStats, NoStats, Stats, registers
<1>11. ASSUME NEW store \in Stores, GuestStore(store[1], store[2])
       PROVE  TypeOK'
  <2>1. store[1] \in Slots /\ store[2] \in Descriptors
    BY StoreAssumption
  <2>2. memory' \in Memories
    BY <1>11, <2>1 DEF GuestStore, Memories
  <2>3. seen' \in [Pages \X ASID -> SUBSET Memories]
    BY <1>11, <2>2 DEF GuestStore
  <2> QED
    BY <1>11, <1>c, <2>2, <2>3 DEF GuestStore, registers
<1>12. CASE UNCHANGED vars
  BY <1>12 DEF vars, registers
<1> QED
  BY <1>1, <1>2, <1>3, <1>4, <1>5, <1>6, <1>7, <1>8, <1>9, <1>10, <1>11, <1>12
     DEF Next

\* Registers, TLB, statistics, memory and replies keep their types for ever,
\* whatever tables the guest builds.
THEOREM TypeCorrect == Spec => []TypeOK
BY TypeInit, TypeNext, PTL DEF Spec

-----------------------------------------------------------------------------
(* Statistics *)

LEMMA StatsInit == Init => StatsConsistent
BY DEF Init, NoStats, Counters, StatsConsistent

\* Only four actions count, and each counts a consistent set of counters.
LEMMA StatsNext == TypeOK /\ StatsConsistent /\ [Next]_vars => StatsConsistent'
<1> SUFFICES ASSUME TypeOK, StatsConsistent, [Next]_vars
             PROVE  StatsConsistent'
  OBVIOUS
<1>0. \A counter \in Counters : stats_[counter] \in Nat
  BY DEF TypeOK, Stats
<1>1. ASSUME NEW counters,
             counters \in {{"tlb_hits"}, {"tlb_misses", "page_walks"},
                           {"tlb_misses", "page_walks", "translation_faults"}},
             Count(counters)
      PROVE  StatsConsistent'
  BY <1>0, <1>1 DEF Count, Counters, StatsConsistent
<1>2. ASSUME stats_' = stats_
      PROVE  StatsConsistent'
  BY <1>2 DEF StatsConsistent
<1>3. ASSUME NEW va \in VA, NEW asid \in ASID, TranslateHit(va, asid)
      PROVE  StatsConsistent'
  BY <1>1, <1>3 DEF TranslateHit
<1>4. ASSUME NEW va \in VA, NEW asid \in ASID, TranslateMiss(va, asid)
      PROVE  StatsConsistent'
  BY <1>1, <1>4 DEF TranslateMiss
<1>5. ASSUME NEW va \in VA, NEW asid \in ASID, TranslateFault(va, asid)
      PROVE  StatsConsistent'
  BY <1>1, <1>5 DEF TranslateFault
<1>6. ASSUME NEW va \in VA, NEW asid \in ASID, TranslateDiverges(va, asid)
      PROVE  StatsConsistent'
  BY <1>1, <1>6 DEF TranslateDiverges
<1>7. CASE ResetStats
  BY <1>7 DEF ResetStats, NoStats, Counters, StatsConsistent
<1> QED
  BY <1>2, <1>3, <1>4, <1>5, <1>6, <1>7
     DEF Next, vars, TlbInvalidateVa, TlbInvalidateAsid, TlbInvalidateAll,
         SetTtbr0, SetTtbr1, SetTcr, GuestStore

\* The four counters of get_stats agree after any sequence of calls, also
\* around reset_stats and for walks that never return.
THEOREM StatsCorrect == Spec => []StatsConsistent
BY TypeInit, TypeNext, StatsInit, StatsNext, PTL DEF Spec

-----------------------------------------------------------------------------
(* Capacity *)

Capacity == IsFiniteSet(DOMAIN tlb_) /\ TlbBounded

\* The eviction makes room, and the insertion takes no more than that.
LEMMA InsertionBound ==
    ASSUME Capacity, NEW tlb \in Evicted(tlb_), NEW key, NEW entry
    PROVE  /\ IsFiniteSet(DOMAIN With(tlb, key, entry))
           /\ Cardinality(DOMAIN With(tlb, key, entry)) <= TLB_SIZE
<1>1. Cardinality(DOMAIN tlb_) \in Nat /\ TLB_SIZE \in Nat
  BY FS_CardinalityType, SizeAssumption DEF Capacity
<1>2. /\ IsFiniteSet(DOMAIN tlb)
      /\ Cardinality(DOMAIN tlb) \in Nat
      /\ Cardinality(DOMAIN tlb) < TLB_SIZE
  <2>1. CASE Cardinality(DOMAIN tlb_) >= TLB_SIZE
    <3>1. PICK victim \in DOMAIN tlb_ : tlb = Without(tlb_, {victim})
      BY <2>1 DEF Evicted
    <3>2. DOMAIN tlb = DOMAIN tlb_ \ {victim}
      BY <3>1 DEF Without
    <3>3. /\ IsFiniteSet(DOMAIN tlb)
          /\ Cardinality(DOMAIN tlb) = Cardinality(DOMAIN tlb_) - 1
      BY <3>2, FS_RemoveElement DEF Capacity
    <3>4. Cardinality(DOMAIN tlb) \in Nat
      BY <3>3, FS_CardinalityType
    <3> QED
      BY <1>1, <3>3, <3>4 DEF Capacity, TlbBounded
  <2>2. CASE ~ (Cardinality(DOMAIN tlb_) >= TLB_SIZE)
    BY <1>1, <2>2 DEF Evicted, Capacity
  <2> QED
    BY <2>1, <2>2
<1>3. DOMAIN With(tlb, key, entry) = DOMAIN tlb \cup {key}
  BY DEF With
<1>4. Cardinality(DOMAIN tlb \cup {key}) =
        IF key \in DOMAIN tlb THEN Cardinality(DOMAIN tlb)
        ELSE Cardinality(DOMAIN tlb) + 1
  BY <1>2, FS_AddElement
<1> QED
  BY <1>1, <1>2, <1>3, <1>4, FS_AddElement, FS_CardinalityType

LEMMA CapacityInit == Init => Capacity
BY FS_EmptySet, SizeAssumption DEF Init, Capacity, TlbBounded

LEMMA CapacityNext == Capacity /\ [Next]_vars => Capacity'
<1> SUFFICES ASSUME Capacity, [Next]_vars PROVE Capacity'
  OBVIOUS
<1>0. Cardinality(DOMAIN tlb_) \in Nat /\ TLB_SIZE \in Nat
  BY FS_CardinalityType, SizeAssumption DEF Capacity
<1>1. ASSUME NEW va, NEW asid, TranslateMiss(va, asid) PROVE Capacity'
  BY <1>1, InsertionBound DEF TranslateMiss, Capacity, TlbBounded
<1>2. ASSUME NEW keys, tlb_' = Without(tlb_, keys) PROVE Capacity'
  <2>1. DOMAIN tlb_' \in SUBSET DOMAIN tlb_
    BY <1>2 DEF Without
  <2>2. /\ IsFiniteSet(DOMAIN tlb_')
        /\ Cardinality(DOMAIN tlb_') <= Cardinality(DOMAIN tlb_)
    BY <2>1, FS_Subset DEF Capacity
  <2> QED
    BY <1>0, <2>2, FS_CardinalityType DEF Capacity, TlbBounded
<1>3. ASSUME FlushTlb PROVE Capacity'
  BY <1>3, FS_EmptySet, SizeAssumption DEF FlushTlb, Capacity, TlbBounded
<1>4. ASSUME tlb_' = tlb_ PROVE Capacity'
  BY <1>4 DEF Capacity, TlbBounded
<1> QED
  BY <1>1, <1>2, <1>3, <1>4
     DEF Next, vars, TranslateHit, TranslateFault, TranslateDiverges,
         TlbInvalidateVa, TlbInvalidateAsid, TlbInvalidateAll, SetTtbr0,
         SetTtbr1, SetTcr, ResetStats, GuestStore

\* The TLB never outgrows TLB_SIZE, whichever entries the hash map evicts.
THEOREM CapacityCorrect == Spec => []TlbBounded
<1>1. Capacity => TlbBounded
  BY DEF Capacity
<1> QED
  BY <1>1, CapacityInit, CapacityNext, PTL DEF Spec

-----------------------------------------------------------------------------
(* What a translation does to the other entries *)

\* The eviction takes one entry at most, and only from a full TLB.
LEMMA EvictionCost ==
    ASSUME Capacity, NEW tlb \in Evicted(tlb_), NEW key, NEW entry,
           NEW lost, lost = DOMAIN tlb_ \ DOMAIN With(tlb, key, entry), lost # {}
    PROVE  Cardinality(lost) = 1 /\ Cardinality(DOMAIN tlb_) = TLB_SIZE
<1>1. Cardinality(DOMAIN tlb_) \in Nat /\ TLB_SIZE \in Nat
  BY FS_CardinalityType, SizeAssumption DEF Capacity
<1>2. DOMAIN tlb \subseteq DOMAIN With(tlb, key, entry)
  BY DEF With
<1>3. Cardinality(DOMAIN tlb_) >= TLB_SIZE
  BY <1>2 DEF Evicted
<1>4. PICK victim \in DOMAIN tlb_ : tlb = Without(tlb_, {victim})
  BY <1>3 DEF Evicted
<1>5. lost = {victim}
  BY <1>2, <1>4 DEF Without
<1> QED
  BY <1>1, <1>3, <1>5, FS_Singleton DEF Capacity, TlbBounded

\* Translating leaves the entry it used and loses at most one other, and no
\* other call that answers touches the TLB.
THEOREM RetentionCorrect == Spec => TlbRetention
<1> DEFINE Retains ==
      Translating =>
         LET lost == DOMAIN tlb_ \ DOMAIN tlb_'
         IN  /\ reply'.kind = "mapped" =>
                  TlbKey(reply'.va, reply'.asid) \in DOMAIN tlb_'
             /\ lost # {} => /\ Cardinality(lost) = 1
                             /\ Cardinality(DOMAIN tlb_) = TLB_SIZE
                             /\ reply'.kind = "mapped" /\ ~ reply'.hit
<1>1. ASSUME Capacity, NEW va \in VA, NEW asid \in ASID, TranslateHit(va, asid)
      PROVE  Retains
  BY <1>1 DEF TranslateHit, Hit, Mapped
<1>2. ASSUME Capacity, NEW va \in VA, NEW asid \in ASID, TranslateMiss(va, asid)
      PROVE  Retains
  <2>1. PICK region \in Walk(memory, va) \ {Fault, Diverges},
             tlb \in Evicted(tlb_) :
          /\ tlb_' = With(tlb, TlbKey(va, asid), NewEntry(va, asid, region))
          /\ reply' = Mapped(va, asid, FALSE, region)
    BY <1>2 DEF TranslateMiss
  <2>2. /\ reply'.kind = "mapped" /\ reply'.hit = FALSE
        /\ reply'.va = va /\ reply'.asid = asid
    BY <2>1 DEF Mapped
  <2>3. TlbKey(va, asid) \in DOMAIN tlb_'
    BY <2>1 DEF With
  <2> QED
    BY <1>2, <2>1, <2>2, <2>3, EvictionCost
<1>3. ASSUME NEW va \in VA, NEW asid \in ASID, TranslateFault(va, asid)
      PROVE  Retains
  BY <1>3 DEF TranslateFault
<1>4. ASSUME reply' = NoReply \/ stats_' = stats_
      PROVE  Retains
  BY <1>4 DEF Translating
<1>5. Capacity /\ [Next]_vars => [Retains]_vars
  <2> SUFFICES ASSUME Capacity, [Next]_vars PROVE Retains \/ UNCHANGED vars
    OBVIOUS
  <2> HIDE DEF Retains
  <2> QED
    BY <1>1, <1>2, <1>3, <1>4
       DEF Next, TranslateDiverges, TlbInvalidateVa, TlbInvalidateAsid,
           TlbInvalidateAll, SetTtbr0, SetTtbr1, SetTcr, ResetStats, GuestStore
<1> QED
  BY <1>5, CapacityInit, CapacityNext, PTL DEF Spec, TlbRetention

-----------------------------------------------------------------------------
(* Every walk ends in one way, or in one of two that nobody can choose     *)

\* One outcome, or the two of a walk that has run past the last level.
Decided(outcomes) ==
    outcomes = {Fault, Diverges} \/ \E outcome : outcomes = {outcome}

\* A level decides if the level below does.
LEMMA VisitDecided ==
    ASSUME NEW d, NEW level, NEW deeper, Decided(deeper)
    PROVE  Decided(Visit(d, level, deeper))
BY DEF Visit, Decided

\* From any table, whatever it holds.
LEMMA TableWalkDecided ==
    ASSUME NEW m, NEW va
    PROVE  \A table : Decided(WalkLevel0(m, table, va))
<1>4. \A table : Decided(WalkLevel4(m, table, va))
  <2>1. Decided(WalkBeyond)
    BY DEF WalkBeyond, Decided
  <2> QED
    BY <2>1, VisitDecided DEF WalkLevel4
<1>3. \A table : Decided(WalkLevel3(m, table, va))
  BY <1>4, VisitDecided DEF WalkLevel3
<1>2. \A table : Decided(WalkLevel2(m, table, va))
  BY <1>3, VisitDecided DEF WalkLevel2
<1>1. \A table : Decided(WalkLevel1(m, table, va))
  BY <1>2, VisitDecided DEF WalkLevel1
<1> QED
  BY <1>1, VisitDecided DEF WalkLevel0

\* With limits that exist, the registers send an address to one table or to
\* none, so the tables, the registers and the address decide a walk.
LEMMA WalkDecided ==
    ASSUME Configured, NEW m, NEW va
    PROVE  Decided(Walk(m, va))
<1>a. /\ Limit(T0SZ(tcr_)) = {{64 - T0SZ(tcr_)}}
      /\ Limit(T1SZ(tcr_)) = {{64 - T1SZ(tcr_)}}
  BY DEF Configured, Supported, Limit
<1>b. \A limit : /\ {Less(va, l) : l \in {limit}} = {Less(va, limit)}
                 /\ {~ Less(va, l) : l \in {limit}} = {~ Less(va, limit)}
  OBVIOUS
<1>1. VaInTtbr0(va, tcr_) = {Less(va, {64 - T0SZ(tcr_)})}
  BY <1>a, <1>b DEF VaInTtbr0
<1>2. VaInTtbr1(va, tcr_) = {~ Less(va, {64 - T1SZ(tcr_)})}
  BY <1>a, <1>b DEF VaInTtbr1
<1> DEFINE in0 == Less(va, {64 - T0SZ(tcr_)})
           in1 == ~ Less(va, {64 - T1SZ(tcr_)})
           From0 == WalkLevel0(m, TableBase(ttbr0_), va)
           From1 == WalkLevel0(m, TableBase(ttbr1_), va)
<1>3. Decided(From0) /\ Decided(From1) /\ Decided({Fault})
  BY TableWalkDecided DEF Decided
<1>4. Walk(m, va) = IF in0 THEN From0 ELSE IF in1 THEN From1 ELSE {Fault}
  <2>0. VaInTtbr0(va, tcr_) = {in0} /\ VaInTtbr1(va, tcr_) = {in1}
    BY <1>1, <1>2
  <2> HIDE DEF in0, in1, From0, From1
  <2>1. UNION {IF in THEN From1 ELSE {Fault} : in \in {in1}} =
          IF in1 THEN From1 ELSE {Fault}
    OBVIOUS
  <2> QED
    BY <2>0, <2>1 DEF Walk, WalkPageTables, From0, From1
<1> HIDE DEF in0, in1, From0, From1
<1> QED
  BY <1>3, <1>4

\* At reset T0SZ is 0 and each walk may pick its side of the limit; it still
\* ends in some way.
LEMMA WalkEnds ==
    ASSUME NEW m, NEW va
    PROVE  Walk(m, va) # {}
<1>1. PICK in0 \in VaInTtbr0(va, tcr_) : TRUE
  BY DEF VaInTtbr0, Limit
<1>2. PICK in1 \in VaInTtbr1(va, tcr_) : TRUE
  BY DEF VaInTtbr1, Limit
<1>3. \A table : \E outcome : outcome \in WalkLevel0(m, table, va)
  BY TableWalkDecided DEF Decided
<1>4. PICK outcome0 : outcome0 \in WalkLevel0(m, TableBase(ttbr0_), va)
  BY <1>3
<1>5. PICK outcome1 : outcome1 \in WalkLevel0(m, TableBase(ttbr1_), va)
  BY <1>3
<1>6. CASE in0
  <2>1. outcome0 \in Walk(m, va)
    BY <1>4, <1>6 DEF Walk, WalkPageTables
  <2> QED
    BY <2>1
<1>7. CASE ~ in0
  <2>1. IF in1 THEN outcome1 \in Walk(m, va) ELSE Fault \in Walk(m, va)
    BY <1>5, <1>7 DEF Walk, WalkPageTables
  <2> QED
    BY <2>1
<1> QED
  BY <1>6, <1>7

\* The ways a translation may end: the conditions of the four actions.
Endings(va, asid) ==
    \/ Hit(va, asid)
    \/ Fault \in Walk(memory, va)
    \/ Diverges \in Walk(memory, va)
    \/ Walk(memory, va) \ {Fault, Diverges} # {} /\ Evicted(tlb_) # {}

AlwaysEnds == \A va \in VA, asid \in ASID : Endings(va, asid)

\* No call of translate is without an ending: whatever the registers, the
\* tables and the TLB hold, it hits, faults, diverges, or finds a region and
\* the room for its entry (translate_with_attributes).
THEOREM TranslateTotal == Spec => []AlwaysEnds
<1>1. ASSUME Capacity, NEW va \in VA, NEW asid \in ASID
      PROVE  Endings(va, asid)
  <2>1. Walk(memory, va) # {}
    BY WalkEnds
  <2>2. Evicted(tlb_) # {}
    <3>1. CASE Cardinality(DOMAIN tlb_) >= TLB_SIZE
      <4>1. DOMAIN tlb_ # {}
        BY <1>1, <3>1, FS_EmptySet, SizeAssumption DEF Capacity
      <4> QED
        BY <4>1, <3>1 DEF Evicted
    <3>2. CASE ~ (Cardinality(DOMAIN tlb_) >= TLB_SIZE)
      BY <3>2 DEF Evicted
    <3> QED
      BY <3>1, <3>2
  <2> QED
    BY <2>1, <2>2 DEF Endings
<1>2. Capacity => AlwaysEnds
  BY <1>1 DEF AlwaysEnds
<1> QED
  BY <1>2, CapacityInit, CapacityNext, PTL DEF Spec

-----------------------------------------------------------------------------
(* The address returned *)

\* What the TLB holds is aligned: a hit adds its offset as a walk does.
EntriesAligned ==
    \A key \in DOMAIN tlb_ :
        ClearLow(tlb_[key].physical_address, tlb_[key].size) =
            tlb_[key].physical_address

\* The address a caller is given keeps the offset of the one it asked for,
\* and lies in the region it is told of.
OffsetKept ==
    reply.kind = "mapped" =>
        /\ LowBits(reply.pa, reply.region.size) = LowBits(reply.va, reply.region.size)
        /\ ClearLow(reply.pa, reply.region.size) = reply.region.base

Alignment == TypeOK /\ EntriesAligned /\ OffsetKept

\* An aligned base and the offset are disjoint, and can be taken apart again.
LEMMA UnionKeepsOffset ==
    ASSUME NEW va, NEW asid, NEW hit, NEW region \in Aligned,
           va \in Word(64), reply' = Mapped(va, asid, hit, region)
    PROVE  OffsetKept'
<1>1. /\ reply'.va = va /\ reply'.region = region
      /\ reply'.pa = region.base \cup LowBits(va, region.size)
  BY DEF Mapped
<1>2. \A b \in region.base : region.size <= b
  BY DEF Aligned, ClearLow
<1>3. region.base \subseteq 0 .. 63 /\ va \subseteq 0 .. 63 /\ region.size \in {12, 21, 30}
  BY DEF Aligned, Regions, Word, Sizes
<1>4. LowBits(reply'.pa, region.size) = LowBits(va, region.size)
  <2>1. ASSUME NEW b \in region.base PROVE ~ (b < region.size)
    BY <1>2, <1>3, <2>1
  <2> QED
    BY <1>1, <2>1 DEF LowBits
<1>5. ClearLow(reply'.pa, region.size) = region.base
  <2>1. ASSUME NEW b \in LowBits(va, region.size) PROVE ~ (region.size <= b)
    BY <1>3, <2>1 DEF LowBits
  <2> QED
    BY <1>1, <1>2, <2>1 DEF ClearLow
<1> QED
  BY <1>1, <1>4, <1>5 DEF OffsetKept

LEMMA AlignmentInit == Init => Alignment
BY TypeInit DEF Init, NoReply, Alignment, EntriesAligned, OffsetKept

LEMMA AlignmentNext == Alignment /\ [Next]_vars => Alignment'
<1> SUFFICES ASSUME Alignment, [Next]_vars PROVE EntriesAligned' /\ OffsetKept'
  BY TypeNext DEF Alignment
<1>w. \A va \in VA : va \in Word(64)
  BY AddressAssumption
<1>1. ASSUME NEW va \in VA, NEW asid \in ASID, TranslateHit(va, asid)
      PROVE  EntriesAligned' /\ OffsetKept'
  <2> DEFINE entry == tlb_[TlbKey(va, asid)]
  <2>1. entry \in Entries /\ ClearLow(entry.physical_address, entry.size) = entry.physical_address
    BY <1>1 DEF TranslateHit, Hit, Alignment, TypeOK, EntriesAligned
  <2>2. CachedRegion(entry) \in Aligned
    <3> HIDE DEF entry
    <3>1. CachedRegion(entry) \in Regions
      BY <2>1, CachedRegionType
    <3> QED
      BY <2>1, <3>1 DEF CachedRegion, Aligned
  <2>3. OffsetKept'
    BY <1>1, <1>w, <2>2, UnionKeepsOffset DEF TranslateHit
  <2>4. EntriesAligned'
    BY <1>1 DEF TranslateHit, Alignment, EntriesAligned
  <2> QED
    BY <2>3, <2>4
<1>2. ASSUME NEW va \in VA, NEW asid \in ASID, TranslateMiss(va, asid)
      PROVE  EntriesAligned' /\ OffsetKept'
  <2>1. PICK region \in Walk(memory, va) \ {Fault, Diverges},
             tlb \in Evicted(tlb_) :
          /\ tlb_' = With(tlb, TlbKey(va, asid), NewEntry(va, asid, region))
          /\ reply' = Mapped(va, asid, FALSE, region)
    BY <1>2 DEF TranslateMiss
  <2>2. region \in Aligned
    BY WalkType DEF Walk, Outcomes
  <2>3. OffsetKept'
    BY <1>w, <2>1, <2>2, UnionKeepsOffset
  <2>4. \A key \in DOMAIN tlb : key \in DOMAIN tlb_ /\ tlb[key] = tlb_[key]
    BY DEF Evicted, Without
  <2>5. ClearLow(NewEntry(va, asid, region).physical_address, region.size) =
          NewEntry(va, asid, region).physical_address
    BY DEF NewEntry, ClearLow
  <2>6. \A key \in DOMAIN tlb_' :
          \/ tlb_'[key] = NewEntry(va, asid, region)
          \/ key \in DOMAIN tlb_ /\ tlb_'[key] = tlb_[key]
    BY <2>1, <2>4 DEF With
  <2>7. NewEntry(va, asid, region).size = region.size
    BY DEF NewEntry
  <2>8. EntriesAligned'
    BY <2>5, <2>6, <2>7 DEF Alignment, EntriesAligned
  <2> QED
    BY <2>3, <2>8
<1>3. ASSUME reply'.kind # "mapped" PROVE OffsetKept'
  BY <1>3 DEF OffsetKept
<1>4. ASSUME tlb_' = tlb_ PROVE EntriesAligned'
  BY <1>4 DEF Alignment, EntriesAligned
<1>5. ASSUME NEW keys, tlb_' = Without(tlb_, keys) PROVE EntriesAligned'
  BY <1>5 DEF Without, Alignment, EntriesAligned
<1>6. ASSUME FlushTlb PROVE EntriesAligned'
  BY <1>6 DEF FlushTlb, EntriesAligned
<1>7. CASE UNCHANGED vars
  BY <1>7 DEF vars, Alignment, EntriesAligned, OffsetKept
<1>8. NoReply.kind # "mapped"
  BY DEF NoReply
<1>9. ASSUME NEW va \in VA, NEW asid \in ASID,
             TranslateFault(va, asid) \/ TranslateDiverges(va, asid)
      PROVE  EntriesAligned' /\ OffsetKept'
  BY <1>3, <1>4, <1>8, <1>9 DEF TranslateFault, TranslateDiverges
<1> QED
  BY <1>1, <1>2, <1>3, <1>4, <1>5, <1>6, <1>7, <1>8, <1>9
     DEF Next, TlbInvalidateVa, TlbInvalidateAsid, TlbInvalidateAll,
         SetTtbr0, SetTtbr1, SetTcr, ResetStats, GuestStore

\* Hit or walk, 4KB page or 1GB block: the physical address has the offset of
\* the virtual one and the base of the region reported with it.
THEOREM OffsetCorrect == Spec => []OffsetKept
<1>1. Alignment => OffsetKept
  BY DEF Alignment
<1> QED
  BY <1>1, AlignmentInit, AlignmentNext, PTL DEF Spec

-----------------------------------------------------------------------------
(* The ASID of a TTBR                                                      *)

\* No TTBR is written with an ASID in its upper bits.
UntaggedTtbrs == \A value \in TTBR : value \cap (48 .. 63) = {}

\* The mask of walk_page_tables keeps bits 48 to 63, so only values without
\* an ASID there are safe from it: with them the documented rule holds, and
\* the failure of AsidDoesNotMoveTable has no other cause.
THEOREM UntaggedTableFixed == UntaggedTtbrs => (Spec => []AsidDoesNotMoveTable)
<1> SUFFICES ASSUME UntaggedTtbrs PROVE Spec => []AsidDoesNotMoveTable
  OBVIOUS
<1> DEFINE Bare(ttbr) == LowBits(ttbr, 48) = ttbr
           Inv == Bare(ttbr0_) /\ Bare(ttbr1_)
<1>1. ASSUME NEW value \in TTBR PROVE Bare(value)
  <2>1. value \subseteq 0 .. 63 /\ value \cap (48 .. 63) = {}
    BY <1>1, RegisterAssumption DEF Word, UntaggedTtbrs
  <2>2. \A b \in value : b < 48
    BY <2>1
  <2> QED
    BY <2>2 DEF LowBits
<1>2. Init => Inv
  BY DEF Init, LowBits
<1>3. Inv /\ [Next]_vars => Inv'
  <2> SUFFICES ASSUME Inv, [Next]_vars PROVE Inv'
    OBVIOUS
  <2> HIDE DEF Bare
  <2> QED
    BY <1>1 DEF Next, vars, registers, TranslateHit, TranslateMiss, TranslateFault,
       TranslateDiverges, TlbInvalidateVa, TlbInvalidateAsid, TlbInvalidateAll,
       SetTtbr0, SetTtbr1, SetTcr, ResetStats, GuestStore
<1>4. Inv => AsidDoesNotMoveTable
  BY DEF Walk, AsidDoesNotMoveTable
<1> QED
  BY <1>2, <1>3, <1>4, PTL DEF Spec

-----------------------------------------------------------------------------
(* The code as it is: the descriptor read is a stub *)

\* With the stub, every walk of any tables faults.
LEMMA StubWalk ==
    ASSUME Stub, NEW m, NEW va
    PROVE  Walk(m, va) \subseteq {Fault}
<1>1. \A table, level : DescriptorAt(m, table, va, level) = {}
  BY DEF DescriptorAt, ReadDescriptor
<1>2. \A table : WalkLevel0(m, table, va) = {Fault}
  BY <1>1 DEF WalkLevel0, Visit, IsValid
<1> QED
  BY <1>2 DEF Walk, WalkPageTables

LEMMA StubNext ==
    ASSUME Stub, TypeOK, StubNeverTranslates, [Next]_vars
    PROVE  StubNeverTranslates'
<1>0. \A counter \in Counters : stats_[counter] \in Nat
  BY DEF TypeOK, Stats
<1>1. ASSUME NEW va \in VA, NEW asid \in ASID,
             \/ TranslateHit(va, asid) \/ TranslateMiss(va, asid)
             \/ TranslateDiverges(va, asid)
      PROVE  FALSE
  <2>1. Walk(memory, va) \subseteq {Fault}
    BY StubWalk
  <2>2. Fault.kind # Diverges.kind
    BY DEF Fault, Diverges
  <2>3. Walk(memory, va) \ {Fault, Diverges} = {} /\ Diverges \notin Walk(memory, va)
    BY <2>1, <2>2
  <2>4. ~ TranslateHit(va, asid)
    BY DEF TranslateHit, Hit, StubNeverTranslates
  <2>5. ~ TranslateMiss(va, asid) /\ ~ TranslateDiverges(va, asid)
    BY <2>3 DEF TranslateMiss, TranslateDiverges
  <2> QED
    BY <1>1, <2>4, <2>5
<1>2. ASSUME NEW va \in VA, NEW asid \in ASID, TranslateFault(va, asid)
      PROVE  StubNeverTranslates'
  <2>1. /\ stats_'["tlb_hits"] = stats_["tlb_hits"]
        /\ stats_'["page_walks"] = stats_["page_walks"] + 1
        /\ stats_'["translation_faults"] = stats_["translation_faults"] + 1
    BY <1>0, <1>2 DEF TranslateFault, Count, Counters
  <2>2. reply'.kind # "mapped" /\ tlb_' = tlb_
    BY <1>2 DEF TranslateFault
  <2> QED
    BY <2>1, <2>2 DEF StubNeverTranslates
<1>a. ASSUME DOMAIN tlb_' = {}, reply' = NoReply, stats_' = stats_
      PROVE  StubNeverTranslates'
  BY <1>a DEF NoReply, StubNeverTranslates
<1>b. CASE ResetStats
  BY <1>b DEF ResetStats, NoReply, NoStats, Counters, StubNeverTranslates
<1>c. CASE UNCHANGED vars
  BY <1>c DEF vars, StubNeverTranslates
<1>4. DOMAIN tlb_ = {}
  BY DEF StubNeverTranslates
<1>5. \A keys : DOMAIN Without(tlb_, keys) = {}
  BY <1>4 DEF Without
<1> QED
  BY <1>1, <1>2, <1>4, <1>5, <1>a, <1>b, <1>c
     DEF Next, TlbInvalidateVa, TlbInvalidateAsid, TlbInvalidateAll,
         FlushTlb, SetTtbr0, SetTtbr1, SetTcr, GuestStore

\* As the code stands, no guest tables, registers or sequence of calls make
\* a translation succeed, and the TLB stays empty.
THEOREM StubIsInert == Stub => (Spec => []StubNeverTranslates)
<1> SUFFICES ASSUME Stub PROVE Spec => []StubNeverTranslates
  OBVIOUS
<1>1. Init => StubNeverTranslates
  BY DEF Init, NoStats, Counters, NoReply, StubNeverTranslates
<1> QED
  BY <1>1, TypeInit, TypeNext, StubNext, PTL DEF Spec
=============================================================================
