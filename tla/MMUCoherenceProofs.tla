------------------------- MODULE MMUCoherenceProofs -------------------------
(***************************************************************************)
(* The TLB answers for the right page, the right address space and current *)
(* enough tables: TlbCoherent and AsidTagged, for every value of the       *)
(* constants, under the inputs of WellFormedInputs.                        *)
(***************************************************************************)
EXTENDS MMUEmulatorProofs

-----------------------------------------------------------------------------
(* Keys: the union of a page and a shifted ASID can be taken apart again   *)
(* when the address is canonical and the ASID is not 0xFFFF.               *)

\* The bits of a key above bit 47 are the ASID of a low-half address ...
LEMMA LowKey ==
    ASSUME NEW va \in VA, NEW asid \in ASID, LowHalf(va)
    PROVE  /\ \A b \in 0 .. 15 : b + 48 \in TlbKey(va, asid) <=> b \in asid
           /\ \A b \in 0 .. 47 : b \in TlbKey(va, asid) <=> b \in Page(va)
           /\ \A b \in Page(va) : b \in 0 .. 47
<1>1. va \subseteq 0 .. 63 /\ asid \subseteq 0 .. 15
  BY AddressAssumption DEF Word
<1>2. \A b \in va : b \in 0 .. 47
  BY <1>1 DEF LowHalf
<1> QED
  BY <1>1, <1>2 DEF TlbKey, Page, ClearLow

\* ... and all ones for a high-half address, whatever the ASID.
LEMMA HighKey ==
    ASSUME NEW va \in VA, NEW asid \in ASID, HighHalf(va)
    PROVE  TlbKey(va, asid) = Page(va) /\ HighHalf(Page(va))
<1>1. asid \subseteq 0 .. 15
  BY AddressAssumption DEF Word
<1>2. 48 .. 63 \subseteq ClearLow(va, 12)
  BY DEF HighHalf, ClearLow
<1>3. {b + 48 : b \in asid} \subseteq 48 .. 63
  BY <1>1
<1> QED
  BY <1>2, <1>3 DEF TlbKey, Page, HighHalf

\* Two translations share a key only if they share a page and, in the low
\* half, an address space.
LEMMA KeyInjective ==
    ASSUME WellFormedInputs,
           NEW va \in VA, NEW asid \in ASID, NEW va2 \in VA, NEW asid2 \in ASID,
           TlbKey(va, asid) = TlbKey(va2, asid2)
    PROVE  /\ Page(va) = Page(va2)
           /\ LowHalf(va) <=> LowHalf(va2)
           /\ LowHalf(va) => asid = asid2
<1>1. asid \subseteq 0 .. 15 /\ asid2 \subseteq 0 .. 15
  BY AddressAssumption DEF Word
<1>2. asid # 0 .. 15 /\ asid2 # 0 .. 15
  BY DEF WellFormedInputs, AllAsids
<1>3. ASSUME NEW v \in VA, HighHalf(v) PROVE ~ LowHalf(v)
  BY <1>3 DEF HighHalf, LowHalf
<1>4. ASSUME NEW v \in VA, NEW a \in ASID, NEW w \in VA, NEW c \in ASID,
             LowHalf(v), HighHalf(w), TlbKey(v, a) = TlbKey(w, c)
      PROVE  FALSE
  <2>1. 48 .. 63 \subseteq TlbKey(v, a)
    BY <1>4, HighKey DEF HighHalf
  <2>2. \A b \in 0 .. 15 : b \in a
    BY <1>4, <2>1, LowKey
  <2>3. a \subseteq 0 .. 15
    BY AddressAssumption DEF Word
  <2>4. a = 0 .. 15
    BY <2>2, <2>3
  <2> QED
    BY <2>4 DEF WellFormedInputs, AllAsids
<1>5. CASE LowHalf(va) /\ LowHalf(va2)
  <2>1. \A b \in 0 .. 15 : b \in asid <=> b \in asid2
    BY <1>5, LowKey
  <2>2. asid = asid2
    BY <1>1, <2>1
  <2>3. \A b \in 0 .. 47 : b \in Page(va) <=> b \in Page(va2)
    BY <1>5, LowKey
  <2>4. Page(va) \subseteq 0 .. 47 /\ Page(va2) \subseteq 0 .. 47
    BY <1>5, LowKey
  <2> QED
    BY <1>5, <2>2, <2>3, <2>4
<1>6. CASE HighHalf(va) /\ HighHalf(va2)
  BY <1>3, <1>6, HighKey
<1> QED
  BY <1>4, <1>5, <1>6 DEF WellFormedInputs

-----------------------------------------------------------------------------
(* Walks: below the TLB's page size an address selects nothing.            *)

FoundIn(outcomes) == outcomes \ {Fault, Diverges}

\* What a level finds depends on what the level below finds, no more.
LEMMA VisitFound ==
    ASSUME NEW d, NEW level, NEW deeper, NEW deeper2,
           FoundIn(deeper) = FoundIn(deeper2)
    PROVE  FoundIn(Visit(d, level, deeper)) = FoundIn(Visit(d, level, deeper2))
BY DEF Visit, FoundIn

\* Levels 0 to 3 index their tables with bits 12 and up.
LEMMA SamePageSameIndex ==
    ASSUME NEW va, NEW va2, Page(va) = Page(va2), NEW level \in 0 .. 3
    PROVE  Field(va, 39 - 9 * level, 9) = Field(va2, 39 - 9 * level, 9)
<1>1. 39 - 9 * level \in Nat /\ 39 - 9 * level >= 12
  OBVIOUS
<1>2. ASSUME NEW lo \in Nat, lo >= 12, NEW i \in 0 .. 8
      PROVE  lo + i \in va <=> lo + i \in va2
  BY <1>2 DEF Page, ClearLow
<1> QED
  BY <1>1, <1>2 DEF Field

\* No walk finds anything at level 4 or below.
LEMMA NothingAtLevel4 ==
    ASSUME NEW m, NEW table, NEW va
    PROVE  FoundIn(WalkLevel4(m, table, va)) = {}
BY DEF WalkLevel4, Visit, WalkBeyond, FoundIn

\* The addresses of a page find the same region from any table.
LEMMA SamePageSameTableWalk ==
    ASSUME NEW m, NEW va, NEW va2, Page(va) = Page(va2)
    PROVE  \A table : FoundIn(WalkLevel0(m, table, va)) =
                      FoundIn(WalkLevel0(m, table, va2))
<1>a. ASSUME NEW level \in 0 .. 3, NEW table
      PROVE  DescriptorAt(m, table, va, level) = DescriptorAt(m, table, va2, level)
  BY SamePageSameIndex DEF DescriptorAt
<1>3. \A table : FoundIn(WalkLevel3(m, table, va)) = FoundIn(WalkLevel3(m, table, va2))
  BY <1>a, VisitFound, NothingAtLevel4 DEF WalkLevel3
<1>2. \A table : FoundIn(WalkLevel2(m, table, va)) = FoundIn(WalkLevel2(m, table, va2))
  BY <1>a, <1>3, VisitFound DEF WalkLevel2
<1>1. \A table : FoundIn(WalkLevel1(m, table, va)) = FoundIn(WalkLevel1(m, table, va2))
  BY <1>a, <1>2, VisitFound DEF WalkLevel1
<1> QED
  BY <1>a, <1>1, VisitFound DEF WalkLevel0

\* With limits on page boundaries, the addresses of a page use one TTBR.
LEMMA SamePageSameRoot ==
    ASSUME NEW va \in Word(64), NEW va2 \in Word(64), Page(va) = Page(va2),
           NEW size \in 1 .. 52
    PROVE  \A limit \in Limit(size) : Less(va, limit) = Less(va2, limit)
<1>1. Limit(size) = {{64 - size}} /\ 64 - size \in 12 .. 63
  BY DEF Limit
<1>2. ASSUME NEW k \in 12 .. 63, NEW x \in Word(64)
      PROVE  Less(x, {k}) <=> \A b \in ClearLow(x, 12) : b < k
  <2>1. x \subseteq 0 .. 63
    BY DEF Word
  <2>2. Less(x, {k}) <=> k \notin x /\ \A b \in x : b < k \/ b = k
    BY <2>1 DEF Less
  <2> QED
    BY <2>1, <2>2 DEF ClearLow
<1>3. Less(va, {64 - size}) <=> Less(va2, {64 - size})
  BY <1>1, <1>2 DEF Page
<1>4. Less(va, {64 - size}) = Less(va2, {64 - size})
  BY <1>3 DEF Less
<1> QED
  BY <1>1, <1>4

\* The addresses of a page find the same regions.
LEMMA SamePageSameWalk ==
    ASSUME Configured, NEW m,
           NEW va \in VA, NEW va2 \in VA, Page(va) = Page(va2)
    PROVE  FoundIn(Walk(m, va)) = FoundIn(Walk(m, va2))
<1>1. va \in Word(64) /\ va2 \in Word(64)
  BY AddressAssumption
<1>2. VaInTtbr0(va, tcr_) = VaInTtbr0(va2, tcr_)
  BY <1>1, SamePageSameRoot DEF VaInTtbr0, Configured, Supported
<1>3. VaInTtbr1(va, tcr_) = VaInTtbr1(va2, tcr_)
  BY <1>1, SamePageSameRoot DEF VaInTtbr1, Configured, Supported
<1>4. \A table : FoundIn(WalkLevel0(m, table, va)) = FoundIn(WalkLevel0(m, table, va2))
  BY SamePageSameTableWalk
<1> DEFINE From0(v) == WalkLevel0(m, TableBase(ttbr0_), v)
          From1(v) == WalkLevel0(m, TableBase(ttbr1_), v)
<1>5. ASSUME NEW v, NEW region
      PROVE  region \in Walk(m, v) <=>
               \E in0 \in VaInTtbr0(v, tcr_) :
                  \/ in0 /\ region \in From0(v)
                  \/ ~ in0 /\ \E in1 \in VaInTtbr1(v, tcr_) :
                                \/ in1 /\ region \in From1(v)
                                \/ ~ in1 /\ region = Fault
  BY DEF Walk, WalkPageTables
<1>6. \A region : region \in FoundIn(Walk(m, va)) <=> region \in FoundIn(Walk(m, va2))
  <2>1. FoundIn(From0(va)) = FoundIn(From0(va2)) /\ FoundIn(From1(va)) = FoundIn(From1(va2))
    BY <1>4
  <2> HIDE DEF From0, From1
  <2> QED
    BY <1>2, <1>3, <1>5, <2>1 DEF FoundIn
<1> QED
  BY <1>6

-----------------------------------------------------------------------------
(* The invariant: entries are valid, the present memory is always among    *)
(* the contents remembered, and every entry is tagged and justified.  The  *)
(* tags are what makes tlb_invalidate_asid safe, so neither of TlbCoherent *)
(* and AsidTagged can be left out.                                         *)

EntriesValid == \A key \in DOMAIN tlb_ : tlb_[key].valid

MemorySeen == \A p \in Pages \X ASID : memory \in seen[p]

Coherence == TypeOK /\ EntriesValid /\ MemorySeen /\ AsidTagged /\ TlbCoherent

LEMMA CoherenceInit == Init => Coherence
BY TypeInit DEF Init, Coherence, EntriesValid, MemorySeen, AsidTagged, TlbCoherent

\* The present memory is remembered whatever happens.
LEMMA MemorySeenNext == TypeOK /\ MemorySeen /\ [Next]_vars => MemorySeen'
<1> SUFFICES ASSUME TypeOK, MemorySeen, [Next]_vars PROVE MemorySeen'
  OBVIOUS
<1>1. ASSUME NEW covered, Forget(covered), memory' = memory PROVE MemorySeen'
  BY <1>1 DEF Forget, MemorySeen
<1>2. ASSUME memory' = memory, seen' = seen PROVE MemorySeen'
  BY <1>2 DEF MemorySeen
<1>3. ASSUME NEW slot, NEW d, GuestStore(slot, d) PROVE MemorySeen'
  BY <1>3 DEF GuestStore, MemorySeen
<1> QED
  BY <1>1, <1>2, <1>3
     DEF Next, vars, TranslateHit, TranslateMiss, TranslateFault,
         TranslateDiverges, TlbInvalidateVa, TlbInvalidateAsid,
         TlbInvalidateAll, FlushTlb, SetTtbr0, SetTtbr1, SetTcr, ResetStats

\* A miss inserts one entry, and every other entry was there before.
LEMMA MissInserts ==
    ASSUME NEW va, NEW asid, TranslateMiss(va, asid)
    PROVE  \E region \in FoundIn(Walk(memory, va)) :
             /\ \A key \in DOMAIN tlb_' :
                  \/ /\ key = TlbKey(va, asid)
                     /\ tlb_'[key] = NewEntry(va, asid, region)
                  \/ /\ key # TlbKey(va, asid)
                     /\ key \in DOMAIN tlb_ /\ tlb_'[key] = tlb_[key]
<1>1. PICK region \in Walk(memory, va) \ {Fault, Diverges},
           tlb \in Evicted(tlb_) :
         tlb_' = With(tlb, TlbKey(va, asid), NewEntry(va, asid, region))
  BY DEF TranslateMiss
<1>2. \A key \in DOMAIN tlb : key \in DOMAIN tlb_ /\ tlb[key] = tlb_[key]
  BY DEF Evicted, Without
<1>3. region \in FoundIn(Walk(memory, va))
  BY <1>1 DEF FoundIn
<1> QED
  BY <1>1, <1>2, <1>3 DEF With

\* Without a translation, what is in the TLB was there before.
LEMMA NothingElseInserts ==
    ASSUME [Next]_vars, \A va \in VA, asid \in ASID : ~ TranslateMiss(va, asid)
    PROVE  \A key \in DOMAIN tlb_' : key \in DOMAIN tlb_ /\ tlb_'[key] = tlb_[key]
BY DEF Next, vars, TranslateHit, TranslateFault, TranslateDiverges,
       TlbInvalidateVa, TlbInvalidateAsid, TlbInvalidateAll, FlushTlb, SetTtbr0,
       SetTtbr1, SetTcr, ResetStats, GuestStore, Without

LEMMA EntriesValidNext == EntriesValid /\ [Next]_vars => EntriesValid'
<1> SUFFICES ASSUME EntriesValid, [Next]_vars PROVE EntriesValid'
  OBVIOUS
<1>1. ASSUME NEW va \in VA, NEW asid \in ASID, TranslateMiss(va, asid)
      PROVE  EntriesValid'
  BY <1>1, MissInserts DEF EntriesValid, NewEntry
<1>2. CASE \A va \in VA, asid \in ASID : ~ TranslateMiss(va, asid)
  BY <1>2, NothingElseInserts DEF EntriesValid
<1> QED
  BY <1>1, <1>2

\* The entry a miss inserts is tagged, because its key names its ASID.
LEMMA AsidTaggedNext == AsidTagged /\ [Next]_vars => AsidTagged'
<1> SUFFICES ASSUME AsidTagged, [Next]_vars, WellFormedInputs,
                    NEW va \in VA, NEW asid \in ASID, LowHalf(va),
                    TlbKey(va, asid) \in DOMAIN tlb_'
             PROVE  tlb_'[TlbKey(va, asid)].asid = asid
  BY DEF AsidTagged
<1>1. ASSUME NEW va2 \in VA, NEW asid2 \in ASID, TranslateMiss(va2, asid2)
      PROVE  tlb_'[TlbKey(va, asid)].asid = asid
  <2>1. PICK region \in FoundIn(Walk(memory, va2)) :
          \A key \in DOMAIN tlb_' :
            \/ key = TlbKey(va2, asid2) /\ tlb_'[key] = NewEntry(va2, asid2, region)
            \/ /\ key # TlbKey(va2, asid2)
               /\ key \in DOMAIN tlb_ /\ tlb_'[key] = tlb_[key]
    BY <1>1, MissInserts
  <2>2. CASE TlbKey(va, asid) = TlbKey(va2, asid2)
    <3>1. asid2 = asid
      BY <2>2, KeyInjective
    <3> QED
      BY <2>1, <2>2, <3>1 DEF NewEntry
  <2>3. CASE TlbKey(va, asid) # TlbKey(va2, asid2)
    BY <2>1, <2>3 DEF AsidTagged
  <2> QED
    BY <2>2, <2>3
<1>2. CASE \A v \in VA, a \in ASID : ~ TranslateMiss(v, a)
  BY <1>2, NothingElseInserts DEF AsidTagged
<1> QED
  BY <1>1, <1>2

\* A region found by a walk of the page justifies the entry made from it.
LEMMA MissJustified ==
    ASSUME Configured, MemorySeen, NEW va \in VA, NEW asid \in ASID,
           NEW va2 \in VA, NEW asid2 \in ASID, Page(va) = Page(va2),
           NEW region \in FoundIn(Walk(memory, va2))
    PROVE  Justified(va, asid, NewEntry(va2, asid2, region))
<1>1. region \in Walk(memory, va)
  BY SamePageSameWalk DEF FoundIn
<1>2. region \in Aligned
  BY WalkType DEF Walk, FoundIn, Outcomes
<1>3. memory \in seen[<<Page(va), asid>>]
  BY DEF MemorySeen, Pages
<1>4. Agrees(NewEntry(va2, asid2, region), region)
  BY <1>2 DEF Agrees, NewEntry, Aligned, Regions
<1> QED
  BY <1>1, <1>3, <1>4 DEF Justified

\* An entry stays justified while the registers stand and nothing that was
\* remembered for its address is forgotten.
LEMMA StaysJustified ==
    ASSUME NEW va, NEW asid, NEW entry, Justified(va, asid, entry),
           UNCHANGED registers,
           seen[<<Page(va), asid>>] \subseteq seen'[<<Page(va), asid>>]
    PROVE  Justified(va, asid, entry)'
<1>1. PICK m \in seen[<<Page(va), asid>>] : \E region \in Walk(m, va) :
        Agrees(entry, region)
  BY DEF Justified
<1>2. Walk(m, va)' = Walk(m, va)
  BY DEF Walk, registers
<1> QED
  BY <1>1, <1>2 DEF Justified

\* An invalidation by address forgets nothing of an entry it leaves.
LEMMA InvalidateVaForgets ==
    ASSUME NEW va \in VA, NEW asid \in ASID, NEW va2 \in VA, NEW asid2 \in ASID,
           WellFormedInputs, TlbKey(va, asid) # TlbKey(va2, asid2)
    PROVE  <<Page(va2), asid2>> \notin CoveredByVa(va, asid)
<1> SUFFICES ASSUME <<Page(va2), asid2>> \in CoveredByVa(va, asid) PROVE FALSE
  OBVIOUS
<1>1. Page(va2) = Page(va) /\ (HighHalf(va) \/ asid2 = asid)
  BY DEF CoveredByVa
<1>2. CASE asid2 = asid
  BY <1>1, <1>2 DEF TlbKey, Page
<1>3. CASE HighHalf(va)
  <2>1. HighHalf(va2)
    <3>1. HighHalf(Page(va2))
      BY <1>1, <1>3, HighKey
    <3> QED
      BY <3>1 DEF HighHalf, Page, ClearLow
  <2> QED
    BY <1>1, <1>3, <2>1, HighKey
<1> QED
  BY <1>1, <1>2, <1>3

\* The step of the main invariant, for one address and one ASID.
LEMMA TlbCoherentNext == Coherence /\ [Next]_vars => TlbCoherent'
<1> SUFFICES ASSUME Coherence, [Next]_vars, WellFormedInputs, Configured',
                    NEW va \in VA, NEW asid \in ASID,
                    TlbKey(va, asid) \in DOMAIN tlb_'
             PROVE  Justified(va, asid, tlb_[TlbKey(va, asid)])'
  BY DEF TlbCoherent
<1> DEFINE key == TlbKey(va, asid)
           place == <<Page(va), asid>>
<1> HIDE DEF key, place
<1>k. key \in DOMAIN tlb_'
  BY DEF key
<1>p. place \in Pages \X ASID
  BY DEF place, Pages
<1>1. ASSUME UNCHANGED registers, key \in DOMAIN tlb_, tlb_'[key] = tlb_[key],
             seen[place] \subseteq seen'[place]
      PROVE  Justified(va, asid, tlb_[key])'
  <2>1. Configured
    BY <1>1 DEF Configured, registers
  <2>2. Justified(va, asid, tlb_[key])
    BY <1>1, <2>1 DEF Coherence, TlbCoherent, key
  <2> QED
    BY <1>1, <2>2, StaysJustified DEF place, Justified
<1>2. ASSUME NEW va2 \in VA, NEW asid2 \in ASID, TranslateMiss(va2, asid2)
      PROVE  Justified(va, asid, tlb_[key])'
  <2>1. UNCHANGED registers /\ UNCHANGED seen
    BY <1>2 DEF TranslateMiss
  <2>2. PICK region \in FoundIn(Walk(memory, va2)) :
          \A k \in DOMAIN tlb_' :
            \/ k = TlbKey(va2, asid2) /\ tlb_'[k] = NewEntry(va2, asid2, region)
            \/ /\ k # TlbKey(va2, asid2)
               /\ k \in DOMAIN tlb_ /\ tlb_'[k] = tlb_[k]
    BY <1>2, MissInserts
  <2>3. CASE key = TlbKey(va2, asid2)
    <3>1. Page(va) = Page(va2)
      BY <2>3, KeyInjective DEF key
    <3>2. Configured
      BY <2>1 DEF Configured, registers
    <3>3. Justified(va, asid, NewEntry(va2, asid2, region))
      BY <3>1, <3>2, MissJustified DEF Coherence
    <3>4. Justified(va, asid, NewEntry(va2, asid2, region))'
      <4> DEFINE entry == NewEntry(va2, asid2, region)
      <4> HIDE DEF entry
      <4>1. Justified(va, asid, entry)'
        BY <2>1, <3>3, StaysJustified DEF entry
      <4> QED
        BY <4>1 DEF entry
    <3>5. tlb_'[key] = NewEntry(va2, asid2, region)
      BY <1>k, <2>2, <2>3
    <3> QED
      BY <3>4, <3>5 DEF Justified
  <2>4. CASE key # TlbKey(va2, asid2)
    BY <1>k, <1>1, <2>1, <2>2, <2>4
  <2> QED
    BY <2>3, <2>4
<1>3. ASSUME NEW va2 \in VA, NEW asid2 \in ASID, TlbInvalidateVa(va2, asid2)
      PROVE  Justified(va, asid, tlb_[key])'
  <2>1. key # TlbKey(va2, asid2) /\ key \in DOMAIN tlb_ /\ tlb_'[key] = tlb_[key]
    BY <1>k, <1>3 DEF TlbInvalidateVa, Without
  <2>2. place \notin CoveredByVa(va2, asid2)
    BY <2>1, InvalidateVaForgets DEF key, place
  <2>3. seen'[place] = seen[place]
    BY <1>3, <1>p, <2>2 DEF TlbInvalidateVa, Forget
  <2> QED
    BY <1>1, <1>3, <2>1, <2>3 DEF TlbInvalidateVa
<1>4. ASSUME NEW asid2 \in ASID \cup {AllAsids}, TlbInvalidateAsid(asid2)
      PROVE  Justified(va, asid, tlb_[key])'
  <2>1. /\ key \in DOMAIN tlb_ /\ tlb_'[key] = tlb_[key]
        /\ asid2 # AllAsids /\ tlb_[key].asid # asid2
    BY <1>k, <1>4 DEF TlbInvalidateAsid, Without, Coherence, EntriesValid
  <2>2. LowHalf(va) => tlb_[key].asid = asid
    BY <2>1 DEF Coherence, AsidTagged, key
  <2>3. LowHalf(Page(va)) => LowHalf(va)
    BY DEF LowHalf, Page, ClearLow
  <2>4. place \notin CoveredByAsid(asid2)
    BY <2>1, <2>2, <2>3 DEF CoveredByAsid, place
  <2>5. seen'[place] = seen[place]
    BY <1>4, <1>p, <2>4 DEF TlbInvalidateAsid, Forget
  <2> QED
    BY <1>1, <1>4, <2>1, <2>5 DEF TlbInvalidateAsid
<1>5. ASSUME FlushTlb
      PROVE  FALSE
  BY <1>k, <1>5 DEF FlushTlb
<1>6. ASSUME NEW slot, NEW d, GuestStore(slot, d)
      PROVE  Justified(va, asid, tlb_[key])'
  <2>1. seen[place] \subseteq seen'[place]
    BY <1>6, <1>p DEF GuestStore
  <2> QED
    BY <1>k, <1>1, <1>6, <2>1 DEF GuestStore
<1>7. ASSUME UNCHANGED <<registers, tlb_, seen>>
      PROVE  Justified(va, asid, tlb_[key])'
  BY <1>k, <1>1, <1>7
<1>8. Justified(va, asid, tlb_[key])'
  BY <1>2, <1>3, <1>4, <1>5, <1>6, <1>7
     DEF Next, vars, TranslateHit, TranslateFault, TranslateDiverges,
         TlbInvalidateAll, SetTtbr0, SetTtbr1, SetTcr, ResetStats
<1> QED
  BY <1>8 DEF key

LEMMA CoherenceNext == Coherence /\ [Next]_vars => Coherence'
BY TypeNext, EntriesValidNext, MemorySeenNext, AsidTaggedNext, TlbCoherentNext
   DEF Coherence

\* After any sequence of translations, guest stores, register writes and
\* invalidations, what the TLB holds for an address is what a walk finds in
\* memory as it was since the invalidation that last covered it.
THEOREM TlbCorrect == Spec => []TlbCoherent
<1>1. Coherence => TlbCoherent
  BY DEF Coherence
<1> QED
  BY <1>1, CoherenceInit, CoherenceNext, PTL DEF Spec

\* No low-half address ever hits an entry of another address space.
THEOREM TagsCorrect == Spec => []AsidTagged
<1>1. Coherence => AsidTagged
  BY DEF Coherence
<1> QED
  BY <1>1, CoherenceInit, CoherenceNext, PTL DEF Spec

-----------------------------------------------------------------------------
(* What a hit is worth, from the invariant                                 *)

\* A guest that owes no invalidation cannot tell the TLB is there: what a
\* hit would return is what the walk of memory as it is now returns, and
\* that walk has no other outcome.
Transparent ==
    WellFormedInputs /\ Configured =>
        \A va \in VA, asid \in ASID :
            Hit(va, asid) /\ seen[<<Page(va), asid>>] = {memory} =>
                \A outcome \in Walk(memory, va) :
                    Agrees(tlb_[TlbKey(va, asid)], outcome)

\* The guest's invalidations are enough: after the one that covers its last
\* store, translate answers as a walk would (translate_with_attributes).
THEOREM TransparentCorrect == Spec => []Transparent
<1>1. ASSUME Coherence, WellFormedInputs, Configured,
             NEW va \in VA, NEW asid \in ASID, Hit(va, asid),
             seen[<<Page(va), asid>>] = {memory}
      PROVE  \A outcome \in Walk(memory, va) :
               Agrees(tlb_[TlbKey(va, asid)], outcome)
  <2>1. Justified(va, asid, tlb_[TlbKey(va, asid)])
    BY <1>1 DEF Coherence, TlbCoherent, Hit
  <2>2. PICK region \in Walk(memory, va) : Agrees(tlb_[TlbKey(va, asid)], region)
    BY <1>1, <2>1 DEF Justified
  <2>3. region \notin {Fault, Diverges}
    BY <2>2 DEF Agrees, Fault, Diverges
  <2>4. Walk(memory, va) = {region}
    BY <1>1, <2>3, WalkDecided DEF Decided
  <2> QED
    BY <2>2, <2>4
<1>2. Coherence => Transparent
  BY <1>1 DEF Transparent
<1> QED
  BY <1>2, CoherenceInit, CoherenceNext, PTL DEF Spec

\* An invalidation reaches the translations it names and no others.
THEOREM ReachCorrect == Spec => InvalidationReach
<1> DEFINE Reaches ==
      WellFormedInputs =>
         \A va, other \in VA, asid, space \in ASID :
            TlbKey(other, space) \in DOMAIN tlb_ =>
              LET dropped == TlbKey(other, space) \notin DOMAIN tlb_'
              IN  /\ TlbInvalidateVa(va, asid) =>
                       (dropped <=> /\ Page(other) = Page(va)
                                    /\ HighHalf(va) \/ space = asid)
                  /\ TlbInvalidateAsid(asid) /\ LowHalf(other) =>
                       (dropped <=> space = asid)
                  /\ TlbInvalidateAsid(AllAsids) => dropped
<1>1. ASSUME Coherence, WellFormedInputs,
             NEW va \in VA, NEW other \in VA, NEW asid \in ASID, NEW space \in ASID,
             TlbKey(other, space) \in DOMAIN tlb_, TlbInvalidateVa(va, asid)
      PROVE  TlbKey(other, space) \notin DOMAIN tlb_' <=>
               /\ Page(other) = Page(va)
               /\ HighHalf(va) \/ space = asid
  <2>1. TlbKey(other, space) \notin DOMAIN tlb_' <=>
          TlbKey(other, space) = TlbKey(va, asid)
    BY <1>1 DEF TlbInvalidateVa, Without
  <2>2. CASE TlbKey(other, space) = TlbKey(va, asid)
    BY <1>1, <2>1, <2>2, KeyInjective DEF WellFormedInputs
  <2>3. CASE TlbKey(other, space) # TlbKey(va, asid)
    <3>1. <<Page(other), space>> \notin CoveredByVa(va, asid)
      BY <1>1, <2>3, InvalidateVaForgets
    <3> QED
      BY <2>1, <2>3, <3>1 DEF CoveredByVa
  <2> QED
    BY <2>2, <2>3
<1>2. ASSUME Coherence, WellFormedInputs, NEW other \in VA, NEW space \in ASID,
             TlbKey(other, space) \in DOMAIN tlb_,
             NEW asid, TlbInvalidateAsid(asid)
      PROVE  TlbKey(other, space) \notin DOMAIN tlb_' <=>
               tlb_[TlbKey(other, space)].asid = asid \/ asid = AllAsids
  BY <1>1, <1>2 DEF TlbInvalidateAsid, Without, Coherence, EntriesValid
<1>3. ASSUME Coherence, WellFormedInputs, NEW other \in VA, NEW space \in ASID,
             TlbKey(other, space) \in DOMAIN tlb_, LowHalf(other),
             NEW asid \in ASID, TlbInvalidateAsid(asid)
      PROVE  TlbKey(other, space) \notin DOMAIN tlb_' <=> space = asid
  <2>1. tlb_[TlbKey(other, space)].asid = space
    BY <1>3 DEF Coherence, AsidTagged
  <2>2. asid # AllAsids
    BY <1>3 DEF WellFormedInputs
  <2> QED
    BY <1>2, <1>3, <2>1, <2>2
<1>4. Coherence => Reaches
  BY <1>1, <1>2, <1>3
<1>5. Coherence /\ [Next]_vars => [Reaches]_vars
  BY <1>4
<1> QED
  BY <1>5, CoherenceInit, CoherenceNext, PTL DEF Spec, InvalidationReach

-----------------------------------------------------------------------------
(* How far the entries match: TLBEntry::matches is never called, and       *)
(* HitsMatch fails for kernel pages.  This is where it holds.              *)

\* An entry names the block of every address that hits it.
EntriesNamed ==
    WellFormedInputs =>
        \A va \in VA, asid \in ASID :
            LET entry == tlb_[TlbKey(va, asid)]
            IN  TlbKey(va, asid) \in DOMAIN tlb_ =>
                    /\ entry.virtual_address = ClearLow(va, entry.size)
                    /\ entry.size \in Sizes

LEMMA EntriesNamedNext == EntriesNamed /\ [Next]_vars => EntriesNamed'
<1> SUFFICES ASSUME EntriesNamed, [Next]_vars, WellFormedInputs,
                    NEW va \in VA, NEW asid \in ASID,
                    TlbKey(va, asid) \in DOMAIN tlb_'
             PROVE  LET entry == tlb_'[TlbKey(va, asid)]
                    IN  /\ entry.virtual_address = ClearLow(va, entry.size)
                        /\ entry.size \in Sizes
  BY DEF EntriesNamed
<1>1. ASSUME NEW va2 \in VA, NEW asid2 \in ASID, TranslateMiss(va2, asid2),
             TlbKey(va, asid) = TlbKey(va2, asid2)
      PROVE  LET entry == tlb_'[TlbKey(va, asid)]
             IN  /\ entry.virtual_address = ClearLow(va, entry.size)
                 /\ entry.size \in Sizes
  <2>1. PICK region \in FoundIn(Walk(memory, va2)) :
          tlb_'[TlbKey(va, asid)] = NewEntry(va2, asid2, region)
    BY <1>1, MissInserts
  <2>2. region.size \in {12, 21, 30}
    BY WalkType DEF Walk, FoundIn, Outcomes, Aligned, Regions, Sizes
  <2>3. Page(va) = Page(va2)
    BY <1>1, KeyInjective
  <2>4. va \subseteq 0 .. 63 /\ va2 \subseteq 0 .. 63
    BY AddressAssumption DEF Word
  <2>5. ClearLow(va, region.size) = ClearLow(va2, region.size)
    <3>1. \A b \in 0 .. 63 : 12 <= b => (b \in va <=> b \in va2)
      BY <2>3 DEF Page, ClearLow
    <3>2. \A b \in 0 .. 63 : region.size <= b => 12 <= b
      BY <2>2
    <3> QED
      BY <2>4, <3>1, <3>2 DEF ClearLow
  <2> QED
    BY <2>1, <2>2, <2>5 DEF NewEntry, Sizes
<1>2. CASE \E va2 \in VA, asid2 \in ASID : TranslateMiss(va2, asid2)
  <2> PICK va2 \in VA, asid2 \in ASID : TranslateMiss(va2, asid2)
    BY <1>2
  <2>1. CASE TlbKey(va, asid) # TlbKey(va2, asid2)
    <3>1. /\ TlbKey(va, asid) \in DOMAIN tlb_
          /\ tlb_'[TlbKey(va, asid)] = tlb_[TlbKey(va, asid)]
      BY <2>1, MissInserts
    <3> QED
      BY <3>1 DEF EntriesNamed
  <2> QED
    BY <1>1, <2>1
<1>3. CASE \A va2 \in VA, asid2 \in ASID : ~ TranslateMiss(va2, asid2)
  <2>1. /\ TlbKey(va, asid) \in DOMAIN tlb_
        /\ tlb_'[TlbKey(va, asid)] = tlb_[TlbKey(va, asid)]
    BY <1>3, NothingElseInserts
  <2> QED
    BY <2>1 DEF EntriesNamed
<1> QED
  BY <1>2, <1>3

\* A low-half translation only hits an entry that matches it; one of the
\* kernel hits an entry that matches it in all but, perhaps, the ASID.
HitsMatchButKernel ==
    WellFormedInputs =>
        \A va \in VA, asid \in ASID :
            LET entry == tlb_[TlbKey(va, asid)]
            IN  TlbKey(va, asid) \in DOMAIN tlb_ =>
                    /\ Matches(entry, va, entry.asid)
                    /\ LowHalf(va) => Matches(entry, va, asid)

\* The rule of TLBEntry::matches is kept by every hit of a process's pages,
\* though no code enforces it, and a kernel page is short of it only in the
\* ASID: the failure of HitsMatch has no other cause.
THEOREM HitsMatchCorrect == Spec => []HitsMatchButKernel
<1>1. Init => EntriesNamed
  BY DEF Init, EntriesNamed
<1>2. ASSUME Coherence, EntriesNamed, WellFormedInputs,
             NEW va \in VA, NEW asid \in ASID, TlbKey(va, asid) \in DOMAIN tlb_
      PROVE  LET entry == tlb_[TlbKey(va, asid)]
             IN  /\ Matches(entry, va, entry.asid)
                 /\ LowHalf(va) => Matches(entry, va, asid)
  <2> DEFINE entry == tlb_[TlbKey(va, asid)]
  <2>1. entry.valid /\ (LowHalf(va) => entry.asid = asid)
    BY <1>2 DEF Coherence, EntriesValid, AsidTagged
  <2>2. entry.virtual_address = ClearLow(va, entry.size)
    BY <1>2 DEF EntriesNamed
  <2>3. ClearLow(entry.virtual_address, entry.size) = ClearLow(va, entry.size)
    BY <2>2 DEF ClearLow
  <2> QED
    BY <2>1, <2>3 DEF Matches
<1>3. Coherence /\ EntriesNamed => HitsMatchButKernel
  BY <1>2 DEF HitsMatchButKernel
<1> QED
  BY <1>1, <1>3, EntriesNamedNext, CoherenceInit, CoherenceNext, PTL DEF Spec

-----------------------------------------------------------------------------
(* How far the region reported is complete: a hit loses `shareable`        *)
(* (finding RegionComplete), and nothing else.                             *)

RegionButShareable ==
    WellFormedInputs /\ Configured /\ reply.kind = "mapped" =>
        \E m \in seen[<<Page(reply.va), reply.asid>>] :
            \E region \in Walk(m, reply.va) :
                reply.region = [region EXCEPT !.shareable = reply.region.shareable]

\* What one translation reports.
LEMMA RegionReported ==
    ASSUME Coherence, WellFormedInputs, NEW va \in VA, NEW asid \in ASID,
           TranslateHit(va, asid) \/ TranslateMiss(va, asid)
    PROVE  RegionButShareable'
<1> SUFFICES ASSUME Configured'
             PROVE  \E m \in seen[<<Page(va), asid>>] :
                      \E region \in Walk(m, va) :
                        /\ reply'.va = va /\ reply'.asid = asid
                        /\ reply'.region =
                             [region EXCEPT !.shareable = reply'.region.shareable]
  <2>1. UNCHANGED <<registers, seen>>
    BY DEF TranslateHit, TranslateMiss
  <2>2. \A m, v : Walk(m, v)' = Walk(m, v)
    BY <2>1 DEF Walk, registers
  <2> QED
    BY <2>1, <2>2 DEF RegionButShareable
<1>0. Configured
  BY DEF TranslateHit, TranslateMiss, Configured, registers
<1>1. CASE TranslateHit(va, asid)
  <2> DEFINE entry == tlb_[TlbKey(va, asid)]
  <2>1. TlbKey(va, asid) \in DOMAIN tlb_ /\ reply' = Mapped(va, asid, TRUE, CachedRegion(entry))
    BY <1>1 DEF TranslateHit, Hit
  <2>2. Justified(va, asid, entry)
    BY <1>0, <2>1 DEF Coherence, TlbCoherent
  <2> HIDE DEF entry
  <2>a. PICK m \in seen[<<Page(va), asid>>] :
          \E region \in Walk(m, va) : Agrees(entry, region)
    BY <2>2 DEF Justified
  <2>3. PICK region \in Walk(m, va) : Agrees(entry, region)
    BY <2>a
  <2>4. region \in Regions
    BY <2>3, WalkType DEF Walk, Outcomes, Aligned, Agrees, Fault, Diverges
  <2>5. CachedRegion(entry) = [region EXCEPT !.shareable = FALSE]
    <3> DEFINE cached == CachedRegion(entry)
    <3>1. cached \in Regions
      BY <2>1, CachedRegionType DEF Coherence, TypeOK, entry
    <3>2. /\ cached.base = region.base /\ cached.size = region.size
          /\ cached.type = region.type /\ cached.ap = region.ap
          /\ cached.shareable = FALSE
      BY <2>3 DEF CachedRegion, Agrees
    <3> HIDE DEF cached
    <3>3. cached = [region EXCEPT !.shareable = FALSE]
      BY <2>4, <3>1, <3>2 DEF Regions
    <3> QED
      BY <3>3 DEF cached
  <2>6. /\ reply'.va = va /\ reply'.asid = asid
        /\ reply'.region = CachedRegion(entry)
    BY <2>1 DEF Mapped
  <2>7. CachedRegion(entry).shareable = FALSE
    BY DEF CachedRegion
  <2> QED
    BY <2>3, <2>5, <2>6, <2>7
<1>2. CASE TranslateMiss(va, asid)
  <2>1. PICK region \in Walk(memory, va) \ {Fault, Diverges} :
          reply' = Mapped(va, asid, FALSE, region)
    BY <1>2 DEF TranslateMiss
  <2>2. region \in Regions
    BY WalkType DEF Walk, Outcomes, Aligned
  <2>3. reply'.va = va /\ reply'.asid = asid /\ reply'.region = region
    BY <2>1 DEF Mapped
  <2>4. region = [region EXCEPT !.shareable = region.shareable]
    BY <2>2 DEF Regions
  <2>5. memory \in seen[<<Page(va), asid>>]
    BY DEF Coherence, MemorySeen, Pages
  <2> QED
    BY <2>1, <2>3, <2>4, <2>5
<1> QED
  BY <1>1, <1>2

\* The region translate_with_attributes fills in is, but for `shareable`, one
\* a walk finds in memory as it was since the last invalidation.
THEOREM RegionCorrect == Spec => []RegionButShareable
<1>1. Init => RegionButShareable
  BY DEF Init, NoReply, RegionButShareable
<1>2. ASSUME Coherence, RegionButShareable, [Next]_vars
      PROVE  RegionButShareable'
  <2> SUFFICES ASSUME WellFormedInputs PROVE RegionButShareable'
    BY DEF RegionButShareable
  <2>1. CASE \E va \in VA, asid \in ASID :
               TranslateHit(va, asid) \/ TranslateMiss(va, asid)
    BY <1>2, <2>1, RegionReported
  <2>2. CASE UNCHANGED vars
    BY <1>2, <2>2 DEF vars, registers, RegionButShareable, Configured, Walk
  <2>3. ASSUME reply'.kind # "mapped" PROVE RegionButShareable'
    BY <2>3 DEF RegionButShareable
  <2>4. NoReply.kind # "mapped"
    BY DEF NoReply
  <2>5. ASSUME reply' = NoReply PROVE RegionButShareable'
    BY <2>3, <2>4, <2>5
  <2>6. ASSUME NEW va \in VA, NEW asid \in ASID, TranslateFault(va, asid)
        PROVE  RegionButShareable'
    BY <2>3, <2>6 DEF TranslateFault
  <2> QED
    BY <1>2, <2>1, <2>2, <2>5, <2>6
       DEF Next, TranslateDiverges, TlbInvalidateVa,
           TlbInvalidateAsid, TlbInvalidateAll, SetTtbr0, SetTtbr1, SetTcr,
           ResetStats, GuestStore
<1> QED
  BY <1>1, <1>2, CoherenceInit, CoherenceNext, PTL DEF Spec
=============================================================================
