------------------------ MODULE MMURefinementProofs ------------------------
(***************************************************************************)
(* MMUEmulator implements TranslationService, for every value of the       *)
(* constants, under the inputs of WellFormedInputs.                        *)
(***************************************************************************)
EXTENDS MMUCoherenceProofs

\* The initial states correspond.
LEMMA ServiceInit == Init => Service!Init
BY DEF Init, NoReply, Answer, Pages, Service!Init, Service!NoAnswer, Service!Pages

\* A translation to a well-typed region is one of the service's.
LEMMA TranslationType ==
    ASSUME NEW va \in VA, NEW asid \in ASID, NEW region \in Regions
    PROVE  Translation(va, asid, region) \in Translations
<1>1. va \in Word(64) /\ region.base \in Word(64)
  BY AddressAssumption DEF Regions
<1>2. region.base \cup LowBits(va, region.size) \in Word(64)
  BY <1>1, WordOperations DEF Word
<1> QED
  BY <1>2 DEF Translation, Translations, Regions

\* The answer made from a mapped reply is the translation to its region.
LEMMA AnswerOfMapped ==
    ASSUME NEW va, NEW asid, NEW hit, NEW region,
           reply' = Mapped(va, asid, hit, region)
    PROVE  Answer' = Translation(va, asid, region)
BY DEF Mapped, Answer, Translation

\* A hit: the entry is justified by a walk of remembered contents, or TCR is
\* not configured and any translation will do.
LEMMA HitRefines ==
    ASSUME WellFormedInputs, Coherence,
           NEW va \in VA, NEW asid \in ASID, TranslateHit(va, asid)
    PROVE  Service!Translate(va, asid)
<1> DEFINE entry == tlb_[TlbKey(va, asid)]
<1>1. /\ TlbKey(va, asid) \in DOMAIN tlb_
      /\ reply' = Mapped(va, asid, TRUE, CachedRegion(entry))
      /\ UNCHANGED <<registers, memory, seen>>
  BY DEF TranslateHit, Hit
<1>2. Answer' = Translation(va, asid, CachedRegion(entry))
  BY <1>1, AnswerOfMapped
<1>3. CASE Configured
  <2>1. Justified(va, asid, entry)
    BY <1>1, <1>3 DEF Coherence, TlbCoherent
  <2>2. PICK m \in seen[<<Page(va), asid>>] :
          \E region \in Walk(m, va) : Agrees(entry, region)
    BY <2>1 DEF Justified
  <2> PICK region \in Walk(m, va) : Agrees(entry, region)
    BY <2>2
  <2>3. region \in Walk(m, va) \ {Fault, Diverges}
    BY DEF Agrees, Fault, Diverges
  <2>4. Translation(va, asid, CachedRegion(entry)) = Translation(va, asid, region)
    BY DEF Agrees, CachedRegion, Translation
  <2>5. Answer' \in Found(ttbr0_, ttbr1_, tcr_, m, va, asid)
    BY <1>2, <2>3, <2>4 DEF Walk, Found
  <2> QED
    BY <1>1, <2>5 DEF Service!Translate, Service!registers, registers
<1>4. CASE ~ Configured
  <2>1. entry \in Entries
    BY <1>1 DEF Coherence, TypeOK
  <2>2. CachedRegion(entry) \in Regions
    BY <2>1, CachedRegionType
  <2> HIDE DEF entry
  <2>3. Translation(va, asid, CachedRegion(entry)) \in Translations
    BY <2>2, TranslationType
  <2> QED
    BY <1>1, <1>2, <1>4, <2>3
       DEF Configured, Service!Translate, Service!registers, registers
<1> QED
  BY <1>3, <1>4

\* A miss: the walk read memory as it is, which is remembered.
LEMMA MissRefines ==
    ASSUME Coherence, NEW va \in VA, NEW asid \in ASID, TranslateMiss(va, asid)
    PROVE  Service!Translate(va, asid)
<1>1. PICK region \in Walk(memory, va) \ {Fault, Diverges} :
        reply' = Mapped(va, asid, FALSE, region)
  BY DEF TranslateMiss
<1>2. Answer' = Translation(va, asid, region)
  BY <1>1, AnswerOfMapped
<1>3. memory \in seen[<<Page(va), asid>>]
  BY DEF Coherence, MemorySeen, Pages
<1>4. Answer' \in Found(ttbr0_, ttbr1_, tcr_, memory, va, asid)
  BY <1>2 DEF Walk, Found
<1>5. UNCHANGED <<registers, memory, seen>>
  BY DEF TranslateMiss
<1> QED
  BY <1>3, <1>4, <1>5 DEF Service!Translate, Service!registers, registers

\* A fault comes from memory as it is.
LEMMA FaultRefines ==
    ASSUME NEW va, NEW asid, TranslateFault(va, asid)
    PROVE  Service!Translate(va, asid)
<1>1. Answer' = [kind |-> "fault", va |-> va, asid |-> asid]
  BY DEF TranslateFault, Answer
<1>2. Faults(ttbr0_, ttbr1_, tcr_, memory, va)
  BY DEF TranslateFault, Walk, Faults
<1>3. UNCHANGED <<registers, memory, seen>>
  BY DEF TranslateFault
<1> QED
  BY <1>1, <1>2, <1>3 DEF Service!Translate, Service!registers, registers

LEMMA ForgetRefines ==
    ASSUME NEW covered, Forget(covered)
    PROVE  Service!Forget(covered)
BY DEF Forget, Service!Forget, Pages, Service!Pages

LEMMA NoReplyRefines ==
    ASSUME reply' = NoReply
    PROVE  Answer' = Service!NoAnswer
BY DEF NoReply, Answer, Service!NoAnswer

\* Every step is a step of the service, or one it does not see.
LEMMA ServiceNext ==
    ASSUME WellFormedInputs, Coherence, [Next]_vars
    PROVE  [Service!Next]_(Service!vars)
<1> USE DEF Service!registers, registers
<1>1. ASSUME NEW va \in VA, NEW asid \in ASID,
             \/ TranslateHit(va, asid) \/ TranslateMiss(va, asid)
             \/ TranslateFault(va, asid)
      PROVE  Service!Next
  BY <1>1, HitRefines, MissRefines, FaultRefines DEF Service!Next
<1>2. ASSUME NEW va \in VA, NEW asid \in ASID, TranslateDiverges(va, asid)
      PROVE  Service!Next
  BY <1>2, NoReplyRefines DEF TranslateDiverges, Service!Silent, Service!Next
<1>3. ASSUME NEW va \in VA, NEW asid \in ASID, TlbInvalidateVa(va, asid)
      PROVE  Service!Next
  <2>1. Service!InvalidateVa(va, asid)
    BY <1>3, ForgetRefines, NoReplyRefines
       DEF TlbInvalidateVa, CoveredByVa, Service!InvalidateVa
  <2> QED
    BY <2>1 DEF Service!Next
<1>4. ASSUME NEW asid \in ASID \cup {AllAsids}, TlbInvalidateAsid(asid)
      PROVE  Service!Next
  <2>1. Service!InvalidateAsid(asid)
    BY <1>4, ForgetRefines, NoReplyRefines
       DEF TlbInvalidateAsid, CoveredByAsid, Service!InvalidateAsid, Pages,
           Service!Pages
  <2> QED
    BY <2>1 DEF Service!Next
<1>5. ASSUME FlushTlb, reply' = NoReply, UNCHANGED memory,
             NEW ttbr0, NEW ttbr1, NEW tcr,
             ttbr0_' = ttbr0, ttbr1_' = ttbr1, tcr_' = tcr
      PROVE  Service!Configure(ttbr0, ttbr1, tcr)
  BY <1>5, ForgetRefines, NoReplyRefines
     DEF FlushTlb, Service!Configure, Pages, Service!Pages
<1>6. CASE TlbInvalidateAll
  <2>1. Service!Configure(ttbr0_, ttbr1_, tcr_)
    BY <1>5, <1>6 DEF TlbInvalidateAll
  <2> QED
    BY <2>1 DEF Service!Next
<1>7. ASSUME NEW value \in TTBR, SetTtbr0(value)
      PROVE  Service!Next
  <2>1. Service!Configure(value, ttbr1_, tcr_)
    BY <1>5, <1>7 DEF SetTtbr0
  <2> QED
    BY <2>1 DEF Service!Next
<1>8. ASSUME NEW value \in TTBR, SetTtbr1(value)
      PROVE  Service!Next
  <2>1. Service!Configure(ttbr0_, value, tcr_)
    BY <1>5, <1>8 DEF SetTtbr1
  <2> QED
    BY <2>1 DEF Service!Next
<1>9. ASSUME NEW value \in TCR, SetTcr(value)
      PROVE  Service!Next
  <2>1. Service!Configure(ttbr0_, ttbr1_, value)
    BY <1>5, <1>9 DEF SetTcr
  <2> QED
    BY <2>1 DEF Service!Next
<1>10. CASE ResetStats
  BY <1>10, NoReplyRefines DEF ResetStats, Service!Silent, Service!Next
<1>11. ASSUME NEW store \in Stores, GuestStore(store[1], store[2])
       PROVE  Service!Next
  <2>1. Service!Store(store[1], store[2])
    BY <1>11, NoReplyRefines DEF GuestStore, Service!Store, Pages, Service!Pages
  <2> QED
    BY <2>1 DEF Service!Next
<1>12. CASE UNCHANGED vars
  BY <1>12 DEF vars, Service!vars, Answer
<1> QED
  BY <1>1, <1>2, <1>3, <1>4, <1>6, <1>7, <1>8, <1>9, <1>10, <1>11, <1>12
     DEF Next

\* The emulator with its TLB implements the translation service without one.
THEOREM Refinement == WellFormedInputs => (Spec => ImplementsService)
<1> SUFFICES ASSUME WellFormedInputs PROVE Spec => ImplementsService
  OBVIOUS
<1> QED
  BY ServiceInit, CoherenceInit, CoherenceNext, ServiceNext, PTL
     DEF Spec, ImplementsService, Service!Spec
=============================================================================
