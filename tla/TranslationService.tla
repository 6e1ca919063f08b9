------------------------- MODULE TranslationService -------------------------
(***************************************************************************)
(* What MMUEmulator promises the hypervisor that calls it: translations of *)
(* the guest's page tables, with no TLB in sight.  A cache may answer from *)
(* page tables the guest has changed since, but only until the guest       *)
(* invalidates: an answer comes from contents memory had since the last    *)
(* invalidation that covers the page and the address space, under the      *)
(* registers as they are now; a fault comes from memory as it is now.      *)
(***************************************************************************)
CONSTANTS
    VA, ASID,             \* addresses and address spaces
    AllAsids,             \* the ASID that stands for every address space
    TTBR, TCR,            \* values written to the translation registers
    Slots, Stores,        \* the guest's page tables and its stores to them
    Page(_),              \* the page of an address
    HighHalf(_),          \* is the address the kernel's, in every space?
    LowHalf(_),           \* is the address a process's, in its own space?
    Supported(_),         \* the values of TCR the service answers for
    Translations,         \* every translation there may be
    Found(_, _, _, _, _, _),  \* the translations a walk may find, and
    Faults(_, _, _, _, _)     \* whether it may fault, given the registers,
                              \* the memory, the address (and the ASID)

VARIABLES
    ttbr0_, ttbr1_, tcr_,  \* the translation registers
    memory,                \* the page tables in guest memory
    seen,                  \* for a page and an ASID, the contents of memory
                           \* since the last invalidation that covers them
    answer                 \* what the last call returned, if a translation

registers == <<ttbr0_, ttbr1_, tcr_>>

vars == <<registers, memory, seen, answer>>

Pages == {Page(va) : va \in VA}

NoAnswer == [kind |-> "none"]

Init ==
    /\ ttbr0_ = {} /\ ttbr1_ = {} /\ tcr_ = {}
    /\ memory = [slot \in Slots |-> {}]
    /\ seen = [p \in Pages \X ASID |-> {memory}]
    /\ answer = NoAnswer

Translate(va, asid) ==
    /\ UNCHANGED <<registers, memory, seen>>
    /\ \/ \E m \in seen[<<Page(va), asid>>] :
            answer' \in Found(ttbr0_, ttbr1_, tcr_, m, va, asid)
       \/ ~ Supported(tcr_) /\ answer' \in Translations
       \/ /\ answer' = [kind |-> "fault", va |-> va, asid |-> asid]
          /\ Faults(ttbr0_, ttbr1_, tcr_, memory, va)

Forget(covered) ==
    seen' = [p \in Pages \X ASID |->
               IF p \in covered THEN {memory} ELSE seen[p]]

\* The pages of the high half are the kernel's, in every address space: an
\* invalidation by address serves all of them, one by ASID none.
InvalidateVa(va, asid) ==
    /\ answer' = NoAnswer
    /\ UNCHANGED <<registers, memory>>
    /\ Forget({Page(va)} \X (IF HighHalf(va) THEN ASID ELSE {asid}))

InvalidateAsid(asid) ==
    /\ answer' = NoAnswer
    /\ UNCHANGED <<registers, memory>>
    /\ Forget(IF asid = AllAsids THEN Pages \X ASID
              ELSE {p \in Pages : LowHalf(p)} \X {asid})

\* A write to any register invalidates everything, and so does a flush.
Configure(ttbr0, ttbr1, tcr) ==
    /\ registers' = <<ttbr0, ttbr1, tcr>>
    /\ answer' = NoAnswer
    /\ UNCHANGED memory
    /\ Forget(Pages \X ASID)

\* The service does something its callers cannot see.
Silent ==
    /\ answer' = NoAnswer
    /\ UNCHANGED <<registers, memory, seen>>

Store(slot, d) ==
    /\ answer' = NoAnswer
    /\ UNCHANGED registers
    /\ memory' = [memory EXCEPT ![slot] = d]
    /\ seen' = [p \in Pages \X ASID |-> seen[p] \cup {memory'}]

Next ==
    \/ Silent
    \/ \E va \in VA, asid \in ASID : Translate(va, asid) \/ InvalidateVa(va, asid)
    \/ \E asid \in ASID \cup {AllAsids} : InvalidateAsid(asid)
    \/ \E value \in TTBR \cup {ttbr0_} : Configure(value, ttbr1_, tcr_)
    \/ \E value \in TTBR : Configure(ttbr0_, value, tcr_)
    \/ \E value \in TCR : Configure(ttbr0_, ttbr1_, value)
    \/ \E store \in Stores : Store(store[1], store[2])

Spec == Init /\ [][Next]_vars
=============================================================================
