SPECIFICATION Spec
CHECK_DEADLOCK FALSE
CONSTANTS
    VA <- SpacesVA
    ASID <- SpacesASID
    Stores <- SpacesStores
    TTBR <- MCTTBR
    TCR <- MCTCR
    Slots <- MCSlots
    Descriptors <- MCDescriptors
    TLB_SIZE = 2
    Stub = FALSE
    MaxCalls = 2
    MaxSeen = 3
INVARIANTS
    TlbCoherent
    AsidTagged
PROPERTIES
    InvalidationReach
    ImplementsService
