SPECIFICATION Spec
CHECK_DEADLOCK FALSE
CONSTANTS
    VA <- PagesVA
    ASID <- PagesASID
    Stores <- PagesStores
    TTBR <- MCTTBR
    TCR <- MCTCR
    Slots <- MCSlots
    Descriptors <- MCDescriptors
    TLB_SIZE = 2
    Stub = FALSE
    MaxCalls = 2
    MaxSeen = 2
INVARIANTS
    TypeOK
    TlbCoherent
    TlbBounded
    StatsConsistent
PROPERTIES
    TlbRetention
    InvalidationReach
    ImplementsService
