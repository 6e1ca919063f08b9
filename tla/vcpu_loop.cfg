SPECIFICATION IntegrationSpec
CHECK_DEADLOCK FALSE
CONSTANTS
    Program <- MCProgram
    Backends = {"kvm", "hvf", "whp"}
    Reads = {TRUE, FALSE}
    Instructions = {}
    HostRegisters = {}
    Assignments = {}
    Addresses = {}
    Values <- MCValues
    GPR <- MCGPR
    MaxAttempts = 2
INVARIANTS
    LifeTypeOK
    LoopHasVcpu
    ReleasedAtEnd
PROPERTIES
    EmulatedOnce
    TrapsOnlyClear
    StubEmulatesNothing
    HVFProgress
    NothingRunsWithoutVcpu
    LostOnlyByRetry
    OnlyOwnReleased
