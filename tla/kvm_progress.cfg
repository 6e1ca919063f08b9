SPECIFICATION LoopSpec
CHECK_DEADLOCK FALSE
CONSTANTS
    Program <- MCProgram
    Backends = {"kvm"}
    Reads = {FALSE}
    Instructions = {}
    HostRegisters = {}
    Assignments = {}
    Addresses = {}
    Values <- MCValues
    GPR <- MCGPR
PROPERTY
    KVMProgress
