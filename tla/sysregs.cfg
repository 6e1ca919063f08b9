SPECIFICATION Spec
CONSTANTS
    Instructions <- MCInstructions
    HostRegisters <- MCHostRegisters
    Values <- MCValues
    GPR <- MCGPR
    Assignments <- MCAssignments
    Addresses <- MCAddresses
INVARIANT
    TypeOK
PROPERTIES
    IdentityReadOnly
    BaseAddressIsField
    ImplementsRegisterFile
