---------------------- MODULE MCSystemRegisterEmulator ----------------------
(***************************************************************************)
(* An instance of SystemRegisterEmulator for TLC.  The instructions are    *)
(* the ones a hypervisor can build itself, as basic_usage.cpp does, and    *)
(* two that the decoder produces.                                          *)
(***************************************************************************)
EXTENDS SystemRegisterEmulator

X0 == {}
X1 == {0}

\* A register move as basic_usage.cpp fills it in; 3 and 5 in binary are the
\* sets {0, 1} and {0, 2}.
Move(kind, crn, op2, x) ==
    [type |-> kind, sysRegOp0 |-> {0, 1}, sysRegOp1 |-> {},
     sysRegCRn |-> crn, sysRegCRm |-> {}, sysRegOp2 |-> op2,
     rt |-> x, immediate |-> {}]

MCInstructions ==
    {Move("MSR_REG", {2}, {0}, X0), Move("MRS_REG", {2}, {0}, X1),
     Move("MSR_REG", {1}, {}, X0), Move("MRS_REG", {}, {0, 2}, X0),
     Move("MSR_REG", {}, {0, 2}, X1), Move("MRS_REG", {3}, {}, X0),
     DecodeSystemInstruction(D5 \cup {13, 19, 20}),
     DecodeSystemInstruction({})}

MCGPR == {X0, X1}
MCValues == {{}, {12}}

\* A register the guest writes, one it may only read, one the guest never
\* touches, and one that has a name and is not stored
MCHostRegisters == {"ELR_EL1", "MPIDR_EL1", "HCR_EL2"}

\* An ASID with a bit that does not fit in its field
MCAssignments ==
    {[register |-> "TTBR0_EL1", field |-> "ASID", value |-> {0, 16}]}

\* An aligned address without and with an upper bit, and one of a 4KB page
MCAddresses == {{16}, {16, 48}, {12}}
=============================================================================
