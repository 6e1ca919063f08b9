-------------------------- MODULE MCHypervisorLoop --------------------------
(***************************************************************************)
(* A guest program for the run loops: one instruction of each kind that    *)
(* can trap, and one that runs.                                            *)
(***************************************************************************)
EXTENDS HypervisorLoop

Instr(word, class) == [word |-> word, class |-> class]

\* The architecture's encodings of MSR SCTLR_EL1, X0; MRS X0, MPIDR_EL1;
\* MSR ELR_EL1, X1; then ISB and WFI as the decoder knows them; SMC #0
MCProgram == <<
    Instr(D5 \cup {12, 19, 20}, "system_register"),
    Instr({5, 7, 19, 20, 21} \cup D5, "system_register"),
    Instr({0, 5, 14, 19, 20} \cup D5, "system_register"),
    Instr({14} \cup 0 .. 4 \cup D5, "system_register"),
    Instr({6, 13, 16, 17} \cup 0 .. 4 \cup D5, "other"),
    Instr({0, 1, 26, 28, 30, 31}, "other"),
    Instr({}, "runs") >>

X0 == {}
X1 == {0}

MCGPR == {X0, X1}
MCValues == {{}, {12}}
=============================================================================
