---------------------------- MODULE RegisterViews ----------------------------
(***************************************************************************)
(* The views ARM64SystemRegisters.hpp gives of a register: the unions of   *)
(* its 64-bit value with named bit-fields, and the functions beside them.  *)
(* A field is the pair of its lowest bit and its width, where the compiler *)
(* puts it, from bit 0 up; the reserved ones are left out.                 *)
(***************************************************************************)
EXTENDS Words

SCTLR == [
    M |-> <<0, 1>>, A |-> <<1, 1>>, C |-> <<2, 1>>, SA |-> <<3, 1>>,
    SA0 |-> <<4, 1>>, ITD |-> <<8, 1>>, I |-> <<12, 1>>, DZE |-> <<13, 1>>,
    UCT |-> <<16, 1>>, nTWE |-> <<17, 1>>, nTWI |-> <<19, 1>>,
    UCI |-> <<24, 1>>, EE |-> <<28, 1>>, E0E |-> <<30, 1>>,
    SPAN |-> <<31, 1>>, ENIA |-> <<36, 1>>, ENIB |-> <<37, 1>>,
    BT0 |-> <<40, 1>>, BT1 |-> <<41, 1>> ]

TCR == [
    T0SZ |-> <<0, 6>>, IRGN0 |-> <<8, 2>>, ORGN0 |-> <<10, 2>>,
    SH0 |-> <<12, 2>>, TG0 |-> <<14, 2>>, T1SZ |-> <<16, 6>>,
    A1 |-> <<22, 1>>, IRGN1 |-> <<24, 2>>, ORGN1 |-> <<26, 2>>,
    SH1 |-> <<28, 2>>, TG1 |-> <<30, 2>>, IPS |-> <<34, 3>>,
    AS |-> <<38, 1>>, TBI0 |-> <<39, 1>>, TBI1 |-> <<40, 1>> ]

TTBR == [BADDR |-> <<0, 48>>, ASID |-> <<48, 16>>]

ESR == [ISS |-> <<0, 25>>, EC |-> <<26, 6>>, IL |-> <<32, 1>>]

MPIDR == [Aff0 |-> <<0, 8>>, Aff1 |-> <<8, 8>>, Aff2 |-> <<16, 8>>,
          Aff3 |-> <<24, 8>>, U |-> <<39, 1>>]

Layout == [
    SCTLR_EL1 |-> SCTLR, TCR_EL1 |-> TCR, TTBR0_EL1 |-> TTBR,
    TTBR1_EL1 |-> TTBR, ESR_EL1 |-> ESR, MPIDR_EL1 |-> MPIDR ]

Positions(field) == field[1] .. field[1] + field[2] - 1

\* A bit-field read, and assigned: what does not fit is cut off.
FieldOf(word, field) == Field(word, field[1], field[2])

WithField(word, field, value) ==
    (word \ Positions(field))
        \cup ShiftLeft(LowBits(value, field[2]), field[1], 64)

\* TTBR0_EL1::getBaseAddress
BaseAddress(word) == ClearLow(word, 16)

\* Seeded fault: the ASID is not kept.
LosesAsid(word, addr) == ClearLow(addr, 16)

\* TTBR0_EL1::setBaseAddress
WithBaseAddress(word, addr) == ClearLow(word, 48) \cup ClearLow(addr, 16)
=============================================================================
