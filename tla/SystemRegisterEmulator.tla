----------------------- MODULE SystemRegisterEmulator -----------------------
(***************************************************************************)
(* SystemRegisterEmulator (ARM64SystemRegisters.hpp, .cpp): the emulated   *)
(* EL1 registers, the accesses of the guest through decoded instructions,  *)
(* the accesses of the hypervisor, and the record of an exception.  The    *)
(* general purpose registers belong to the hypervisor and are reached      *)
(* through its callbacks.                                                  *)
(***************************************************************************)
EXTENDS InstructionDecoder, RegisterViews

CONSTANTS
    Instructions,  \* decoded instructions the hypervisor passes in
    HostRegisters, \* the registers the hypervisor accesses by itself
    Assignments,   \* the bit-fields the hypervisor assigns
    Addresses,     \* the addresses it passes to setBaseAddress
    Values,        \* 64-bit words written to registers, and PCs
    GPR            \* the general purpose registers in use, 5-bit words

\* The places (op0, op1, CRn, CRm, op2) that getSystemRegisterName knows
Encoding == [
    SCTLR_EL1 |-> <<3, 0, 1, 0, 0>>,  TCR_EL1   |-> <<3, 0, 2, 0, 2>>,
    TTBR0_EL1 |-> <<3, 0, 2, 0, 0>>,  TTBR1_EL1 |-> <<3, 0, 2, 0, 1>>,
    ESR_EL1   |-> <<3, 0, 5, 2, 0>>,  FAR_EL1   |-> <<3, 0, 6, 0, 0>>,
    ELR_EL1   |-> <<3, 0, 4, 0, 1>>,  VBAR_EL1  |-> <<3, 0, 12, 0, 0>>,
    MPIDR_EL1 |-> <<3, 0, 0, 0, 5>>,  MIDR_EL1  |-> <<3, 0, 0, 0, 0>>,
    SCTLR_EL2 |-> <<3, 4, 1, 0, 0>>,  HCR_EL2   |-> <<3, 4, 1, 1, 0>> ]

ASSUME InstructionAssumption ==
    /\ Instructions \subseteq SystemInstruction
    /\ GPR \subseteq Word(5)
    /\ \A i \in Instructions : i.rt \in GPR

ASSUME HostAssumption ==
    /\ HostRegisters \subseteq DOMAIN Encoding
    /\ Addresses \subseteq Word(64)
    /\ \A a \in Assignments : /\ a.register \in DOMAIN Layout
                             /\ a.field \in DOMAIN Layout[a.register]
                             /\ a.value \in Word(64)

ASSUME ValueAssumption ==
    /\ Values \subseteq Word(64)
    /\ {} \in Values
    /\ \A i \in Instructions : i.immediate \in Values

VARIABLES
    state_,  \* ARM64SystemRegisterState
    gpr,     \* external: X0 to X30 of the guest
    reply    \* what the last call returned

vars == <<state_, gpr, reply>>

WritableRegisters == {"SCTLR_EL1", "TCR_EL1", "TTBR0_EL1", "TTBR1_EL1",
                      "ESR_EL1", "FAR_EL1", "ELR_EL1", "VBAR_EL1"}

IdentityRegisters == {"MPIDR_EL1", "MIDR_EL1"}

Registers == WritableRegisters \cup IdentityRegisters

\* Seeded fault: reset() leaves the identity registers out.
ResetWithoutIdentity ==
    [r \in WritableRegisters |->
        IF r = "SCTLR_EL1" THEN {3, 4, 5, 11, 16, 18, 22, 23} ELSE {}]

\* The constructor and reset(): 0x00C50838, 0x80000000 and 0x610F0220
ResetState ==
    [r \in Registers |->
        CASE r = "SCTLR_EL1" -> {3, 4, 5, 11, 16, 18, 22, 23}
          [] r = "MPIDR_EL1" -> {31}
          [] r = "MIDR_EL1"  -> {5, 9, 16, 17, 18, 19, 24, 29, 30}
          [] OTHER           -> {}]

Place(i) == <<Number(i.sysRegOp0), Number(i.sysRegOp1), Number(i.sysRegCRn),
              Number(i.sysRegCRm), Number(i.sysRegOp2)>>

Replies ==
    [call : {"emulateMSR", "emulateMRS"}, result : BOOLEAN]
      \cup [call : {"writeSystemRegister"}, result : {TRUE}]
      \cup [call : {"readSystemRegister"}, result : SUBSET Word(64)]
      \cup [call : {"handleExceptionReturn"}, result : Word(64)]
      \cup [call : {"handleExceptionEntry", "getState", "reset"}]

Init ==
    /\ state_ = ResetState
    /\ gpr = [r \in GPR |-> {}]
    /\ reply = [call |-> "reset"]

-----------------------------------------------------------------------------
(* readSystemRegister and writeSystemRegister *)

\* std::optional: empty at a place that holds no register
ReadSystemRegister(place) ==
    {state_[r] : r \in {s \in Registers : Encoding[s] = place}}

\* Seeded fault: the registers that can be read can all be written.
WrittenIfKnown(place, value) ==
    [r \in Registers |-> IF Encoding[r] = place THEN value ELSE state_[r]]

\* The registers after a write: a place that is unknown, or that of MPIDR_EL1
\* or MIDR_EL1, is acknowledged and nothing changes.
Written(place, value) ==
    [r \in Registers |->
        IF r \in WritableRegisters /\ Encoding[r] = place
        THEN value ELSE state_[r]]

-----------------------------------------------------------------------------
(* The guest, through trapped instructions *)

\* Seeded fault: both forms take the value from a register.
MSRTakesRegister(i) ==
    /\ i.type \in MSR
    /\ state_' = Written(Place(i), gpr[i.rt])
    /\ reply' = [call |-> "emulateMSR", result |-> TRUE]
    /\ UNCHANGED gpr

EmulateMSR(i) ==
    /\ i.type \in MSR
    /\ LET value == IF i.type = "MSR_REG" THEN gpr[i.rt] ELSE i.immediate
       IN  state_' = Written(Place(i), value)
    /\ reply' = [call |-> "emulateMSR", result |-> TRUE]
    /\ UNCHANGED gpr

EmulateMSRFails(i) ==
    /\ i.type \notin MSR
    /\ reply' = [call |-> "emulateMSR", result |-> FALSE]
    /\ UNCHANGED <<state_, gpr>>

\* Seeded fault: the destination keeps its value when the read is empty.
MRSKeepsUnknown(i) ==
    /\ i.type \in MRS
    /\ gpr' = IF ReadSystemRegister(Place(i)) = {} THEN gpr
              ELSE [gpr EXCEPT ![i.rt] = UNION ReadSystemRegister(Place(i))]
    /\ reply' = [call |-> "emulateMRS", result |-> TRUE]
    /\ UNCHANGED state_

\* An empty read gives 0: the union of no word.
EmulateMRS(i) ==
    /\ i.type \in MRS
    /\ gpr' = [gpr EXCEPT ![i.rt] = UNION ReadSystemRegister(Place(i))]
    /\ reply' = [call |-> "emulateMRS", result |-> TRUE]
    /\ UNCHANGED state_

EmulateMRSFails(i) ==
    /\ i.type \notin MRS
    /\ reply' = [call |-> "emulateMRS", result |-> FALSE]
    /\ UNCHANGED <<state_, gpr>>

-----------------------------------------------------------------------------
(* The hypervisor *)

CallReadSystemRegister(place) ==
    /\ reply' = [call |-> "readSystemRegister",
                 result |-> ReadSystemRegister(place)]
    /\ UNCHANGED <<state_, gpr>>

CallWriteSystemRegister(place, value) ==
    /\ state_' = Written(place, value)
    /\ reply' = [call |-> "writeSystemRegister", result |-> TRUE]
    /\ UNCHANGED gpr

Recorded(currentPC, esr, far) ==
    [state_ EXCEPT !["ELR_EL1"] = currentPC,
                   !["ESR_EL1"] = esr,
                   !["FAR_EL1"] = far]

HandleExceptionEntry(currentPC, esr, far) ==
    /\ state_' = Recorded(currentPC, esr, far)
    /\ reply' = [call |-> "handleExceptionEntry"]
    /\ UNCHANGED gpr

HandleExceptionReturn ==
    /\ reply' = [call |-> "handleExceptionReturn", result |-> state_.ELR_EL1]
    /\ UNCHANGED <<state_, gpr>>

\* External: an assignment through the reference getState() returns.
HostEdits(register, value) ==
    /\ state_' = [state_ EXCEPT ![register] = value]
    /\ reply' = [call |-> "getState"]
    /\ UNCHANGED gpr

\* External: an assignment to a bit-field through that reference.
HostAssigns(a) ==
    /\ state_' = [state_ EXCEPT ![a.register] =
                     WithField(@, Layout[a.register][a.field], a.value)]
    /\ reply' = [call |-> "getState"]
    /\ UNCHANGED gpr

SetBaseAddress(addr) ==
    /\ state_' = [state_ EXCEPT !.TTBR0_EL1 = WithBaseAddress(@, addr)]
    /\ reply' = [call |-> "getState"]
    /\ UNCHANGED gpr

Reset ==
    /\ state_' = ResetState
    /\ reply' = [call |-> "reset"]
    /\ UNCHANGED gpr

\* External: the guest puts a word in a general purpose register.
GuestComputes(r, value) ==
    /\ gpr' = [gpr EXCEPT ![r] = value]
    /\ UNCHANGED <<state_, reply>>

-----------------------------------------------------------------------------

Next ==
    \/ \E i \in Instructions : \/ EmulateMSR(i)
                               \/ EmulateMSRFails(i)
                               \/ EmulateMRS(i)
                               \/ EmulateMRSFails(i)
    \/ \E r \in HostRegisters : CallReadSystemRegister(Encoding[r])
    \/ \E r \in HostRegisters, value \in Values :
           CallWriteSystemRegister(Encoding[r], value)
    \/ \E pc, esr, far \in Values : HandleExceptionEntry(pc, esr, far)
    \/ HandleExceptionReturn
    \/ \E r \in HostRegisters \cap Registers, value \in Values :
           HostEdits(r, value)
    \/ \E a \in Assignments : HostAssigns(a)
    \/ \E addr \in Addresses : SetBaseAddress(addr)
    \/ Reset
    \/ \E r \in GPR, value \in Values : GuestComputes(r, value)

Spec == Init /\ [][Next]_vars

-----------------------------------------------------------------------------
(* Properties *)

\* Every variable has its type: ten registers of 64 bits, whatever is written.
TypeOK ==
    /\ state_ \in [Registers -> Word(64)]
    /\ gpr \in [GPR -> Word(64)]
    /\ reply \in Replies

\* MPIDR_EL1 and MIDR_EL1 are read-only: no instruction of the guest and no
\* call of writeSystemRegister changes them, an exception neither.
IdentityReadOnly ==
    [][\A r \in IdentityRegisters : state_'[r] # state_[r]
           => reply'.call \in {"getState", "reset"}]_vars

\* setBaseAddress and the bit-field BADDR are two ways to the same bits.  They
\* agree when the address ends in 16 zeros and has no upper bits but those
\* of the ASID, and getBaseAddress gives the address set back when the ASID
\* has no bits but those of the address: the masks take in the ASID.
BaseAddressIsField ==
    [][\A addr \in Addresses : SetBaseAddress(addr) =>
           LET old == state_.TTBR0_EL1
               new == state_'.TTBR0_EL1
               asid == FieldOf(old, TTBR.ASID)
               upper == FieldOf(addr, TTBR.ASID)
           IN  /\ new = WithField(old, TTBR.BADDR, addr)
                     <=> LowBits(addr, 16) = {} /\ upper \subseteq asid
               /\ BaseAddress(new) = addr
                     <=> LowBits(addr, 16) = {} /\ asid \subseteq upper]_vars

Places == {Encoding[r] : r \in DOMAIN Encoding}
            \cup {Place(i) : i \in Instructions}

\* The word a place holds, 0 if it holds none
RegisterAt(state, place) == UNION {state[r] : r \in
                                {s \in Registers : Encoding[s] = place}}

\* The emulator is a register file addressed by place: what a place was last
\* given, by the guest, the hypervisor or an exception, is what the guest and
\* the hypervisor read there, one access changes one register, and the places
\* without a register read as zero and ignore writes.
File == INSTANCE RegisterFile WITH
    Stored <- {Encoding[r] : r \in Registers},
    Writable <- {Encoding[r] : r \in WritableRegisters},
    ELR <- Encoding.ELR_EL1, ESR <- Encoding.ESR_EL1,
    FAR <- Encoding.FAR_EL1,
    ResetFile <- [place \in Places |-> RegisterAt(ResetState, place)],
    file <- [place \in Places |-> RegisterAt(state_, place)],
    answer <- reply

ImplementsRegisterFile == File!Spec
=============================================================================
