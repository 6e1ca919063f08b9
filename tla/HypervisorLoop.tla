--------------------------- MODULE HypervisorLoop ---------------------------
(***************************************************************************)
(* The run loops of the KVM, HVF and WHP integrations (examples/*.cpp):    *)
(* the vCPU runs until it exits, the loop looks at the reason, and a       *)
(* trapped instruction is fetched, decoded, emulated by module             *)
(* SystemRegisterEmulator and passed by moving the PC.  The vCPU, the      *)
(* guest's program and the reasons for an exit are external.  The          *)
(* instructions come from Program here: the constants Instructions and     *)
(* HostRegisters of SystemRegisterEmulator are empty.                      *)
(***************************************************************************)
EXTENDS SystemRegisterEmulator, Sequences

CONSTANTS
    Program,   \* the guest's instructions; after the last comes the first
    Backends,  \* the integrations considered
    Reads      \* what the fetch may do: see Fetched

\* How the hardware treats an instruction: it runs it, or it traps as a
\* system register access (exception class 5) or with another class.
Classes == {"runs", "system_register", "other"}

ASSUME ProgramAssumption ==
    Program \in Seq([word : Word(32), class : Classes]) /\ Len(Program) > 1

ASSUME BackendAssumption ==
    Backends \subseteq {"kvm", "hvf", "whp"} /\ Reads \subseteq BOOLEAN

VARIABLES
    backend,  \* the integration, chosen once
    reads,    \* whether the fetch reads guest memory, chosen once
    pc,       \* external: position of the PC in Program
    exit,     \* external: why the vCPU exited, "none" while it runs
    loop      \* "running", or "over" while runLoop is not executing

loopVars == <<backend, reads, pc, exit, loop>>

allVars == <<vars, loopVars>>

\* Seeded fault: pc + 8.
SkipsOne(p) == p + 2

\* pc + 4
Next4(p) == IF p = Len(Program) THEN 1 ELSE p + 1

\* Why KVM_RUN, hv_vcpu_run and WHvRunVirtualProcessor return, beside an
\* exception of the instruction at pc
OtherExits(b) ==
    CASE b = "kvm" -> {"eintr", "error", "mmio", "interrupt", "shutdown",
                       "unknown"}
      [] b = "hvf" -> {"error", "vtimer", "unknown"}
      [] b = "whp" -> {"error", "unknown"}

Exits == {"none", "exception"} \cup UNION {OtherExits(b) : b \in Backends}

VcpuInit ==
    /\ Init
    /\ backend \in Backends /\ reads \in Reads
    /\ pc \in DOMAIN Program  \* the entry point is the caller's
    /\ exit = "none"

LoopInit == VcpuInit /\ loop = "running"

-----------------------------------------------------------------------------
(* The vCPU *)

Running == loop = "running" /\ exit = "none"

\* External: an instruction that does not trap runs and may set a register.
GuestRuns(r, value) ==
    /\ Running
    /\ Program[pc].class = "runs"
    /\ GuestComputes(r, value)
    /\ pc' = Next4(pc)
    /\ UNCHANGED <<backend, reads, exit, loop>>

\* External: an instruction that traps stops the vCPU and leaves the PC on it.
GuestTraps ==
    /\ Running
    /\ Program[pc].class # "runs"
    /\ exit' = "exception"
    /\ UNCHANGED <<vars, backend, reads, pc, loop>>

\* External: the vCPU exits for another reason, at any time.
VcpuExits(reason) ==
    /\ Running
    /\ reason \in OtherExits(backend)
    /\ exit' = reason
    /\ UNCHANGED <<vars, backend, reads, pc, loop>>

-----------------------------------------------------------------------------
(* handleSystemRegisterTrap *)

\* instr_bytes: 0 in all three files, where a comment says that a real
\* implementation reads guest memory.  Both are considered.
Fetched == IF reads THEN Program[pc].word ELSE {}

Barriers == {"ISB", "DSB", "DMB"}
Waits == {"WFI", "WFE"}

\* Seeded fault: the PC moves past what nobody decoded.
KVMPassesUnknown(type) == type \in MSR \cup MRS \cup Barriers \cup Waits \cup {"UNKNOWN"}

\* The types whose branch moves the PC.  emulateMSR and emulateMRS return
\* TRUE for the types that reach them.
KVMPasses(type) == type \in MSR \cup MRS \cup Barriers \cup Waits

\* Seeded fault: the last branch of the HVF handler forgets the PC.
HVFForgetsUnknown(type) == type \in MSR \cup MRS \cup Barriers \cup Waits

HVFPasses(type) == type \in Types

WHPPasses(type) == type \in MSR

Passes(b, type) ==
    CASE b = "kvm" -> KVMPasses(type)
      [] b = "hvf" -> HVFPasses(type)
      [] b = "whp" -> WHPPasses(type)

HandleSystemRegisterTrap ==
    LET i == DecodeSystemInstruction(Fetched)
    IN  /\ IF i.type \in MSR THEN EmulateMSR(i)
           ELSE IF i.type \in MRS THEN EmulateMRS(i)
           ELSE UNCHANGED vars
        /\ pc' = IF Passes(backend, i.type) THEN Next4(pc) ELSE pc

-----------------------------------------------------------------------------
(* runLoop *)

\* The exits after which runLoop returns.  That of WHP runs the vCPU once.
Ends(b, reason) ==
    CASE b = "kvm" -> reason \in {"error", "shutdown", "unknown"}
      [] b = "hvf" -> reason = "error"
      [] b = "whp" -> TRUE

\* HVF handles exceptions of class 5 only; KVM and WHP handle them all.
Handles(b, class) == b # "hvf" \/ class = "system_register"

\* Seeded fault: a call that was interrupted is not retried at once, and the
\* exit_reason of the exit before is looked at.
StaleReason(reason) == reason \in {"exception", "eintr"}

\* exit_reason: an interrupted KVM_RUN leaves it as it was, and is retried
\* before it is looked at.
IsException(reason) == reason = "exception"

LoopHandles ==
    /\ exit # "none"
    /\ IF IsException(exit) /\ Handles(backend, Program[pc].class)
       THEN HandleSystemRegisterTrap
       ELSE UNCHANGED <<vars, pc>>
    /\ exit' = "none"
    /\ loop' = IF Ends(backend, exit) THEN "over" ELSE "running"
    /\ UNCHANGED <<backend, reads>>

GuestSteps ==
    \/ \E r \in GPR, value \in Values : GuestRuns(r, value)
    \/ GuestTraps

LoopNext ==
    \/ GuestSteps
    \/ \E reason \in Exits : VcpuExits(reason)
    \/ LoopHandles

\* The loop is one thread that is scheduled; and a vCPU that is entered again
\* and again does not exit for another reason each time before its next
\* instruction.
LoopSpec ==
    /\ LoopInit /\ [][LoopNext]_allVars
    /\ WF_allVars(LoopHandles)
    /\ SF_allVars(GuestSteps)

-----------------------------------------------------------------------------
(* Properties *)

\* Every variable of the loop and of the emulator has its type.
LoopTypeOK ==
    /\ TypeOK
    /\ backend \in Backends /\ reads \in BOOLEAN
    /\ pc \in DOMAIN Program
    /\ exit \in Exits
    /\ loop \in {"running", "over"}

\* An access takes effect once: runLoop changes a register or the PC only for
\* an exception the vCPU has just reported, never for another exit, nor for
\* an interrupted call that is retried; and what changes a register moves the
\* PC past the instruction.  It holds of the WHP handler, which forgets the
\* PC after MRS, because no word decodes to MRS.
EmulatedOnce ==
    [][exit # "none" /\ <<state_, gpr, pc>>' # <<state_, gpr, pc>>
           => exit = "exception" /\ pc' = Next4(pc)]_allVars

\* The only effect a trapped instruction has on the emulated registers is to
\* clear one, and it never gives the guest the value of one: the decoder
\* knows no register move but the one that writes 0.
TrapsOnlyClear ==
    [][exit = "exception" => /\ gpr' = gpr
                             /\ \A r \in Registers : state_'[r] \in
                                                        {state_[r], {}}]_allVars

\* With the fetch as it is (`instr_bytes = 0`), no trapped instruction has
\* any effect on the registers, and only HVF passes it: KVM and WHP leave
\* the PC on the first instruction that traps.
StubEmulatesNothing ==
    [][exit = "exception" /\ ~ reads =>
           /\ UNCHANGED <<state_, gpr>>
           /\ pc' # pc => backend = "hvf"]_allVars

\* HVF does not stay for ever on an instruction that runs or traps as a
\* register access, whatever was fetched and decoded and whatever interrupts
\* the vCPU: the loop is over, or the guest is at a trap of another class,
\* again and again, or else the PC moves again and again.
HVFProgress ==
    backend = "hvf" =>
        \/ []<>(loop = "over" \/ Program[pc].class = "other")
        \/ []<><<pc' # pc>>_pc

\* KVM passes every trapped register access: the last step of the data flow
\* in docs/ARCHITECTURE.md is "Advance guest PC".
KVMProgress ==
    \A p \in DOMAIN Program :
        (backend = "kvm" /\ Program[p].class = "system_register" /\ pc = p)
            ~> (pc # p \/ loop = "over")
=============================================================================
