---------------------------- MODULE RegisterFile ----------------------------
(***************************************************************************)
(* What SystemRegisterEmulator promises, without instructions or a struct  *)
(* of registers: a file of words addressed by the place (op0, op1, CRn,    *)
(* CRm, op2) of a register.  A place that is not stored reads as zero and  *)
(* ignores writes; the guest cannot write a stored place that is not       *)
(* writable.                                                               *)
(***************************************************************************)
CONSTANTS
    Places,        \* the places accessed
    Stored,        \* the places that hold a register
    Writable,      \* those the guest and the write entry point can change
    ELR, ESR, FAR, \* the places an exception entry records in
    Values,        \* words written
    GPR,           \* numbers of general purpose registers
    ResetFile      \* the file after a reset

VARIABLES
    file,          \* the register file, over Places
    gpr,           \* the guest's general purpose registers
    answer         \* what the last call returned

Written(p, value) ==
    IF p \in Writable THEN [file EXCEPT ![p] = value] ELSE file

\* MSR: the value comes from the guest, and any place is acknowledged.
GuestWrites(p, value) ==
    /\ answer' = [call |-> "emulateMSR", result |-> TRUE]
    /\ UNCHANGED gpr
    /\ file' = Written(p, value)

GuestReads(p, r) ==
    /\ answer' = [call |-> "emulateMRS", result |-> TRUE]
    /\ gpr' = [gpr EXCEPT ![r] = file[p]]
    /\ UNCHANGED file

\* An instruction of the other kind does nothing.
GuestRefused(call) ==
    /\ answer' = [call |-> call, result |-> FALSE]
    /\ UNCHANGED <<gpr, file>>

HostReads(p) ==
    /\ answer' = [call |-> "readSystemRegister",
                  result |-> IF p \in Stored THEN {file[p]} ELSE {}]
    /\ UNCHANGED <<gpr, file>>

HostWrites(p, value) ==
    /\ answer' = [call |-> "writeSystemRegister", result |-> TRUE]
    /\ UNCHANGED gpr
    /\ file' = Written(p, value)

\* The three registers of one exception change together.
Entered(pc, esr, far) ==
    [file EXCEPT ![ELR] = pc, ![ESR] = esr, ![FAR] = far]

Enters(pc, esr, far) ==
    /\ answer' = [call |-> "handleExceptionEntry"]
    /\ UNCHANGED gpr
    /\ file' = Entered(pc, esr, far)

Returns ==
    /\ answer' = [call |-> "handleExceptionReturn", result |-> file[ELR]]
    /\ UNCHANGED <<gpr, file>>

\* The host may change one stored register directly, to any word, or reset
\* them all.
HostEdits(p) ==
    /\ answer' = [call |-> "getState"]
    /\ UNCHANGED gpr
    /\ file' = [file EXCEPT ![p] = file'[p]]

Resets ==
    /\ answer' = [call |-> "reset"]
    /\ UNCHANGED gpr
    /\ file' = ResetFile

GuestComputes(r, value) ==
    /\ UNCHANGED answer
    /\ gpr' = [gpr EXCEPT ![r] = value]
    /\ UNCHANGED file

Init ==
    /\ file = ResetFile
    /\ gpr = [r \in GPR |-> {}]
    /\ answer = [call |-> "reset"]

Next ==
    \/ \E p \in Places : \/ \E r \in GPR : GuestWrites(p, gpr[r])
                         \/ \E value \in Values : GuestWrites(p, value)
                         \/ \E r \in GPR : GuestReads(p, r)
                         \/ HostReads(p)
                         \/ \E value \in Values : HostWrites(p, value)
    \/ \E call \in {"emulateMSR", "emulateMRS"} : GuestRefused(call)
    \/ \E pc, esr, far \in Values : Enters(pc, esr, far)
    \/ Returns
    \/ \E p \in Stored : HostEdits(p)
    \/ Resets
    \/ \E r \in GPR, value \in Values : GuestComputes(r, value)

Spec == Init /\ [][Next]_<<file, gpr, answer>>
=============================================================================
