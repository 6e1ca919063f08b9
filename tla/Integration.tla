----------------------------- MODULE Integration -----------------------------
(***************************************************************************)
(* The life of an integration object (examples/*.cpp) around its run loop, *)
(* module HypervisorLoop: construction, initialize, any number of calls of *)
(* runLoop, cleanup and destruction, with every call of the operating      *)
(* system failing or not.  The host is one thread.  It never calls runLoop *)
(* before initialize has returned true once; apart from that it calls the  *)
(* three public functions in any order.                                    *)
(***************************************************************************)
EXTENDS HypervisorLoop, FiniteSets

CONSTANT MaxAttempts  \* bound: calls of initialize

ASSUME BoundAssumption == MaxAttempts \in Nat

VARIABLES
    stage,     \* "new", "ready", "failed", "cleaned", "destroyed", "crashed"
    fields,    \* the handles the object has in its fields
    held,      \* external: what the system has created for it and not freed
    others,    \* external: what the rest of the process has under a handle
               \* left in a field, or as the one VM a process has under HVF
    leaked,    \* history: handles overwritten while they were held
    attempts,  \* calls of initialize
    succeeded, \* initialize has returned true: the host may call runLoop
    stale,     \* history: a cleanup since initialize last returned true
    run        \* KVM's pointer to the mapped vCPU, in a call of runLoop

history == <<leaked, attempts, succeeded, stale>>

lifeVars == <<stage, fields, held, others, history, run>>

everything == <<allVars, lifeVars>>

\* What initialize does, each step named for the handle it creates or for
\* what it asks.  That of WHP sets a property too, and ignores the result.
Steps(b) ==
    CASE b = "kvm" -> <<"kvm_fd", "version", "vm_fd", "vcpu_fd">>
      [] b = "hvf" -> <<"vm", "vcpu">>
      [] b = "whp" -> <<"capability", "partition", "processor">>

Resources(b) ==
    CASE b = "kvm" -> {"kvm_fd", "vm_fd", "vcpu_fd"}
      [] b = "hvf" -> {"vm", "vcpu"}
      [] b = "whp" -> {"partition", "processor"}

\* HVF has no handle for its VM: there is one to a process.
Fields(b) == Resources(b) \ {"vm"}

\* Seeded fault: a constructor that does not set the fields.
Unset(b) == Fields(b)

\* The constructors set every field to -1, HV_VCPU_NULL or nullptr.
Constructed(b) == {}

IntegrationInit ==
    /\ VcpuInit /\ loop = "over"
    /\ stage = "new" /\ fields = Constructed(backend)
    /\ held = {} /\ others = {} /\ leaked = 0 /\ attempts = 0
    /\ succeeded = FALSE /\ stale = FALSE /\ run = "none"

-----------------------------------------------------------------------------
(* initialize *)

Alive == loop = "over" /\ stage \in {"new", "ready", "failed", "cleaned"}

FirstSteps(b, n) == {Steps(b)[k] : k \in 1 .. n}

\* The fields assigned when n steps succeed: KVM assigns what the failing
\* call returned, -1, too.
Assigned(b, n) ==
    FirstSteps(b, IF b = "kvm" /\ n < Len(Steps(b)) THEN n + 1 ELSE n)
        \cap Fields(b)

\* Seeded fault: the result of the last call is not looked at.
IgnoresLast(b, n) == n + 1 >= Len(Steps(b))

Succeeds(b, n) == n = Len(Steps(b))

\* An object that is ready or failed is not looked at: its handles are
\* overwritten.  HVF cannot create a second VM.
Initialize(n) ==
    /\ Alive /\ attempts < MaxAttempts
    /\ n \in 0 .. Len(Steps(backend))
    /\ "vm" \in held \cup others => n = 0
    /\ LET assigned == Assigned(backend, n)
           created == FirstSteps(backend, n) \cap Resources(backend)
           lost == assigned \cap fields \cap held
       IN  /\ fields' = (fields \ assigned) \cup (created \cap assigned)
           /\ held' = (held \ lost) \cup created
           /\ leaked' = leaked + Cardinality(lost)
           /\ others' = others \ assigned
    /\ stage' = IF Succeeds(backend, n) THEN "ready" ELSE "failed"
    /\ attempts' = attempts + 1
    /\ succeeded' = (succeeded \/ Succeeds(backend, n))
    /\ stale' = (stale /\ ~ Succeeds(backend, n))
    /\ UNCHANGED <<allVars, run>>

-----------------------------------------------------------------------------
(* runLoop *)

\* The handle runLoop passes to the system to run the vCPU.
Vcpu(b) ==
    CASE b = "kvm" -> "vcpu_fd"
      [] b = "hvf" -> "vcpu"
      [] b = "whp" -> "partition"

\* External: the handle names something, which is not the object's own if
\* it was freed and given to someone else.
Named(r) == r \in held \cup others

\* runLoop looks at nothing: the object may have been cleaned up, or have
\* failed since it was ready.  KVM maps the vCPU each time, in the size it
\* asks of kvm_fd, and does not look whether it could.
RunLoop ==
    /\ Alive /\ succeeded
    /\ loop' = "running"
    /\ IF backend = "kvm"
       THEN \/ run' = "mapped" /\ Named("kvm_fd") /\ Named("vcpu_fd")
            \/ run' = "failed"
       ELSE UNCHANGED run
    /\ UNCHANGED <<vars, backend, reads, pc, exit>>
    /\ UNCHANGED <<stage, fields, held, others, history>>

\* Without a vCPU the call that would run it fails at once.
RunFails ==
    /\ ~ Named(Vcpu(backend))
    /\ VcpuExits("error")
    /\ UNCHANGED lifeVars

\* Seeded fault: only an interrupted call is told from one that ran.
OnlyRetried == {"eintr"}

\* The exits KVM sees in the result of the ioctl, without the mapping
InResult == {"eintr", "error"}

\* The read of run->exit_reason ends the process.
ReadsUnmapped ==
    /\ run = "failed" /\ exit \notin InResult \cup {"none"}
    /\ exit' = "none" /\ loop' = "over"
    /\ stage' = "crashed" /\ run' = "none"
    /\ UNCHANGED <<vars, backend, reads, pc>>
    /\ UNCHANGED <<fields, held, others, history>>

HandlesExit ==
    /\ run = "failed" => exit \in InResult
    /\ LoopHandles
    /\ run' = IF loop' = "over" THEN "none" ELSE run
    /\ UNCHANGED <<stage, fields, held, others, history>>

LoopTurns == RunFails \/ ReadsUnmapped \/ HandlesExit

GuestTurns ==
    /\ Named(Vcpu(backend))
    /\ GuestSteps
    /\ UNCHANGED lifeVars

ExitTurns ==
    /\ Named(Vcpu(backend))
    /\ \E reason \in Exits : VcpuExits(reason)
    /\ UNCHANGED lifeVars

-----------------------------------------------------------------------------
(* cleanup and the destructor *)

\* Seeded fault: the VM outlives its vCPU.
KeepsVM == fields

\* Seeded fault: /dev/kvm stays open.
KeepsOpen == (fields \ {"kvm_fd"}) \cup (IF backend = "hvf" THEN {"vm"} ELSE {})

\* hv_vm_destroy is called whatever initialize did.
Releases == fields \cup (IF backend = "hvf" THEN {"vm"} ELSE {})

\* The fields keep the handles that were freed.
Cleanup ==
    /\ held' = held \ Releases
    /\ others' = others \ Releases
    /\ stale' = TRUE
    /\ UNCHANGED <<allVars, fields, leaked, attempts, succeeded, run>>

CleanUp == Alive /\ Cleanup /\ stage' = "cleaned"

Destroy == Alive /\ Cleanup /\ stage' = "destroyed"

\* External: a handle that was freed is given to someone else, or someone
\* else creates the process's VM.
OthersCreate(r) ==
    /\ Alive
    /\ r \in fields \cup (IF backend = "hvf" THEN {"vm"} ELSE {})
    /\ r \notin held \cup others
    /\ others' = others \cup {r}
    /\ UNCHANGED <<allVars, stage, fields, held, history, run>>

IntegrationNext ==
    \/ \E n \in 0 .. 4 : Initialize(n)
    \/ RunLoop \/ LoopTurns \/ GuestTurns \/ ExitTurns
    \/ CleanUp \/ Destroy
    \/ \E r \in Resources(backend) : OthersCreate(r)

\* The fairness of LoopSpec: once in runLoop, the thread runs and the guest,
\* if there is one, reaches its next instruction.  The host owes no call.
IntegrationSpec ==
    /\ IntegrationInit /\ [][IntegrationNext]_everything
    /\ WF_everything(LoopTurns)
    /\ SF_everything(GuestTurns)

-----------------------------------------------------------------------------
(* Properties *)

\* Every variable of the object has its type.
LifeTypeOK ==
    /\ LoopTypeOK
    /\ stage \in {"new", "ready", "failed", "cleaned", "destroyed", "crashed"}
    /\ fields \subseteq Fields(backend)
    /\ held \subseteq Resources(backend) /\ others \subseteq Resources(backend)
    /\ leaked \in Nat /\ attempts \in Nat
    /\ succeeded \in BOOLEAN /\ stale \in BOOLEAN
    /\ run \in {"none", "mapped", "failed"}

\* What runLoop runs: after an initialize that returned true, a vCPU and a VM
\* that are there and are the object's own; after a failed one, nothing but
\* what is left of the object's own; and someone else's vCPU only where a
\* cleanup has left its handle in the fields (kvm_integration.cpp:147).
LoopHasVcpu ==
    loop = "running" =>
        /\ stage = "ready" => /\ Resources(backend) \subseteq held
                              /\ Fields(backend) \subseteq fields
        /\ Vcpu(backend) \in others => stale

\* runLoop after a cleanup ends with the error of its first call: a vCPU that
\* is gone is not emulated, and KVM does not read the mapping it did not get,
\* because the result of the ioctl is looked at before run->exit_reason.
NothingRunsWithoutVcpu ==
    [][loop = "running" /\ ~ Named(Vcpu(backend)) =>
           UNCHANGED <<vars, pc>> /\ stage' # "crashed"]_everything

\* cleanup and the destructor leave nothing behind that initialize created,
\* whichever step of it failed and however often it was called, but for the
\* handles that were lost before.
ReleasedAtEnd ==
    stage \in {"cleaned", "destroyed"} => held = {}

\* Handles are lost only where initialize is called again with no cleanup in
\* between: a new object and one that is cleaned up have none to lose.
LostOnlyByRetry ==
    [][leaked' # leaked => stage \in {"ready", "failed"}]_everything

\* cleanup frees a handle of the rest of the process only where the fields
\* are left over from an earlier cleanup; but HVF destroys the VM of the
\* process even if initialize could not create it.
OnlyOwnReleased ==
    [][stage' \in {"cleaned", "destroyed"} =>
           \A r \in others \ others' : stale \/ r = "vm"]_everything
=============================================================================
