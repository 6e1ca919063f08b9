-------------------------- MODULE IntegrationProofs --------------------------
(***************************************************************************)
(* The run loop's theorems hold of an object that is created, initialized, *)
(* run and destroyed; and what its destructor frees and leaves.            *)
(***************************************************************************)
EXTENDS Integration, HypervisorLoopProofs, FiniteSetTheorems

USE ProgramAssumption, BackendAssumption, BoundAssumption

LEMMA KnownBackend ==
    ASSUME backend \in Backends
    PROVE  backend \in {"kvm", "hvf", "whp"}
  OBVIOUS

\* The steps up to the last create every handle, the fields are assigned
\* with them, and the VM of HVF is created first.
LEMMA StepFacts ==
    ASSUME NEW b \in {"kvm", "hvf", "whp"}, NEW n \in 0 .. Len(Steps(b))
    PROVE  /\ Assigned(b, n) \subseteq Fields(b)
           /\ (FirstSteps(b, n) \cap Resources(b)) \ {"vm"} \subseteq Assigned(b, n)
           /\ "vm" \notin Fields(b)
           /\ n = 0 => FirstSteps(b, n) = {}
           /\ Succeeds(b, n) => Resources(b) \subseteq FirstSteps(b, n)
  <1>0. n = 0 => FirstSteps(b, n) = {}
    BY DEF FirstSteps
  <1>1. CASE b = "kvm"
    <2>1. /\ Len(Steps(b)) = 4 /\ Steps(b)[1] = "kvm_fd"
          /\ Steps(b)[3] = "vm_fd" /\ Steps(b)[4] = "vcpu_fd"
          /\ Resources(b) = {"kvm_fd", "vm_fd", "vcpu_fd"}
      BY <1>1 DEF Steps, Resources
    <2>2. Fields(b) = Resources(b)
      BY <2>1 DEF Fields
    <2>3. n < 4 => FirstSteps(b, n) \subseteq FirstSteps(b, n + 1)
      BY DEF FirstSteps
    <2>4. Succeeds(b, n) => Resources(b) \subseteq FirstSteps(b, n)
      BY <2>1 DEF Succeeds, FirstSteps
    <2>5. Assigned(b, n) =
            FirstSteps(b, IF n < 4 THEN n + 1 ELSE n) \cap Fields(b)
      BY <1>1, <2>1 DEF Assigned
    <2>6. FirstSteps(b, n) \cap Resources(b) \subseteq Assigned(b, n)
      BY <2>2, <2>3, <2>5
    <2>7. QED
      BY <1>0, <2>1, <2>2, <2>4, <2>5, <2>6
  <1>2. CASE b = "hvf"
    <2>1. /\ Len(Steps(b)) = 2 /\ Steps(b)[1] = "vm" /\ Steps(b)[2] = "vcpu"
          /\ Resources(b) = {"vm", "vcpu"}
      BY <1>2 DEF Steps, Resources
    <2>2. Succeeds(b, n) => Resources(b) \subseteq FirstSteps(b, n)
      BY <2>1 DEF Succeeds, FirstSteps
    <2>3. QED
      BY <1>0, <1>2, <2>1, <2>2 DEF Assigned, Fields
  <1>3. CASE b = "whp"
    <2>1. /\ Len(Steps(b)) = 3 /\ Steps(b)[2] = "partition"
          /\ Steps(b)[3] = "processor"
          /\ Resources(b) = {"partition", "processor"}
      BY <1>3 DEF Steps, Resources
    <2>2. Succeeds(b, n) => Resources(b) \subseteq FirstSteps(b, n)
      BY <2>1 DEF Succeeds, FirstSteps
    <2>3. QED
      BY <1>0, <1>3, <2>1, <2>2 DEF Assigned, Fields
  <1>4. QED
    BY <1>1, <1>2, <1>3

LEMMA FiniteLoss ==
    ASSUME backend \in Backends, NEW S \in SUBSET Resources(backend)
    PROVE  Cardinality(S) \in Nat /\ (S = {} => Cardinality(S) = 0)
  <1>1. IsFiniteSet(Resources(backend))
    <2>1. ASSUME NEW a, NEW b, NEW c
          PROVE  IsFiniteSet({a, b}) /\ IsFiniteSet({a, b, c})
      <3>1. IsFiniteSet({} \cup {a})
        BY FS_EmptySet, FS_AddElement
      <3>2. IsFiniteSet(({} \cup {a}) \cup {b})
        BY <3>1, FS_AddElement
      <3>3. IsFiniteSet((({} \cup {a}) \cup {b}) \cup {c})
        BY <3>2, FS_AddElement
      <3>4. /\ ({} \cup {a}) \cup {b} = {a, b}
            /\ (({} \cup {a}) \cup {b}) \cup {c} = {a, b, c}
        OBVIOUS
      <3>5. QED
        BY <3>2, <3>3, <3>4
    <2>2. QED
      BY <2>1, KnownBackend DEF Resources
  <1>2. QED
    BY <1>1, FS_Subset, FS_CardinalityType, FS_EmptySet

-----------------------------------------------------------------------------
(* The loop within the life of the object *)

\* Every step is one of the loop, or only starts the loop, ends it, or
\* leaves it alone.
LEMMA LoopWithin ==
    ASSUME backend \in Backends, [IntegrationNext]_everything
    PROVE  \/ LoopNext
           \/ /\ UNCHANGED <<vars, backend, reads, pc>>
              /\ exit' \in {exit, "none"}
              /\ loop' \in {loop, "running", "over"}
  <1>1. CASE UNCHANGED everything
    BY <1>1 DEF everything, allVars, loopVars
  <1>2. ASSUME NEW n, Initialize(n) PROVE UNCHANGED allVars
    BY <1>2 DEF Initialize
  <1>3. CASE CleanUp \/ Destroy
    BY <1>3 DEF CleanUp, Destroy, Cleanup, allVars, loopVars
  <1>4. ASSUME NEW r, OthersCreate(r) PROVE UNCHANGED allVars
    BY <1>4 DEF OthersCreate
  <1>5. CASE RunLoop
    BY <1>5 DEF RunLoop
  <1>6. CASE LoopTurns
    <2>1. CASE RunFails
      <3>1. VcpuExits("error")
        BY <2>1 DEF RunFails
      <3>2. "error" \in Exits
        BY <3>1 DEF VcpuExits, Exits
      <3>3. QED
        BY <3>1, <3>2 DEF LoopNext
    <2>2. CASE ReadsUnmapped \/ HandlesExit
      BY <2>2 DEF ReadsUnmapped, HandlesExit, LoopNext
    <2>3. QED
      BY <1>6, <2>1, <2>2 DEF LoopTurns
  <1>7. CASE GuestTurns \/ ExitTurns
    BY <1>7 DEF GuestTurns, ExitTurns, LoopNext
  <1>8. QED
    BY <1>1, <1>2, <1>3, <1>4, <1>5, <1>6, <1>7
       DEF IntegrationNext, allVars, loopVars

LEMMA LoopTypeWithin ==
    ASSUME LoopTypeOK, [IntegrationNext]_everything
    PROVE  LoopTypeOK'
  <1>1. CASE LoopNext
    BY <1>1, LoopTypeStep
  <1>2. CASE /\ UNCHANGED <<vars, backend, reads, pc>>
             /\ exit' \in {exit, "none"}
             /\ loop' \in {loop, "running", "over"}
    BY <1>2 DEF LoopTypeOK, TypeOK, vars, Exits
  <1>3. QED
    BY <1>1, <1>2, LoopWithin DEF LoopTypeOK

LEMMA LifeTypeInit == IntegrationInit => LifeTypeOK
  <1> SUFFICES ASSUME IntegrationInit PROVE LifeTypeOK
    OBVIOUS
  <1>1. TypeOK
    BY TypeInit DEF IntegrationInit, VcpuInit
  <1>2. LoopTypeOK
    BY <1>1 DEF IntegrationInit, VcpuInit, LoopTypeOK, Exits
  <1>3. QED
    BY <1>2 DEF IntegrationInit, LifeTypeOK, Constructed

LEMMA LifeTypeStep ==
    ASSUME LifeTypeOK, [IntegrationNext]_everything
    PROVE  LifeTypeOK'
  <1>1. LoopTypeOK' /\ backend \in Backends
    BY LoopTypeWithin DEF LifeTypeOK, LoopTypeOK
  <1>2. CASE UNCHANGED everything
    BY <1>1, <1>2 DEF LifeTypeOK, everything, allVars, loopVars, lifeVars, history
  <1>3. ASSUME NEW n, Initialize(n) PROVE LifeTypeOK'
    <2>1. n \in 0 .. Len(Steps(backend)) /\ backend' = backend
      BY <1>3 DEF Initialize, allVars, loopVars
    <2>2. Assigned(backend, n) \subseteq Fields(backend)
      BY <1>1, <2>1, KnownBackend, StepFacts
    <2>3. leaked' \in Nat
      <3> DEFINE lost == Assigned(backend, n) \cap fields \cap held
      <3>1. lost \in SUBSET Resources(backend)
        BY DEF LifeTypeOK
      <3>2. Cardinality(lost) \in Nat
        BY <1>1, <3>1, FiniteLoss
      <3>3. leaked' = leaked + Cardinality(lost)
        BY <1>3 DEF Initialize
      <3>4. QED
        BY <3>2, <3>3 DEF LifeTypeOK
    <2>4. succeeded' \in BOOLEAN /\ stale' \in BOOLEAN
      BY <1>3 DEF Initialize, Succeeds, LifeTypeOK
    <2>5. QED
      BY <1>1, <1>3, <2>1, <2>2, <2>3, <2>4 DEF Initialize, LifeTypeOK
  <1>4. CASE RunLoop
    BY <1>1, <1>4 DEF RunLoop, LifeTypeOK, history
  <1>5. CASE LoopTurns
    <2>1. backend' = backend
      BY <1>5 DEF LoopTurns, RunFails, VcpuExits, ReadsUnmapped, HandlesExit,
                  LoopHandles
    <2>2. QED
      BY <1>1, <1>5, <2>1
         DEF LoopTurns, RunFails, ReadsUnmapped, HandlesExit, lifeVars, history,
             LifeTypeOK
  <1>6. CASE GuestTurns \/ ExitTurns
    <2>1. backend' = backend /\ UNCHANGED lifeVars
      BY <1>6 DEF GuestTurns, ExitTurns, GuestSteps, GuestRuns, GuestTraps,
                  VcpuExits
    <2>2. QED
      BY <1>1, <2>1 DEF lifeVars, history, LifeTypeOK
  <1>7. CASE CleanUp \/ Destroy
    BY <1>1, <1>7 DEF CleanUp, Destroy, Cleanup, allVars, loopVars, LifeTypeOK
  <1>8. ASSUME NEW r \in Resources(backend), OthersCreate(r) PROVE LifeTypeOK'
    BY <1>1, <1>8 DEF OthersCreate, allVars, loopVars, history, LifeTypeOK
  <1>9. QED
    BY <1>2, <1>3, <1>4, <1>5, <1>6, <1>7, <1>8 DEF IntegrationNext

\* Every variable keeps its type, whatever fails and whenever the guest exits.
THEOREM LifeTypeCorrect == IntegrationSpec => []LifeTypeOK
  <1>1. LifeTypeOK /\ [IntegrationNext]_everything => LifeTypeOK'
    BY LifeTypeStep
  <1>2. QED
    BY LifeTypeInit, <1>1, PTL DEF IntegrationSpec

-----------------------------------------------------------------------------
(* What the object holds *)

\* What cleanup frees beside the handles in the fields
TheVM == IF backend = "hvf" THEN {"vm"} ELSE {}

\* The handles that are held are in the fields, and the others are not; until
\* a cleanup, the fields name nothing else.
HandlesInv ==
    /\ stage = "ready" => /\ Resources(backend) \subseteq held
                          /\ Fields(backend) \subseteq fields
    /\ stage \in {"new", "cleaned", "destroyed"} => held = {}
    /\ held \subseteq fields \cup TheVM
    /\ ~ stale => fields \subseteq held
    /\ others \subseteq fields \cup TheVM
    /\ others \cap held = {}

\* While runLoop executes, and what the vCPU's exit can be if it is gone
RunInv ==
    /\ exit # "none" => loop = "running"
    /\ loop = "running" => stage # "crashed"
    /\ loop = "running" /\ ~ Named(Vcpu(backend)) => exit \in {"none", "error"}

LifeInv == HandlesInv /\ RunInv

LEMMA LifeInit == IntegrationInit => LifeInv
  BY DEF IntegrationInit, VcpuInit, LifeInv, HandlesInv, RunInv, Constructed

\* initialize, whichever of its steps fails and whatever it overwrites
LEMMA InitializeKeeps ==
    ASSUME LifeTypeOK, HandlesInv, NEW n, Initialize(n)
    PROVE  HandlesInv'
  <1> DEFINE assigned == Assigned(backend, n)
             created == FirstSteps(backend, n) \cap Resources(backend)
             lost == assigned \cap fields \cap held
  <1>1. /\ backend \in {"kvm", "hvf", "whp"} /\ backend' = backend
        /\ n \in 0 .. Len(Steps(backend))
        /\ fields' = (fields \ assigned) \cup (created \cap assigned)
        /\ held' = (held \ lost) \cup created
        /\ others' = others \ assigned
        /\ stage' = IF Succeeds(backend, n) THEN "ready" ELSE "failed"
        /\ stale' = (stale /\ ~ Succeeds(backend, n))
        /\ "vm" \in held \cup others => n = 0
    BY KnownBackend DEF Initialize, LifeTypeOK, LoopTypeOK, allVars, loopVars
  <1>2. /\ assigned \subseteq Fields(backend)
        /\ created \ {"vm"} \subseteq assigned
        /\ n = 0 => created = {}
        /\ Succeeds(backend, n) => Resources(backend) \subseteq created
        /\ "vm" \notin assigned
    BY <1>1, StepFacts
  <1>3. /\ Resources(backend) \subseteq Fields(backend) \cup TheVM
        /\ Fields(backend) \subseteq Resources(backend) \ {"vm"}
    BY <1>1 DEF Fields, Resources, TheVM
  <1>4. lost \subseteq assigned /\ created \subseteq Resources(backend)
    OBVIOUS
  <1>5. fields \subseteq Fields(backend) /\ TheVM' = TheVM
    BY <1>1 DEF LifeTypeOK, TheVM
  <1> HIDE DEF assigned, created, lost
  <1>6. Succeeds(backend, n) => /\ Resources(backend) \subseteq held'
                                /\ Fields(backend) \subseteq fields'
    BY <1>1, <1>2, <1>3
  <1>7. held' \subseteq fields' \cup TheVM
    <2> SUFFICES ASSUME NEW r \in held' PROVE r \in fields' \cup TheVM
      OBVIOUS
    <2>1. CASE r \in created
      BY <1>1, <1>2, <1>3, <1>4, <2>1
    <2>2. CASE r \in held \ lost
      BY <1>1, <2>2 DEF HandlesInv, lost
    <2>3. QED
      BY <1>1, <2>1, <2>2
  <1>8. ~ stale' => fields' \subseteq held'
    <2>1. CASE Succeeds(backend, n)
      BY <1>1, <1>2, <1>3, <1>5, <2>1
    <2>2. CASE ~ Succeeds(backend, n)
      BY <1>1, <1>4, <2>2 DEF HandlesInv
    <2>3. QED
      BY <2>1, <2>2
  <1>9. others' \subseteq fields' \cup TheVM
    BY <1>1 DEF HandlesInv
  <1>10. others' \cap held' = {}
    BY <1>1, <1>2 DEF HandlesInv
  <1>11. QED
    BY <1>1, <1>5, <1>6, <1>7, <1>8, <1>9, <1>10 DEF HandlesInv

\* cleanup frees all that is held
LEMMA CleanupKeeps ==
    ASSUME HandlesInv, Cleanup, stage' \in {"cleaned", "destroyed"}
    PROVE  HandlesInv'
  <1>1. /\ backend' = backend /\ fields' = fields /\ stale' = TRUE
        /\ held' = held \ Releases /\ others' = others \ Releases
    BY DEF Cleanup, allVars, loopVars
  <1>2. Releases = fields \cup TheVM
    BY DEF Releases, TheVM
  <1>3. held' = {} /\ others' = {} /\ TheVM' = TheVM
    BY <1>1, <1>2 DEF HandlesInv, TheVM
  <1>4. QED
    BY <1>1, <1>3 DEF HandlesInv

LEMMA OthersKeep ==
    ASSUME HandlesInv, NEW r, OthersCreate(r)
    PROVE  HandlesInv'
  <1>1. /\ backend' = backend /\ UNCHANGED <<stage, fields, held, stale>>
        /\ others' = others \cup {r} /\ r \notin held
        /\ r \in fields \cup TheVM
    BY DEF OthersCreate, allVars, loopVars, history, TheVM
  <1>2. QED
    BY <1>1 DEF HandlesInv, TheVM

\* What runs leaves the handles alone.
LEMMA RunningKeeps ==
    ASSUME RunLoop \/ LoopTurns \/ GuestTurns \/ ExitTurns
    PROVE  /\ UNCHANGED <<backend, fields, held, others, leaked, stale>>
           /\ stage' = stage \/ (stage' = "crashed" /\ ReadsUnmapped)
  <1>1. CASE RunLoop
    BY <1>1 DEF RunLoop, history
  <1>2. CASE LoopTurns
    BY <1>2 DEF LoopTurns, RunFails, VcpuExits, ReadsUnmapped, HandlesExit,
                LoopHandles, lifeVars, history
  <1>3. CASE GuestTurns \/ ExitTurns
    BY <1>3 DEF GuestTurns, ExitTurns, GuestSteps, GuestRuns, GuestTraps,
                VcpuExits, lifeVars, history
  <1>4. QED
    BY <1>1, <1>2, <1>3

LEMMA HandlesStep ==
    ASSUME LifeTypeOK, HandlesInv, [IntegrationNext]_everything
    PROVE  HandlesInv'
  <1>1. CASE UNCHANGED everything
    BY <1>1 DEF everything, allVars, loopVars, lifeVars, history, HandlesInv, TheVM
  <1>2. CASE RunLoop \/ LoopTurns \/ GuestTurns \/ ExitTurns
    BY <1>2, RunningKeeps DEF HandlesInv, TheVM
  <1>3. CASE CleanUp \/ Destroy
    BY <1>3, CleanupKeeps DEF CleanUp, Destroy
  <1>4. QED
    BY <1>1, <1>2, <1>3, InitializeKeeps, OthersKeep DEF IntegrationNext

LEMMA RunStep ==
    ASSUME LifeTypeOK, RunInv, [IntegrationNext]_everything
    PROVE  RunInv'
  <1>1. CASE UNCHANGED everything
    BY <1>1 DEF everything, allVars, loopVars, lifeVars, RunInv, Named
  <1>2. ASSUME Alive, UNCHANGED <<loop, exit>> PROVE RunInv'
    BY <1>2 DEF Alive, RunInv
  <1>3. ASSUME NEW n, Initialize(n) PROVE RunInv'
    BY <1>2, <1>3 DEF Initialize, allVars, loopVars
  <1>4. CASE CleanUp \/ Destroy
    BY <1>2, <1>4 DEF CleanUp, Destroy, Cleanup, allVars, loopVars
  <1>5. ASSUME NEW r, OthersCreate(r) PROVE RunInv'
    BY <1>2, <1>5 DEF OthersCreate, allVars, loopVars
  <1>6. CASE RunLoop
    <2>1. Alive /\ stage' = stage /\ exit' = exit
      BY <1>6 DEF RunLoop
    <2>2. QED
      BY <2>1 DEF Alive, RunInv
  <1>7. CASE ReadsUnmapped
    BY <1>7 DEF ReadsUnmapped, RunInv
  <1>8. ASSUME loop = "running", UNCHANGED <<backend, stage, held, others>>,
               \/ exit' = "none"
               \/ loop' = loop /\ exit' = "error"
               \/ loop' = loop /\ Named(Vcpu(backend))
        PROVE  RunInv'
    BY <1>8 DEF RunInv, Named
  <1>9. CASE HandlesExit
    <2>1. loop = "running" /\ exit' = "none"
      BY <1>9 DEF HandlesExit, LoopHandles, RunInv
    <2>2. QED
      BY <1>8, <1>9, <2>1 DEF HandlesExit, LoopHandles
  <1>10. CASE RunFails
    BY <1>8, <1>10 DEF RunFails, VcpuExits, Running, lifeVars
  <1>11. CASE GuestTurns \/ ExitTurns
    <2>1. Named(Vcpu(backend)) /\ UNCHANGED lifeVars
      BY <1>11 DEF GuestTurns, ExitTurns
    <2>2. backend' = backend /\ loop' = loop /\ loop = "running"
      BY <1>11 DEF GuestTurns, ExitTurns, GuestSteps, GuestRuns, GuestTraps,
                   VcpuExits, Running
    <2>3. QED
      BY <1>8, <2>1, <2>2 DEF lifeVars
  <1>12. QED
    BY <1>1, <1>3, <1>4, <1>5, <1>6, <1>7, <1>9, <1>10, <1>11
       DEF IntegrationNext, LoopTurns

LEMMA LifeInvariant == IntegrationSpec => []LifeInv
  <1>1. LifeTypeOK /\ LifeInv /\ [IntegrationNext]_everything => LifeInv'
    BY HandlesStep, RunStep DEF LifeInv
  <1>2. QED
    BY LifeInit, <1>1, LifeTypeCorrect, PTL DEF IntegrationSpec

\* In every call of runLoop, before or after a cleanup, the vCPU is the
\* object's own, or there is none, or a cleanup has left its handle behind.
THEOREM LoopHasVcpuCorrect == IntegrationSpec => []LoopHasVcpu
  <1>1. LifeTypeOK /\ LifeInv => LoopHasVcpu
    <2> SUFFICES ASSUME LifeTypeOK, HandlesInv, Vcpu(backend) \in others, ~ stale
                 PROVE  FALSE
      BY DEF LifeInv, HandlesInv, LoopHasVcpu
    <2>1. Vcpu(backend) # "vm"
      BY KnownBackend DEF LifeTypeOK, LoopTypeOK, Vcpu
    <2>2. Vcpu(backend) \in fields
      BY <2>1 DEF HandlesInv, TheVM
    <2>3. QED
      BY <2>2 DEF HandlesInv
  <1>2. QED
    BY <1>1, LifeInvariant, LifeTypeCorrect, PTL

\* A vCPU that is gone is never emulated: the loop ends with the error of its
\* first call, before it looks at a mapping it may not have.
THEOREM NothingRunsCorrect == IntegrationSpec => NothingRunsWithoutVcpu
  <1> DEFINE Nothing == loop = "running" /\ ~ Named(Vcpu(backend)) =>
                            UNCHANGED <<vars, pc>> /\ stage' # "crashed"
  <1>1. ASSUME RunInv, IntegrationNext PROVE Nothing
    <2> SUFFICES ASSUME loop = "running", ~ Named(Vcpu(backend))
                 PROVE  UNCHANGED <<vars, pc>> /\ stage' # "crashed"
      OBVIOUS
    <2>1. exit \in {"none", "error"} /\ stage # "crashed" /\ ~ Alive
      BY <1>1 DEF RunInv, Alive
    <2>2. CASE HandlesExit
      BY <2>1, <2>2 DEF HandlesExit, LoopHandles, IsException
    <2>3. CASE RunFails
      BY <2>1, <2>3 DEF RunFails, VcpuExits, lifeVars
    <2>4. ~ ReadsUnmapped
      BY <2>1 DEF ReadsUnmapped, InResult
    <2>5. ~ GuestTurns /\ ~ ExitTurns
      BY DEF GuestTurns, ExitTurns
    <2>6. QED
      BY <1>1, <2>1, <2>2, <2>3, <2>4, <2>5
         DEF IntegrationNext, LoopTurns, Initialize, RunLoop, CleanUp, Destroy,
             OthersCreate
  <1>2. LifeInv /\ [IntegrationNext]_everything => [Nothing]_everything
    BY <1>1 DEF LifeInv
  <1>3. QED
    BY <1>2, LifeInvariant, PTL DEF IntegrationSpec, NothingRunsWithoutVcpu

\* cleanup and the destructor free everything that is held, in every state
\* that failures and repeated calls of initialize may have left.
THEOREM ReleasedCorrect == IntegrationSpec => []ReleasedAtEnd
  <1>1. LifeInv => ReleasedAtEnd
    BY DEF LifeInv, HandlesInv, ReleasedAtEnd
  <1>2. QED
    BY <1>1, LifeInvariant, PTL

\* Only a second initialize with no cleanup in between loses handles: in
\* particular a host that cleans up after every failure loses none.
THEOREM LostOnlyByRetryCorrect == IntegrationSpec => LostOnlyByRetry
  <1> DEFINE Retry == leaked' # leaked => stage \in {"ready", "failed"}
  <1>1. ASSUME LifeTypeOK, HandlesInv, IntegrationNext PROVE Retry
    <2> SUFFICES ASSUME leaked' # leaked PROVE stage \in {"ready", "failed"}
      OBVIOUS
    <2>1. PICK n : Initialize(n)
      <3>1. ~ CleanUp /\ ~ Destroy /\ \A r : ~ OthersCreate(r)
        BY DEF CleanUp, Destroy, Cleanup, OthersCreate, history
      <3>2. QED
        BY <1>1, <3>1, RunningKeeps DEF IntegrationNext
    <2> DEFINE lost == Assigned(backend, n) \cap fields \cap held
    <2>2. leaked' = leaked + Cardinality(lost) /\ leaked \in Nat /\ Alive
      BY <1>1, <2>1 DEF Initialize, LifeTypeOK
    <2>3. lost \in SUBSET Resources(backend) /\ backend \in Backends
      BY <1>1 DEF LifeTypeOK, LoopTypeOK
    <2>4. lost # {}
      BY <2>2, <2>3, FiniteLoss
    <2>5. QED
      BY <1>1, <2>2, <2>4 DEF HandlesInv, Alive
  <1>2. LifeTypeOK /\ LifeInv /\ [IntegrationNext]_everything => [Retry]_everything
    BY <1>1 DEF LifeInv
  <1>3. QED
    BY <1>2, LifeInvariant, LifeTypeCorrect, PTL DEF IntegrationSpec, LostOnlyByRetry

\* Until an object is cleaned up, cleanup frees nothing of anyone else but
\* HVF's VM, however initialize failed and however often it was called.
THEOREM OnlyOwnCorrect == IntegrationSpec => OnlyOwnReleased
  <1> DEFINE Own == stage' \in {"cleaned", "destroyed"} =>
                        \A r \in others \ others' : stale \/ r = "vm"
  <1>1. ASSUME HandlesInv, IntegrationNext PROVE Own
    <2>1. CASE CleanUp \/ Destroy
      <3>1. HandlesInv => \A r \in others : stale \/ r = "vm"
        BY DEF HandlesInv, TheVM
      <3>2. QED
        BY <1>1, <3>1
    <2>2. ASSUME NEW n, Initialize(n) PROVE stage' \notin {"cleaned", "destroyed"}
      BY <2>2 DEF Initialize
    <2>3. ASSUME NEW r, OthersCreate(r) PROVE others \ others' = {}
      BY <2>3 DEF OthersCreate
    <2>4. CASE RunLoop \/ LoopTurns \/ GuestTurns \/ ExitTurns
      BY <2>4, RunningKeeps
    <2>5. QED
      BY <1>1, <2>1, <2>2, <2>3, <2>4 DEF IntegrationNext
  <1>2. LifeInv /\ [IntegrationNext]_everything => [Own]_everything
    BY <1>1 DEF LifeInv
  <1>3. QED
    BY <1>2, LifeInvariant, PTL DEF IntegrationSpec, OnlyOwnReleased

-----------------------------------------------------------------------------
(* What the loop promises, over the life of the object *)

LEMMA OnceWithin ==
    ASSUME LoopTypeOK, [IntegrationNext]_everything, exit # "none",
           <<state_, gpr, pc>>' # <<state_, gpr, pc>>
    PROVE  exit = "exception" /\ pc' = Next4(pc)
  <1>1. ~ UNCHANGED <<vars, pc>>
    BY DEF vars
  <1>2. LoopHandles
    BY <1>1, LoopWithin, PendingExit DEF LoopTypeOK
  <1>3. QED
    BY <1>2, HandledOnce

\* In every call of runLoop, and in nothing the object does beside it, an
\* access takes effect once.
THEOREM EmulatedOnceWithin == IntegrationSpec => EmulatedOnce
  <1> DEFINE Once == exit # "none" /\ <<state_, gpr, pc>>' # <<state_, gpr, pc>>
                         => exit = "exception" /\ pc' = Next4(pc)
  <1>1. LifeTypeOK /\ [IntegrationNext]_everything => [Once]_allVars
    BY OnceWithin DEF LifeTypeOK
  <1>2. QED
    BY <1>1, LifeTypeCorrect, PTL DEF IntegrationSpec, EmulatedOnce

LEMMA ClearsWithin ==
    ASSUME LoopTypeOK, [IntegrationNext]_everything, exit = "exception"
    PROVE  /\ gpr' = gpr
           /\ \A r \in Registers : state_'[r] \in {state_[r], {}}
  <1>1. CASE UNCHANGED vars
    BY <1>1 DEF vars
  <1>2. CASE ~ UNCHANGED vars
    <2>1. LoopHandles
      BY <1>2, LoopWithin, PendingException DEF LoopTypeOK
    <2>2. HandleSystemRegisterTrap
      BY <1>2, <2>1 DEF LoopHandles
    <2>3. gpr' = gpr /\ \E place : state_' = Written(place, {})
      BY <1>2, <2>2, TrapEffect
    <2>4. QED
      BY <2>3 DEF Written
  <1>3. QED
    BY <1>1, <1>2

\* No trapped instruction moves a value between the guest and the emulated
\* registers, in any call of runLoop.
THEOREM TrapsOnlyClearWithin == IntegrationSpec => TrapsOnlyClear
  <1> DEFINE Clears == exit = "exception" =>
                /\ gpr' = gpr
                /\ \A r \in Registers : state_'[r] \in {state_[r], {}}
  <1>1. LifeTypeOK /\ [IntegrationNext]_everything => [Clears]_allVars
    BY ClearsWithin DEF LifeTypeOK
  <1>2. QED
    BY <1>1, LifeTypeCorrect, PTL DEF IntegrationSpec, TrapsOnlyClear

\* With the fetch as it is, no trapped instruction has an effect in any call
\* of runLoop, nor where KVM's loop crashes instead of handling it.
THEOREM StubEmulatesNothingWithin == IntegrationSpec => StubEmulatesNothing
  <1> DEFINE Nothing == exit = "exception" /\ ~ reads =>
                           /\ UNCHANGED <<state_, gpr>>
                           /\ pc' # pc => backend = "hvf"
  <1>1. ASSUME LoopTypeOK, [IntegrationNext]_everything PROVE Nothing
    <2>1. CASE UNCHANGED <<vars, pc>>
      BY <2>1 DEF vars
    <2>2. CASE LoopNext /\ exit = "exception"
      BY <1>1, <2>2, PendingException, StubTrap
    <2>3. QED
      BY <1>1, <2>1, <2>2, LoopWithin DEF LoopTypeOK
  <1>2. LifeTypeOK /\ [IntegrationNext]_everything => [Nothing]_allVars
    BY <1>1 DEF LifeTypeOK
  <1>3. QED
    BY <1>2, LifeTypeCorrect, PTL DEF IntegrationSpec, StubEmulatesNothing

\* No later call of runLoop, and no cleanup between them, brings a guest of
\* KVM or WHP past its first instruction that traps.
THEOREM StuckForEverWithin ==
    ASSUME NEW CONSTANT p \in DOMAIN Program
    PROVE  IntegrationSpec => [](StuckAt(p) => []StuckAt(p))
  <1>1. ASSUME LoopTypeOK, StuckAt(p), [IntegrationNext]_everything
        PROVE  StuckAt(p)'
    <2>1. CASE LoopNext
      BY <1>1, <2>1, StuckStep
    <2>2. CASE UNCHANGED <<backend, reads, pc>>
      BY <1>1, <2>2 DEF StuckAt
    <2>3. QED
      BY <1>1, <2>1, <2>2, LoopWithin DEF LoopTypeOK
  <1>2. LifeTypeOK /\ StuckAt(p) /\ [IntegrationNext]_everything => StuckAt(p)'
    BY <1>1 DEF LifeTypeOK
  <1>3. QED
    BY <1>2, LifeTypeCorrect, PTL DEF IntegrationSpec
=============================================================================
