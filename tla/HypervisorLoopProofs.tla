------------------------ MODULE HypervisorLoopProofs ------------------------
(***************************************************************************)
(* What the run loops do with every guest program: type correctness, and   *)
(* the effect of a trapped instruction, which rests on what the decoder    *)
(* does with every word (InstructionDecoderProofs).                        *)
(***************************************************************************)
EXTENDS HypervisorLoop, InstructionDecoderProofs, SystemRegisterEmulatorProofs

USE ProgramAssumption, BackendAssumption

\* The word a handler decodes is a 32-bit word.
LEMMA FetchedWord ==
    ASSUME LoopTypeOK
    PROVE  Fetched \in Word(32)
<1>1. Program[pc].word \in Word(32)
  <2> DEFINE Instr == [word : Word(32), class : Classes]
  <2>1. Program \in Seq(Instr) /\ pc \in DOMAIN Program
    BY DEF LoopTypeOK
  <2> HIDE DEF Instr
  <2>2. Program[pc] \in Instr
    BY <2>1
  <2> QED
    BY <2>2 DEF Instr
<1>2. {} \in Word(32)
  BY DEF Word
<1> QED
  BY <1>1, <1>2 DEF Fetched

\* The handler never decodes MRS, and an MSR it decodes writes 0.
LEMMA DecodedTrap ==
    ASSUME LoopTypeOK
    PROVE  /\ DecodeSystemInstruction(Fetched).type \in LiveTypes
           /\ DecodeSystemInstruction(Fetched).type \notin MRS
           /\ DecodeSystemInstruction(Fetched).type \in MSR =>
                  /\ DecodeSystemInstruction(Fetched).type = "MSR_IMM"
                  /\ DecodeSystemInstruction(Fetched).immediate = {}
<1> DEFINE d == DecodeSystemInstruction(Fetched)
<1>1. d.type = TypeOf(Fetched)
  BY DEF DecodeSystemInstruction
<1>2. d.type \in LiveTypes
  BY <1>1, FetchedWord, DeadTypes DEF OnlyLiveTypes
<1>3. d.type \notin MRS /\ (d.type \in MSR => d.type = "MSR_IMM")
  BY <1>2 DEF LiveTypes, MRS, MSR
<1>4. d.type = "MSR_IMM" => d.immediate = {}
  BY FetchedWord, MovesWriteZero DEF ImmediateIsZero
<1> QED
  BY <1>2, <1>3, <1>4

\* The effect of the handler: a zero is written to the place the word names,
\* and the PC passes it, or nothing changes but the PC and the reply.
LEMMA TrapEffect ==
    ASSUME LoopTypeOK, HandleSystemRegisterTrap
    PROVE  /\ gpr' = gpr
           /\ \/ UNCHANGED vars
              \/ /\ \E place : state_' = Written(place, {})
                 /\ reply' = [call |-> "emulateMSR", result |-> TRUE]
                 /\ pc' = Next4(pc)
           /\ pc' \in {pc, Next4(pc)}
<1> DEFINE d == DecodeSystemInstruction(Fetched)
<1>1. CASE d.type \in MSR
  <2>1. d.type = "MSR_IMM" /\ d.immediate = {}
    BY <1>1, DecodedTrap
  <2>2. EmulateMSR(d)
    BY <1>1 DEF HandleSystemRegisterTrap
  <2>3. state_' = Written(Place(d), {})
    BY <2>1, <2>2 DEF EmulateMSR
  <2>4. Passes(backend, d.type)
    <3>1. backend \in {"kvm", "hvf", "whp"}
      BY DEF LoopTypeOK
    <3> QED
      BY <2>1, <3>1
         DEF Passes, KVMPasses, HVFPasses, WHPPasses, MSR, Types
  <2>5. pc' = Next4(pc)
    BY <2>4 DEF HandleSystemRegisterTrap
  <2> QED
    BY <2>2, <2>3, <2>5 DEF EmulateMSR
<1>2. CASE d.type \notin MSR
  <2>1. d.type \notin MRS
    BY DecodedTrap
  <2>2. UNCHANGED vars
    BY <1>2, <2>1 DEF HandleSystemRegisterTrap
  <2>3. pc' \in {pc, Next4(pc)}
    BY DEF HandleSystemRegisterTrap
  <2> QED
    BY <2>2, <2>3 DEF vars
<1> QED
  BY <1>1, <1>2

LEMMA NextPosition ==
    ASSUME NEW p \in DOMAIN Program
    PROVE  Next4(p) \in DOMAIN Program
BY DEF Next4

-----------------------------------------------------------------------------
(* Type correctness *)

LEMMA LoopTypeInit == LoopInit => LoopTypeOK
<1> SUFFICES ASSUME LoopInit PROVE LoopTypeOK
  OBVIOUS
<1>1. TypeOK
  BY TypeInit DEF LoopInit, VcpuInit
<1> QED
  BY <1>1 DEF LoopInit, VcpuInit, LoopTypeOK, Exits

\* LoopTypeOK is inductive.
LEMMA LoopTypeStep ==
    ASSUME LoopTypeOK, [LoopNext]_allVars
    PROVE  LoopTypeOK'
<1>1. ASSUME NEW r \in GPR, NEW value \in Values, GuestRuns(r, value)
      PROVE  LoopTypeOK'
  <2>1. TypeOK'
    <3>1. GuestComputes(r, value)
      BY <1>1 DEF GuestRuns
    <3>2. Next
      BY <3>1 DEF Next
    <3> QED
      BY <3>2, TypeStep DEF LoopTypeOK
  <2>2. pc' \in DOMAIN Program
    BY <1>1, NextPosition DEF LoopTypeOK, GuestRuns
  <2> QED
    BY <1>1, <2>1, <2>2 DEF LoopTypeOK, GuestRuns
<1>2. ASSUME UNCHANGED vars PROVE TypeOK'
  BY <1>2 DEF LoopTypeOK, TypeOK, vars
<1>3. ASSUME GuestTraps PROVE LoopTypeOK'
  BY <1>2, <1>3 DEF LoopTypeOK, GuestTraps, Exits
<1>4. ASSUME NEW reason \in Exits, VcpuExits(reason) PROVE LoopTypeOK'
  BY <1>2, <1>4 DEF LoopTypeOK, VcpuExits
<1>5. ASSUME LoopHandles PROVE LoopTypeOK'
  <2>1. CASE exit = "exception" /\ Handles(backend, Program[pc].class)
    <3>1. HandleSystemRegisterTrap
      BY <1>5, <2>1 DEF LoopHandles, IsException
    <3>2. TypeOK'
      <4>1. CASE UNCHANGED vars
        BY <1>2, <4>1
      <4>2. CASE \E place : /\ state_' = Written(place, {})
                            /\ reply' = [call |-> "emulateMSR", result |-> TRUE]
        <5>1. {} \in Word(64)
          BY DEF Word
        <5>2. state_ \in [Registers -> Word(64)] /\ gpr \in [GPR -> Word(64)]
          BY DEF LoopTypeOK, TypeOK
        <5>3. state_' \in [Registers -> Word(64)]
          BY <4>2, <5>1, <5>2, WrittenTyped
        <5>4. gpr' = gpr
          BY <3>1, TrapEffect
        <5>5. reply' \in Replies
          BY <4>2 DEF Replies
        <5> QED
          BY <5>2, <5>3, <5>4, <5>5 DEF TypeOK
      <4> QED
        BY <3>1, <4>1, <4>2, TrapEffect
    <3>3. pc' \in DOMAIN Program
      BY <3>1, TrapEffect, NextPosition DEF LoopTypeOK
    <3> QED
      BY <1>5, <3>2, <3>3 DEF LoopHandles, LoopTypeOK, Exits
  <2>2. CASE ~ (exit = "exception" /\ Handles(backend, Program[pc].class))
    <3>1. UNCHANGED <<vars, pc>>
      BY <1>5, <2>2 DEF LoopHandles, IsException
    <3> QED
      BY <1>2, <1>5, <3>1 DEF LoopHandles, LoopTypeOK, Exits
  <2> QED
    BY <2>1, <2>2
<1>6. ASSUME UNCHANGED allVars PROVE LoopTypeOK'
  BY <1>2, <1>6 DEF LoopTypeOK, allVars, loopVars
<1> QED
  BY <1>1, <1>3, <1>4, <1>5, <1>6 DEF LoopNext, GuestSteps

\* The loop keeps every variable of its own and of the emulator in its type.
THEOREM LoopTypeCorrect == LoopSpec => []LoopTypeOK
<1>1. LoopTypeOK /\ [LoopNext]_allVars => LoopTypeOK'
  BY LoopTypeStep
<1> QED
  BY LoopTypeInit, <1>1, PTL DEF LoopSpec

-----------------------------------------------------------------------------
(* The effect of a trap *)

\* Only the loop moves while an exception is pending.
LEMMA PendingException ==
    ASSUME exit = "exception", LoopNext
    PROVE  LoopHandles
BY DEF LoopNext, GuestSteps, GuestRuns, GuestTraps, VcpuExits, Running

\* What the loop changes, it changes for an exception, and what changes a
\* register or the PC passes the instruction.
LEMMA HandledOnce ==
    ASSUME LoopTypeOK, LoopHandles, <<state_, gpr, pc>>' # <<state_, gpr, pc>>
    PROVE  exit = "exception" /\ pc' = Next4(pc)
<1>1. ~ UNCHANGED <<vars, pc>>
  BY DEF vars
<1>2. exit = "exception" /\ HandleSystemRegisterTrap
  BY <1>1 DEF LoopHandles, IsException
<1>3. CASE UNCHANGED vars
  BY <1>1, <1>2, <1>3, TrapEffect
<1>4. CASE ~ UNCHANGED vars
  BY <1>2, <1>4, TrapEffect
<1> QED
  BY <1>2, <1>3, <1>4

\* While an exit is pending, only the loop moves.
LEMMA PendingExit ==
    ASSUME exit # "none", LoopNext
    PROVE  LoopHandles
BY DEF LoopNext, GuestSteps, GuestRuns, GuestTraps, VcpuExits, Running

\* An access takes effect once, for an exception and before the PC passes it,
\* in all three integrations and for every program: an interrupted call has
\* no effect, and the WHP handler forgets the PC after MRS, but no word
\* decodes to MRS.
THEOREM EmulatedOnceCorrect == LoopSpec => EmulatedOnce
<1> DEFINE Once == exit # "none" /\ <<state_, gpr, pc>>' # <<state_, gpr, pc>>
                       => exit = "exception" /\ pc' = Next4(pc)
<1>1. LoopTypeOK /\ [LoopNext]_allVars => LoopTypeOK'
  BY LoopTypeStep
<1>2. LoopTypeOK /\ [LoopNext]_allVars => [Once]_allVars
  BY PendingExit, HandledOnce
<1> QED
  BY LoopTypeInit, <1>1, <1>2, PTL DEF LoopSpec, EmulatedOnce

\* A trapped instruction can clear an emulated register and do nothing else:
\* for every program, no value of the guest reaches a system register and no
\* value of a system register reaches the guest.
THEOREM TrapsOnlyClearCorrect == LoopSpec => TrapsOnlyClear
<1> DEFINE Clears == exit = "exception" =>
              /\ gpr' = gpr
              /\ \A r \in Registers : state_'[r] \in {state_[r], {}}
<1>1. LoopTypeOK /\ [LoopNext]_allVars => LoopTypeOK'
  BY LoopTypeStep
<1>2. ASSUME LoopTypeOK, LoopNext PROVE Clears
  <2> SUFFICES ASSUME exit = "exception"
               PROVE  /\ gpr' = gpr
                      /\ \A r \in Registers : state_'[r] \in {state_[r], {}}
    OBVIOUS
  <2>1. LoopHandles
    BY <1>2, PendingException
  <2>2. CASE UNCHANGED vars
    BY <2>2 DEF vars
  <2>3. CASE HandleSystemRegisterTrap
    <3>1. CASE UNCHANGED vars
      BY <3>1 DEF vars
    <3>2. CASE \E place : state_' = Written(place, {})
      BY <1>2, <2>3, <3>2, TrapEffect DEF Written
    <3> QED
      BY <1>2, <2>3, <3>1, <3>2, TrapEffect
  <2> QED
    BY <2>1, <2>2, <2>3 DEF LoopHandles
<1>3. LoopTypeOK /\ [LoopNext]_allVars => [Clears]_allVars
  BY <1>2
<1> QED
  BY LoopTypeInit, <1>1, <1>3, PTL DEF LoopSpec, TrapsOnlyClear

-----------------------------------------------------------------------------
(* Which trapped instructions are passed                                   *)

\* pc + 4 is another place: a program has more than one instruction.
LEMMA NextElsewhere ==
    ASSUME NEW p \in DOMAIN Program
    PROVE  Next4(p) # p
<1> DEFINE Instr == [word : Word(32), class : Classes]
<1>1. Len(Program) \in Nat /\ Len(Program) > 1 /\ DOMAIN Program = 1 .. Len(Program)
  <2>1. Program \in Seq(Instr) /\ Len(Program) > 1
    OBVIOUS
  <2> HIDE DEF Instr
  <2> QED
    BY <2>1
<1> QED
  BY <1>1 DEF Next4

\* What the PC does at an exception: HVF passes every access (class 5), WHP
\* the moves it decodes, KVM these and the barrier and waits the decoder
\* knows.
PassesWhatItDecodes ==
    exit = "exception" =>
        LET type == DecodeSystemInstruction(Fetched).type
        IN  /\ pc' \in {pc, Next4(pc)}
            /\ pc' # pc <=>
                 \/ backend = "hvf" /\ Program[pc].class = "system_register"
                 \/ backend = "kvm" /\ type \in {"MSR_IMM", "ISB", "WFI", "WFE"}
                 \/ backend = "whp" /\ type = "MSR_IMM"

\* One step of the loop, from the decoder's live types.
LEMMA PassesWhat ==
    ASSUME LoopTypeOK, exit = "exception", LoopHandles
    PROVE  PassesWhatItDecodes
<1> DEFINE type == DecodeSystemInstruction(Fetched).type
<1>1. type \in LiveTypes /\ backend \in {"kvm", "hvf", "whp"}
  BY DecodedTrap DEF LoopTypeOK
<1>2. Next4(pc) # pc
  BY NextElsewhere DEF LoopTypeOK
<1>3. CASE Handles(backend, Program[pc].class)
  <2>1. pc' = IF Passes(backend, type) THEN Next4(pc) ELSE pc
    BY <1>3 DEF LoopHandles, IsException, HandleSystemRegisterTrap
  <2> HIDE DEF type
  <2>2. Passes(backend, type) <=>
          \/ backend = "hvf"
          \/ backend = "kvm" /\ type \in {"MSR_IMM", "ISB", "WFI", "WFE"}
          \/ backend = "whp" /\ type = "MSR_IMM"
    BY <1>1 DEF Passes, KVMPasses, HVFPasses, WHPPasses, MSR, MRS, Barriers,
                Waits, Types, LiveTypes
  <2>3. backend = "hvf" => Program[pc].class = "system_register"
    BY <1>3 DEF Handles
  <2> QED
    BY <1>2, <2>1, <2>2, <2>3 DEF PassesWhatItDecodes, type
<1>4. CASE ~ Handles(backend, Program[pc].class)
  <2>1. pc' = pc
    BY <1>4 DEF LoopHandles
  <2>2. backend = "hvf" /\ Program[pc].class # "system_register"
    BY <1>4 DEF Handles
  <2> QED
    BY <2>1, <2>2 DEF PassesWhatItDecodes
<1> QED
  BY <1>3, <1>4

\* Which exceptions move the PC, exactly, for every program and whatever the
\* fetch returns.  It is what HVFProgress and KVMProgress ask of one step:
\* HVF passes every trapped access, KVM only what it can decode.
THEOREM PassesCorrect == LoopSpec => [][PassesWhatItDecodes]_allVars
<1>1. LoopTypeOK /\ [LoopNext]_allVars => LoopTypeOK'
  BY LoopTypeStep
<1>2. LoopTypeOK /\ [LoopNext]_allVars => [PassesWhatItDecodes]_allVars
  BY PassesWhat, PendingException DEF PassesWhatItDecodes
<1> QED
  BY LoopTypeInit, <1>1, <1>2, PTL DEF LoopSpec

\* The word 0 matches no test.
LEMMA ZeroUnknown ==
    DecodeSystemInstruction({}).type = "UNKNOWN"
<1>1. \A i \in 1 .. 10 : 26 \in Patterns[i].value
  BY DEF Patterns, Test, D5
<1>0. DOMAIN Patterns = 1 .. 10
  BY DEF Patterns
<1>2. Matching({}) = {}
  BY <1>0, <1>1 DEF Matching, Matches
<1> QED
  BY <1>2 DEF DecodeSystemInstruction, TypeOf

\* The handler with the fetch as it is.
LEMMA StubTrap ==
    ASSUME LoopTypeOK, exit = "exception", ~ reads, LoopHandles
    PROVE  /\ UNCHANGED <<state_, gpr>>
           /\ pc' # pc => backend = "hvf"
<1>1. DecodeSystemInstruction(Fetched).type = "UNKNOWN"
  BY ZeroUnknown DEF Fetched
<1>2. pc' # pc => backend = "hvf"
  BY <1>1, PassesWhat DEF PassesWhatItDecodes
<1>3. UNCHANGED vars
  BY <1>1 DEF LoopHandles, HandleSystemRegisterTrap, MSR, MRS
<1> QED
  BY <1>2, <1>3 DEF vars

\* As the code stands, no guest has a register emulated, whatever it does.
THEOREM StubEmulatesNothingCorrect == LoopSpec => StubEmulatesNothing
<1> DEFINE Nothing == exit = "exception" /\ ~ reads =>
                         /\ UNCHANGED <<state_, gpr>>
                         /\ pc' # pc => backend = "hvf"
<1>1. LoopTypeOK /\ [LoopNext]_allVars => LoopTypeOK'
  BY LoopTypeStep
<1>2. LoopTypeOK /\ [LoopNext]_allVars => [Nothing]_allVars
  BY StubTrap, PendingException
<1> QED
  BY LoopTypeInit, <1>1, <1>2, PTL DEF LoopSpec, StubEmulatesNothing

\* The guest of KVM or WHP is at an instruction that traps.
StuckAt(p) ==
    /\ backend \in {"kvm", "whp"} /\ ~ reads
    /\ pc = p /\ Program[p].class # "runs"

\* Neither the guest, nor another exit, nor the handler moves it.
LEMMA StuckStep ==
    ASSUME LoopTypeOK, NEW p, StuckAt(p), LoopNext
    PROVE  StuckAt(p)'
<1>1. ASSUME NEW r \in GPR, NEW value \in Values, GuestRuns(r, value)
      PROVE  FALSE
  BY <1>1 DEF GuestRuns, StuckAt
<1>2. CASE GuestTraps \/ \E reason \in Exits : VcpuExits(reason)
  BY <1>2 DEF GuestTraps, VcpuExits, StuckAt
<1>3. CASE LoopHandles
  <2>1. CASE exit = "exception"
    <3>1. pc' = pc
      BY <1>3, <2>1, StubTrap DEF StuckAt
    <3> QED
      BY <1>3, <3>1 DEF LoopHandles, StuckAt
  <2>2. CASE exit # "exception"
    BY <1>3, <2>2 DEF LoopHandles, IsException, StuckAt
  <2> QED
    BY <2>1, <2>2
<1> QED
  BY <1>1, <1>2, <1>3 DEF LoopNext, GuestSteps

\* As the code stands, a guest of KVM or WHP that reaches an instruction that
\* traps stays there for ever: KVMProgress fails for every such program.
THEOREM StuckForEver ==
    ASSUME NEW CONSTANT p \in DOMAIN Program
    PROVE  LoopSpec => [](StuckAt(p) => []StuckAt(p))
<1>1. LoopTypeOK /\ [LoopNext]_allVars => LoopTypeOK'
  BY LoopTypeStep
<1>2. LoopTypeOK /\ StuckAt(p) /\ [LoopNext]_allVars => StuckAt(p)'
  BY StuckStep DEF allVars, loopVars, StuckAt
<1> QED
  BY LoopTypeInit, <1>1, <1>2, PTL DEF LoopSpec
=============================================================================
