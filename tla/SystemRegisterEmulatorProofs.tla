-------------------- MODULE SystemRegisterEmulatorProofs --------------------
(***************************************************************************)
(* Type correctness of SystemRegisterEmulator, the identity registers, the *)
(* views of a register, and the implementation of RegisterFile, for every  *)
(* set of instructions, values, assignments and general purpose registers. *)
(***************************************************************************)
EXTENDS SystemRegisterEmulator, TLAPS

USE InstructionAssumption, HostAssumption, ValueAssumption

-----------------------------------------------------------------------------
(* Type correctness *)

\* A layout puts its fields in 64 bits.
Placed(layout) ==
    \A f \in DOMAIN layout :
        /\ layout[f][1] \in Nat /\ layout[f][2] \in Nat
        /\ layout[f][1] + layout[f][2] <= 64

LEMMA LayoutsPlaced ==
    ASSUME NEW r \in DOMAIN Layout
    PROVE  Placed(Layout[r])
<1>1. Placed(SCTLR) /\ Placed(TCR)
  BY DEF Placed, SCTLR, TCR
<1>2. Placed(TTBR) /\ Placed(ESR) /\ Placed(MPIDR)
  BY DEF Placed, TTBR, ESR, MPIDR
<1>3. Layout[r] \in {SCTLR, TCR, TTBR, ESR, MPIDR}
  BY DEF Layout
<1> QED
  BY <1>1, <1>2, <1>3

LEMMA ResetTyped == ResetState \in [Registers -> Word(64)]
<1>1. \A r \in Registers : ResetState[r] \in Word(64)
  BY DEF ResetState, Word
<1> QED
  BY <1>1 DEF ResetState

\* Every view is a view of a stored register.
LEMMA ViewedRegisters == DOMAIN Layout \subseteq Registers
BY DEF Layout, Registers, WritableRegisters, IdentityRegisters

LEMMA WordBits ==
    ASSUME NEW x
    PROVE  x \in Word(64) <=> \A b \in x : b \in Nat /\ b < 64
<1>1. \A b : b \in 0 .. 64 - 1 <=> b \in Nat /\ b < 64
  OBVIOUS
<1>2. x \in Word(64) <=> x \subseteq 0 .. 64 - 1
  BY DEF Word
<1> QED
  BY <1>1, <1>2

\* A field that is assigned, or a base address that is set, leaves a word.
LEMMA ViewsTyped ==
    ASSUME NEW w \in Word(64), NEW field, field[1] \in Nat, NEW x
    PROVE  /\ WithField(w, field, x) \in Word(64)
           /\ x \in Word(64) => WithBaseAddress(w, x) \in Word(64)
<1>1. \A b \in ShiftLeft(LowBits(x, field[2]), field[1], 64) :
          b \in Nat /\ b < 64
  BY DEF ShiftLeft
<1>2. \A b \in WithField(w, field, x) : b \in Nat /\ b < 64
  BY <1>1, WordBits DEF WithField
<1>3. x \in Word(64) =>
          \A b \in WithBaseAddress(w, x) : b \in Nat /\ b < 64
  BY WordBits DEF WithBaseAddress, ClearLow
<1> QED
  BY <1>2, <1>3, WordBits

\* A write keeps the type and touches nothing but one writable register.
LEMMA WrittenTyped ==
    ASSUME NEW place, NEW value \in Word(64),
           state_ \in [Registers -> Word(64)]
    PROVE  Written(place, value) \in [Registers -> Word(64)]
BY DEF Written

\* What a read gives is a word, 0 at a place that is not stored.
LEMMA ReadTyped ==
    ASSUME NEW place, state_ \in [Registers -> Word(64)]
    PROVE  /\ ReadSystemRegister(place) \subseteq Word(64)
           /\ UNION ReadSystemRegister(place) \in Word(64)
<1>1. ReadSystemRegister(place) \subseteq Word(64)
  BY DEF ReadSystemRegister
<1> QED
  BY <1>1 DEF Word

\* TypeOK is inductive.
LEMMA TypeStep ==
    ASSUME TypeOK, [Next]_vars
    PROVE  TypeOK'
<1> USE DEF TypeOK
<1>1. ASSUME NEW i \in Instructions, EmulateMSR(i) PROVE TypeOK'
  <2>1. gpr[i.rt] \in Word(64) /\ i.immediate \in Word(64)
    OBVIOUS
  <2>2. state_' \in [Registers -> Word(64)]
    BY <1>1, <2>1, WrittenTyped DEF EmulateMSR
  <2> QED
    BY <1>1, <2>2 DEF EmulateMSR, Replies
<1>2. ASSUME NEW i \in Instructions, EmulateMSRFails(i) PROVE TypeOK'
  BY <1>2 DEF EmulateMSRFails, Replies
<1>3. ASSUME NEW i \in Instructions, EmulateMRS(i) PROVE TypeOK'
  BY <1>3, ReadTyped DEF EmulateMRS, Replies
<1>4. ASSUME NEW i \in Instructions, EmulateMRSFails(i) PROVE TypeOK'
  BY <1>4 DEF EmulateMRSFails, Replies
<1>5. ASSUME NEW place, CallReadSystemRegister(place) PROVE TypeOK'
  BY <1>5, ReadTyped DEF CallReadSystemRegister, Replies
<1>6. ASSUME NEW place, NEW value \in Values,
             CallWriteSystemRegister(place, value)
      PROVE  TypeOK'
  BY <1>6, WrittenTyped DEF CallWriteSystemRegister, Replies
<1>7. ASSUME NEW pc \in Values, NEW esr \in Values, NEW far \in Values,
             HandleExceptionEntry(pc, esr, far)
      PROVE  TypeOK'
  <2>1. state_' \in [Registers -> Word(64)]
    BY <1>7 DEF HandleExceptionEntry, Recorded
  <2> QED
    BY <1>7, <2>1 DEF HandleExceptionEntry, Replies
<1>8. ASSUME HandleExceptionReturn PROVE TypeOK'
  BY <1>8 DEF HandleExceptionReturn, Replies, Registers, WritableRegisters
<1>9. ASSUME NEW r \in Registers, NEW value \in Values, HostEdits(r, value)
      PROVE  TypeOK'
  BY <1>9 DEF HostEdits, Replies
<1>10. ASSUME NEW a \in Assignments, HostAssigns(a) PROVE TypeOK'
  <2>1. /\ a.register \in DOMAIN Layout
        /\ a.field \in DOMAIN Layout[a.register]
    OBVIOUS
  <2>2. state_[a.register] \in Word(64)
    BY <2>1, ViewedRegisters
  <2>3. Layout[a.register][a.field][1] \in Nat
    BY <2>1, LayoutsPlaced DEF Placed
  <2>4. WithField(state_[a.register], Layout[a.register][a.field], a.value)
            \in Word(64)
    BY <2>2, <2>3, ViewsTyped
  <2>5. state_' \in [Registers -> Word(64)]
    BY <1>10, <2>4 DEF HostAssigns
  <2> QED
    BY <1>10, <2>5 DEF HostAssigns, Replies
<1>11. ASSUME NEW addr \in Addresses, SetBaseAddress(addr) PROVE TypeOK'
  <2>1. state_.TTBR0_EL1 \in Word(64)
    BY DEF Registers, WritableRegisters
  <2>2. WithBaseAddress(state_.TTBR0_EL1, addr) \in Word(64)
    <3>1. TTBR.BADDR[1] \in Nat
      BY DEF TTBR
    <3> QED
      BY <2>1, <3>1, ViewsTyped
  <2>3. state_' \in [Registers -> Word(64)]
    BY <1>11, <2>2 DEF SetBaseAddress
  <2> QED
    BY <1>11, <2>3 DEF SetBaseAddress, Replies
<1>12. ASSUME Reset PROVE TypeOK'
  BY <1>12, ResetTyped DEF Reset, Replies
<1>13. ASSUME NEW r \in GPR, NEW value \in Values, GuestComputes(r, value)
       PROVE  TypeOK'
  BY <1>13 DEF GuestComputes
<1>14. ASSUME UNCHANGED vars PROVE TypeOK'
  BY <1>14 DEF vars
<1> QED
  BY <1>1, <1>2, <1>3, <1>4, <1>5, <1>6, <1>7, <1>8, <1>9, <1>10, <1>11, <1>12,
     <1>13, <1>14
     DEF Next

LEMMA TypeInit == Init => TypeOK
<1>1. {} \in Word(64)
  OBVIOUS
<1> QED
  BY <1>1, ResetTyped DEF Init, TypeOK, Replies

\* Every variable keeps its type: no call leaves a register wider than 64
\* bits or without a value.
THEOREM TypeCorrect == Spec => []TypeOK
<1>1. TypeOK /\ [Next]_vars => TypeOK'
  BY TypeStep
<1> QED
  BY TypeInit, <1>1, PTL DEF Spec

-----------------------------------------------------------------------------
(* The identity registers *)

\* Only the hypervisor's reference to the state and reset() can change
\* MPIDR_EL1 and MIDR_EL1: no MSR, whatever place it names, and no exception.
THEOREM IdentityCorrect == Spec => IdentityReadOnly
<1> DEFINE Kept == \A r \in IdentityRegisters : state_'[r] # state_[r]
                       => reply'.call \in {"getState", "reset"}
<1>1. TypeOK /\ [Next]_vars => TypeOK'
  BY TypeStep
<1>2. ASSUME TypeOK, [Next]_vars PROVE Kept
  <2> SUFFICES ASSUME NEW r \in IdentityRegisters, state_'[r] # state_[r]
               PROVE  reply'.call \in {"getState", "reset"}
    OBVIOUS
  <2>1. r \in Registers /\ r \notin WritableRegisters
    BY DEF IdentityRegisters, Registers, WritableRegisters
  <2>2. \A place, value : Written(place, value)[r] = state_[r]
    BY <2>1 DEF Written
  <2>3. \A i \in Instructions : ~ EmulateMSR(i)
    BY <2>2 DEF EmulateMSR
  <2>4. \A place, value : ~ CallWriteSystemRegister(place, value)
    BY <2>2 DEF CallWriteSystemRegister
  <2>5. \A pc, esr, far : ~ HandleExceptionEntry(pc, esr, far)
    BY <1>2, <2>1 DEF HandleExceptionEntry, Recorded, TypeOK, IdentityRegisters
  <2>6. \A place : ~ CallReadSystemRegister(place)
    BY DEF CallReadSystemRegister
  <2>7. \A i \in Instructions :
            ~ EmulateMSRFails(i) /\ ~ EmulateMRS(i) /\ ~ EmulateMRSFails(i)
    BY DEF EmulateMSRFails, EmulateMRS, EmulateMRSFails
  <2>8. ~ HandleExceptionReturn /\ ~ UNCHANGED vars
    BY DEF HandleExceptionReturn, vars
  <2>9. \A x \in GPR, value \in Values : ~ GuestComputes(x, value)
    BY DEF GuestComputes
  <2>10. \/ Reset
         \/ \E x \in HostRegisters \cap Registers, value \in Values :
                HostEdits(x, value)
         \/ \E a \in Assignments : HostAssigns(a)
         \/ \E addr \in Addresses : SetBaseAddress(addr)
    BY <1>2, <2>3, <2>4, <2>5, <2>6, <2>7, <2>8, <2>9 DEF Next
  <2> QED
    BY <2>10 DEF Reset, HostEdits, HostAssigns, SetBaseAddress
<1>3. TypeOK /\ [Next]_vars => [Kept]_vars
  BY <1>2
<1> QED
  BY TypeInit, <1>1, <1>3, PTL DEF Spec, IdentityReadOnly

-----------------------------------------------------------------------------
(* The views of a register *)

\* For every word of TTBR0_EL1 and every address: when setBaseAddress does
\* what an assignment to BADDR does, and when getBaseAddress undoes it.
LEMMA BaseAddressWord ==
    ASSUME NEW old \in Word(64), NEW addr \in Word(64)
    PROVE  LET new == WithBaseAddress(old, addr)
               asid == FieldOf(old, TTBR.ASID)
               upper == FieldOf(addr, TTBR.ASID)
           IN  /\ new = WithField(old, TTBR.BADDR, addr)
                     <=> LowBits(addr, 16) = {} /\ upper \subseteq asid
               /\ BaseAddress(new) = addr
                     <=> LowBits(addr, 16) = {} /\ asid \subseteq upper
<1> DEFINE new == WithBaseAddress(old, addr)
           asid == FieldOf(old, TTBR.ASID)
           upper == FieldOf(addr, TTBR.ASID)
           field == WithField(old, TTBR.BADDR, addr)
<1>1. \A b : b \in new <=> (b \in old /\ 48 <= b) \/ (b \in addr /\ 16 <= b)
  BY DEF WithBaseAddress, ClearLow
<1>2. \A b \in 0 .. 63 : b \in field <=> IF b < 48 THEN b \in addr ELSE b \in old
  BY DEF WithField, Positions, ShiftLeft, LowBits, TTBR
<1>3. new \subseteq 0 .. 63 /\ field \subseteq 0 .. 63
  <2>1. TTBR.BADDR[1] \in Nat
    BY DEF TTBR
  <2>2. new \in Word(64) /\ field \in Word(64)
    BY <2>1, ViewsTyped
  <2> HIDE DEF new, field
  <2> QED
    BY <2>2, WordBits
<1>4. upper \subseteq asid <=> \A b \in 48 .. 63 : b \in addr => b \in old
  <2>1. \A b \in 48 .. 63 : /\ b - 48 \in upper <=> b \in addr
                            /\ b - 48 \in asid <=> b \in old
    BY DEF FieldOf, Field, TTBR
  <2>2. \A c \in upper : c + 48 \in 48 .. 63 /\ (c + 48) - 48 = c
    BY DEF FieldOf, Field, TTBR
  <2> HIDE DEF upper, asid
  <2> QED
    BY <2>1, <2>2
<1>5. asid \subseteq upper <=> \A b \in 48 .. 63 : b \in old => b \in addr
  <2>1. \A b \in 48 .. 63 : /\ b - 48 \in upper <=> b \in addr
                            /\ b - 48 \in asid <=> b \in old
    BY DEF FieldOf, Field, TTBR
  <2>2. \A c \in asid : c + 48 \in 48 .. 63 /\ (c + 48) - 48 = c
    BY DEF FieldOf, Field, TTBR
  <2> HIDE DEF upper, asid
  <2> QED
    BY <2>1, <2>2
<1>6. LowBits(addr, 16) = {} <=> \A b \in 0 .. 15 : b \notin addr
  <2>1. \A b \in addr : b < 16 <=> b \in 0 .. 15
    BY WordBits
  <2> QED
    BY <2>1 DEF LowBits
<1>7. \A b : b \in BaseAddress(new) <=> b \in new /\ 16 <= b
  BY DEF BaseAddress, ClearLow
<1>8. old \subseteq 0 .. 63 /\ addr \subseteq 0 .. 63
  BY DEF Word
<1> HIDE DEF new, asid, upper, field
<1>9. new = field <=> LowBits(addr, 16) = {} /\ upper \subseteq asid
  <2>1. new = field <=> \A b \in 0 .. 63 : b \in new <=> b \in field
    BY <1>3
  <2>2. (\A b \in 0 .. 63 : b \in new <=> b \in field)
            <=> /\ \A b \in 0 .. 15 : b \notin addr
                /\ \A b \in 48 .. 63 : b \in addr => b \in old
    BY <1>1, <1>2
  <2> QED
    BY <1>4, <1>6, <2>1, <2>2
<1>10. BaseAddress(new) = addr <=> LowBits(addr, 16) = {} /\ asid \subseteq upper
  <2>1. BaseAddress(new) = addr
            <=> \A b \in 0 .. 63 : b \in BaseAddress(new) <=> b \in addr
    BY <1>3, <1>7, <1>8
  <2>2. (\A b \in 0 .. 63 : b \in BaseAddress(new) <=> b \in addr)
            <=> /\ \A b \in 0 .. 15 : b \notin addr
                /\ \A b \in 48 .. 63 : b \in old => b \in addr
    BY <1>1, <1>7
  <2> QED
    BY <1>5, <1>6, <2>1, <2>2
<1> QED
  BY <1>9, <1>10 DEF new, asid, upper, field

\* setBaseAddress and BADDR agree exactly for the addresses that end in 16
\* zeros and have no upper bits beyond the ASID's, in every state.
THEOREM BaseAddressCorrect == Spec => BaseAddressIsField
<1> DEFINE Agrees == \A addr \in Addresses : SetBaseAddress(addr) =>
           LET old == state_.TTBR0_EL1
               new == state_'.TTBR0_EL1
               asid == FieldOf(old, TTBR.ASID)
               upper == FieldOf(addr, TTBR.ASID)
           IN  /\ new = WithField(old, TTBR.BADDR, addr)
                     <=> LowBits(addr, 16) = {} /\ upper \subseteq asid
               /\ BaseAddress(new) = addr
                     <=> LowBits(addr, 16) = {} /\ asid \subseteq upper
<1>1. TypeOK /\ [Next]_vars => TypeOK'
  BY TypeStep
<1>2. ASSUME TypeOK PROVE Agrees
  <2> SUFFICES ASSUME NEW addr \in Addresses, SetBaseAddress(addr)
               PROVE  Agrees!(addr)!2
    OBVIOUS
  <2>1. state_.TTBR0_EL1 \in Word(64)
    BY <1>2 DEF TypeOK, Registers, WritableRegisters
  <2>2. state_'.TTBR0_EL1 = WithBaseAddress(state_.TTBR0_EL1, addr)
    BY <1>2 DEF SetBaseAddress, TypeOK, Registers, WritableRegisters
  <2> QED
    BY <2>1, <2>2, BaseAddressWord
<1>3. TypeOK => [Agrees]_vars
  BY <1>2
<1> QED
  BY TypeInit, <1>1, <1>3, PTL DEF Spec, BaseAddressIsField

-----------------------------------------------------------------------------
(* The emulator implements the register file *)

\* No two registers have the same place.
LEMMA PlacesDiffer ==
    ASSUME NEW r \in Registers, NEW s \in Registers, Encoding[r] = Encoding[s]
    PROVE  r = s
BY DEF Registers, WritableRegisters, IdentityRegisters, Encoding

LEMMA EveryRegisterPlaced ==
    ASSUME NEW r \in Registers
    PROVE  r \in DOMAIN Encoding /\ Encoding[r] \in Places
BY DEF Places, Registers, WritableRegisters, IdentityRegisters, Encoding

\* The place of a register holds its word, any other place holds 0.
LEMMA AtRegister ==
    ASSUME NEW state, NEW r \in Registers
    PROVE  RegisterAt(state, Encoding[r]) = state[r]
<1>1. {s \in Registers : Encoding[s] = Encoding[r]} = {r}
  BY PlacesDiffer
<1> QED
  BY <1>1 DEF RegisterAt

LEMMA AtNoRegister ==
    ASSUME NEW state, NEW place, \A r \in Registers : Encoding[r] # place
    PROVE  RegisterAt(state, place) = {}
<1>1. {s \in Registers : Encoding[s] = place} = {}
  OBVIOUS
<1> QED
  BY <1>1 DEF RegisterAt

\* The file that a state of the registers stands for
FileOf(state) == [place \in Places |-> RegisterAt(state, place)]

\* Files are the same when the registers agree at every place.
LEMMA SameFile ==
    ASSUME NEW state, NEW f, f = [place \in Places |-> f[place]],
           \A r \in Registers : f[Encoding[r]] = state[r],
           \A place \in Places : (\A r \in Registers : Encoding[r] # place)
                                     => f[place] = {}
    PROVE  FileOf(state) = f
<1>1. \A place \in Places : RegisterAt(state, place) = f[place]
  <2> SUFFICES ASSUME NEW place \in Places
               PROVE  RegisterAt(state, place) = f[place]
    OBVIOUS
  <2>1. CASE \E r \in Registers : Encoding[r] = place
    BY <2>1, AtRegister
  <2>2. CASE \A r \in Registers : Encoding[r] # place
    BY <2>2, AtNoRegister
  <2> QED
    BY <2>1, <2>2
<1> QED
  BY <1>1 DEF FileOf

\* What a read returns, in terms of the file.
LEMMA ReadFile ==
    ASSUME NEW place \in Places
    PROVE  /\ UNION ReadSystemRegister(place) = FileOf(state_)[place]
           /\ ReadSystemRegister(place) =
                 IF place \in {Encoding[r] : r \in Registers}
                 THEN {FileOf(state_)[place]} ELSE {}
<1>1. ReadSystemRegister(place) =
          {state_[r] : r \in {s \in Registers : Encoding[s] = place}}
  BY DEF ReadSystemRegister
<1>2. CASE \E r \in Registers : Encoding[r] = place
  <2>1. PICK r \in Registers : Encoding[r] = place
    BY <1>2
  <2>2. {s \in Registers : Encoding[s] = place} = {r}
    BY <2>1, PlacesDiffer
  <2>3. ReadSystemRegister(place) = {state_[r]}
    BY <1>1, <2>2
  <2>4. FileOf(state_)[place] = state_[r]
    BY <2>1, AtRegister DEF FileOf
  <2> QED
    BY <2>1, <2>3, <2>4
<1>3. CASE \A r \in Registers : Encoding[r] # place
  <2>1. ReadSystemRegister(place) = {}
    BY <1>1, <1>3
  <2>2. FileOf(state_)[place] = {}
    BY <1>3, AtNoRegister DEF FileOf
  <2> QED
    BY <1>3, <2>1, <2>2
<1> QED
  BY <1>2, <1>3

\* A write of the emulator is a write of the file.
LEMMA WrittenFile ==
    ASSUME NEW place \in Places, NEW value
    PROVE  FileOf(Written(place, value)) =
               IF place \in {Encoding[r] : r \in WritableRegisters}
               THEN [FileOf(state_) EXCEPT ![place] = value]
               ELSE FileOf(state_)
<1> DEFINE f == IF place \in {Encoding[r] : r \in WritableRegisters}
                THEN [FileOf(state_) EXCEPT ![place] = value]
                ELSE FileOf(state_)
<1>1. f = [p \in Places |-> f[p]]
  BY DEF FileOf
<1>2. \A r \in Registers : f[Encoding[r]] = Written(place, value)[r]
  <2> SUFFICES ASSUME NEW r \in Registers
               PROVE  f[Encoding[r]] = Written(place, value)[r]
    OBVIOUS
  <2>1. FileOf(state_)[Encoding[r]] = state_[r]
    BY AtRegister, EveryRegisterPlaced DEF FileOf
  <2>2. CASE r \in WritableRegisters /\ Encoding[r] = place
    BY <2>2, EveryRegisterPlaced DEF Written, FileOf
  <2>3. CASE ~ (r \in WritableRegisters /\ Encoding[r] = place)
    <3>1. Written(place, value)[r] = state_[r]
      BY <2>3 DEF Written
    <3>2. WritableRegisters \subseteq Registers
      BY DEF Registers
    <3>3. Encoding[r] = place
              => place \notin {Encoding[s] : s \in WritableRegisters}
      BY <2>3, <3>2, PlacesDiffer
    <3> QED
      BY <2>1, <3>1, <3>3 DEF FileOf
  <2> QED
    BY <2>2, <2>3
<1>3. \A p \in Places : (\A r \in Registers : Encoding[r] # p) => f[p] = {}
  <2> SUFFICES ASSUME NEW p \in Places, \A r \in Registers : Encoding[r] # p
               PROVE  f[p] = {}
    OBVIOUS
  <2>1. FileOf(state_)[p] = {}
    BY AtNoRegister DEF FileOf
  <2>2. WritableRegisters \subseteq Registers
    BY DEF Registers
  <2> QED
    BY <2>1, <2>2 DEF FileOf
<1> HIDE DEF f
<1>4. FileOf(Written(place, value)) = f
  BY <1>1, <1>2, <1>3, SameFile
<1> QED
  BY <1>4 DEF f

\* An assignment to one register is an assignment to its place.
LEMMA EditedFile ==
    ASSUME NEW register \in Registers, NEW value,
           state_ \in [Registers -> Word(64)]
    PROVE  FileOf([state_ EXCEPT ![register] = value]) =
               [FileOf(state_) EXCEPT ![Encoding[register]] = value]
<1> DEFINE s == [state_ EXCEPT ![register] = value]
           f == [FileOf(state_) EXCEPT ![Encoding[register]] = value]
<1>1. f = [p \in Places |-> f[p]]
  BY DEF FileOf
<1>2. \A r \in Registers : f[Encoding[r]] = s[r]
  <2> SUFFICES ASSUME NEW r \in Registers PROVE f[Encoding[r]] = s[r]
    OBVIOUS
  <2>1. FileOf(state_)[Encoding[r]] = state_[r]
    BY AtRegister, EveryRegisterPlaced DEF FileOf
  <2>2. r # register => Encoding[r] # Encoding[register]
    BY PlacesDiffer
  <2> QED
    BY <2>1, <2>2, EveryRegisterPlaced DEF FileOf
<1>3. \A p \in Places : (\A r \in Registers : Encoding[r] # p) => f[p] = {}
  BY AtNoRegister DEF FileOf
<1> HIDE DEF s, f
<1>4. FileOf(s) = f
  BY <1>1, <1>2, <1>3, SameFile
<1> QED
  BY <1>4 DEF s, f

\* An exception changes the places of its three registers.
LEMMA EnteredFile ==
    ASSUME NEW pc \in Word(64), NEW esr \in Word(64), NEW far \in Word(64),
           state_ \in [Registers -> Word(64)]
    PROVE  FileOf(Recorded(pc, esr, far)) = File!Entered(pc, esr, far)
<1> DEFINE s == Recorded(pc, esr, far)
           f == File!Entered(pc, esr, far)
<1> USE DEF Recorded, File!Entered
<1>0. {"ELR_EL1", "ESR_EL1", "FAR_EL1"} \subseteq Registers
  BY DEF Registers, WritableRegisters
<1>1. f = [p \in Places |-> f[p]]
  BY DEF FileOf
<1>2. \A r \in Registers : f[Encoding[r]] = s[r]
  <2> SUFFICES ASSUME NEW r \in Registers PROVE f[Encoding[r]] = s[r]
    OBVIOUS
  <2>1. FileOf(state_)[Encoding[r]] = state_[r]
    BY AtRegister, EveryRegisterPlaced DEF FileOf
  <2>2. \A q \in {"ELR_EL1", "ESR_EL1", "FAR_EL1"} :
            r # q => Encoding[r] # Encoding[q]
    BY <1>0, PlacesDiffer
  <2>3. Encoding[r] \in Places
    BY EveryRegisterPlaced
  <2>4. CASE r = "FAR_EL1"
    BY <1>0, <2>3, <2>4 DEF FileOf
  <2>5. CASE r = "ESR_EL1"
    BY <1>0, <2>2, <2>3, <2>5 DEF FileOf
  <2>6. CASE r = "ELR_EL1"
    BY <1>0, <2>2, <2>3, <2>6 DEF FileOf
  <2>7. CASE r \notin {"ELR_EL1", "ESR_EL1", "FAR_EL1"}
    BY <2>1, <2>2, <2>3, <2>7 DEF FileOf
  <2> QED
    BY <2>4, <2>5, <2>6, <2>7
<1>3. \A p \in Places : (\A r \in Registers : Encoding[r] # p) => f[p] = {}
  BY <1>0, AtNoRegister DEF FileOf
<1> HIDE DEF s, f
<1>4. FileOf(s) = f
  BY <1>1, <1>2, <1>3, SameFile
<1> QED
  BY <1>4 DEF s, f

\* Every step of the emulator is a step of the file, or leaves it alone.
LEMMA StepImplements ==
    ASSUME TypeOK, [Next]_vars
    PROVE  [File!Next]_<<FileOf(state_), gpr, reply>>
<1> USE DEF TypeOK
<1> DEFINE file == FileOf(state_)
<1>1. ASSUME NEW i \in Instructions, EmulateMSR(i) PROVE File!Next
  <2>1. Place(i) \in Places
    BY DEF Places
  <2>2. \A value : state_' = Written(Place(i), value)
                       => File!GuestWrites(Place(i), value)
    BY <1>1, <2>1, WrittenFile DEF EmulateMSR, File!GuestWrites, File!Written, FileOf
  <2>3. CASE i.type = "MSR_REG"
    BY <1>1, <2>1, <2>2, <2>3 DEF EmulateMSR, File!Next
  <2>4. CASE i.type # "MSR_REG"
    BY <1>1, <2>1, <2>2, <2>4 DEF EmulateMSR, File!Next
  <2> QED
    BY <2>3, <2>4
<1>2. ASSUME NEW i \in Instructions, EmulateMSRFails(i) PROVE File!Next
  BY <1>2 DEF EmulateMSRFails, File!Next, File!GuestRefused
<1>3. ASSUME NEW i \in Instructions, EmulateMRS(i) PROVE File!Next
  <2>1. Place(i) \in Places
    BY DEF Places
  <2>2. File!GuestReads(Place(i), i.rt)
    BY <1>3, <2>1, ReadFile DEF EmulateMRS, File!GuestReads, FileOf
  <2> QED
    BY <2>1, <2>2 DEF File!Next
<1>4. ASSUME NEW i \in Instructions, EmulateMRSFails(i) PROVE File!Next
  BY <1>4 DEF EmulateMRSFails, File!Next, File!GuestRefused
<1>5. ASSUME NEW r \in HostRegisters, CallReadSystemRegister(Encoding[r])
      PROVE  File!Next
  <2>1. Encoding[r] \in Places
    BY DEF Places
  <2>2. File!HostReads(Encoding[r])
    BY <1>5, <2>1, ReadFile DEF CallReadSystemRegister, File!HostReads, FileOf
  <2> QED
    BY <2>1, <2>2 DEF File!Next
<1>6. ASSUME NEW r \in HostRegisters, NEW value \in Values,
             CallWriteSystemRegister(Encoding[r], value)
      PROVE  File!Next
  <2>1. Encoding[r] \in Places
    BY DEF Places
  <2>2. File!HostWrites(Encoding[r], value)
    BY <1>6, <2>1, WrittenFile
       DEF CallWriteSystemRegister, File!HostWrites, File!Written, FileOf
  <2> QED
    BY <2>1, <2>2 DEF File!Next
<1>7. ASSUME NEW pc \in Values, NEW esr \in Values, NEW far \in Values,
             HandleExceptionEntry(pc, esr, far)
      PROVE  File!Next
  <2>0. state_ \in [Registers -> Word(64)]
    OBVIOUS
  <2>1. pc \in Word(64) /\ esr \in Word(64) /\ far \in Word(64)
    OBVIOUS
  <2>2. FileOf(Recorded(pc, esr, far)) = File!Entered(pc, esr, far)
    BY <2>0, <2>1, EnteredFile
  <2>3. File!Enters(pc, esr, far)
    BY <1>7, <2>2 DEF HandleExceptionEntry, File!Enters, FileOf
  <2> QED
    BY <2>3 DEF File!Next
<1>8. ASSUME HandleExceptionReturn PROVE File!Next
  <2>1. "ELR_EL1" \in Registers
    BY DEF Registers, WritableRegisters
  <2>2. FileOf(state_)[Encoding.ELR_EL1] = state_.ELR_EL1
    BY <2>1, AtRegister, EveryRegisterPlaced DEF FileOf
  <2>3. File!Returns
    BY <1>8, <2>2 DEF HandleExceptionReturn, File!Returns, FileOf
  <2> QED
    BY <2>3 DEF File!Next
<1>9. ASSUME NEW r \in Registers, NEW word,
             state_' = [state_ EXCEPT ![r] = word],
             reply' = [call |-> "getState"], UNCHANGED gpr
      PROVE  File!Next
  <2>1. FileOf(state_)' = [file EXCEPT ![Encoding[r]] = word]
    BY <1>9, EditedFile DEF FileOf
  <2>2. FileOf(state_)'[Encoding[r]] = word
    BY <2>1, EveryRegisterPlaced DEF FileOf
  <2>3. File!HostEdits(Encoding[r])
    BY <1>9, <2>1, <2>2 DEF File!HostEdits, FileOf
  <2> QED
    BY <2>3 DEF File!Next
<1>10. ASSUME NEW r \in Registers, NEW value \in Values, HostEdits(r, value)
       PROVE  File!Next
  BY <1>9, <1>10 DEF HostEdits
<1>11. ASSUME NEW a \in Assignments, HostAssigns(a) PROVE File!Next
  <2>1. a.register \in Registers
    BY ViewedRegisters
  <2> QED
    BY <1>9, <1>11, <2>1 DEF HostAssigns
<1>12. ASSUME NEW addr \in Addresses, SetBaseAddress(addr) PROVE File!Next
  <2>1. "TTBR0_EL1" \in Registers
    BY DEF Registers, WritableRegisters
  <2> QED
    BY <1>9, <1>12, <2>1 DEF SetBaseAddress
<1>13. ASSUME Reset PROVE File!Next
  <2>1. File!Resets
    BY <1>13 DEF Reset, File!Resets, FileOf
  <2> QED
    BY <2>1 DEF File!Next
<1>14. ASSUME NEW r \in GPR, NEW value \in Values, GuestComputes(r, value)
       PROVE  File!Next
  <2>1. File!GuestComputes(r, value)
    BY <1>14 DEF GuestComputes, File!GuestComputes, FileOf
  <2> QED
    BY <2>1 DEF File!Next
<1>15. CASE UNCHANGED vars
  BY <1>15 DEF vars, FileOf
<1> QED
  BY <1>1, <1>2, <1>3, <1>4, <1>5, <1>6, <1>7, <1>8, <1>10, <1>11, <1>12, <1>13,
     <1>14, <1>15
     DEF Next

\* The emulator implements a register file addressed by place: a read gives
\* what was last written there, one access changes one register, unknown
\* places read as zero and ignore writes, and a return gives the PC of the
\* last entry unless ELR_EL1 was written since.
THEOREM Implements == Spec => ImplementsRegisterFile
<1>1. Init => File!Init
  BY DEF Init, File!Init
<1>2. TypeOK /\ [Next]_vars => TypeOK'
  BY TypeStep
<1>3. TypeOK /\ [Next]_vars => [File!Next]_<<FileOf(state_), gpr, reply>>
  BY StepImplements
<1> QED
  BY TypeInit, <1>1, <1>2, <1>3, PTL DEF Spec, ImplementsRegisterFile, File!Spec, FileOf
=============================================================================
