------------------------- MODULE InstructionDecoder -------------------------
(***************************************************************************)
(* decodeSystemInstruction (ARM64SystemRegisters.cpp).  The function tests *)
(* the 32-bit word against ten patterns and returns at the first one that  *)
(* matches, so the order of Patterns is the order of the tests, the tests  *)
(* that can never succeed included.                                        *)
(***************************************************************************)
EXTENDS Words, FiniteSets

Bits == 0 .. 31

\* The bits set in 0xD5000000, and the masks of the tests
D5 == {24, 26, 28, 30, 31}
MaskFFE00000 == 21 .. 31
MaskFFE0001F == 21 .. 31 \cup 0 .. 4
MaskFFFFF01F == 12 .. 31 \cup 0 .. 4

Test(type, mask, value) == [type |-> type, mask |-> mask, value |-> value]

\* The patterns in source order.
Patterns == <<
    Test("MSR_IMM", MaskFFE0001F, D5),
    Test("MSR_REG", MaskFFE00000, D5 \cup {20}),
    Test("MRS_REG", MaskFFE00000, D5 \cup {20, 21}),
    Test("ISB", Bits, D5 \cup {14} \cup 0 .. 4),
    Test("DSB", MaskFFFFF01F, D5 \cup {12, 13, 16, 17}),
    Test("DMB", MaskFFFFF01F, D5 \cup {12, 13, 16, 17}),
    Test("WFI", Bits, D5 \cup {6, 13, 16, 17} \cup 0 .. 4),
    Test("WFE", Bits, D5 \cup {5, 6, 13, 16, 17} \cup 0 .. 4),
    Test("HLT", MaskFFE0001F, {21, 26, 28, 30, 31}),
    Test("BRK", MaskFFE0001F, {21, 26, 28, 30, 31}) >>

Types == {"UNKNOWN", "MSR_IMM", "MSR_REG", "MRS_REG", "ISB", "DSB", "DMB",
          "WFI", "WFE", "HLT", "BRK"}

\* Seeded fault: the word is compared before it is masked.
MatchesAnyBit(instruction, pattern) == pattern.value \subseteq instruction

Matches(instruction, pattern) == instruction \cap pattern.mask = pattern.value

Matching(instruction) ==
    {i \in DOMAIN Patterns : Matches(instruction, Patterns[i])}

\* Seeded fault: a missing return, so that a later test overrides.
LastMatch(instruction) ==
    IF Matching(instruction) = {} THEN "UNKNOWN"
    ELSE Patterns[CHOOSE i \in Matching(instruction) :
                      \A j \in Matching(instruction) : j <= i].type

TypeOf(instruction) ==
    IF Matching(instruction) = {} THEN "UNKNOWN"
    ELSE Patterns[CHOOSE i \in Matching(instruction) :
                      \A j \in Matching(instruction) : i <= j].type

SystemInstruction ==
    [type : Types, sysRegOp0 : Word(3), sysRegOp1 : Word(3),
     sysRegCRn : Word(4), sysRegCRm : Word(4), sysRegOp2 : Word(3),
     rt : Word(5), immediate : Word(64)]

MSR == {"MSR_IMM", "MSR_REG"}
MRS == {"MRS_REG"}

\* Seeded fault: the mask of CRn is 0x7, the one of op0, op1 and op2.
ShortCRn(instruction) == Field(instruction, 12, 3)

CRn(instruction) == Field(instruction, 12, 4)

\* A field that a branch leaves alone keeps the 0 of the constructor.
DecodeSystemInstruction(instruction) ==
    LET type == TypeOf(instruction)
        read(types, lo, n) ==
            IF type \in types THEN Field(instruction, lo, n) ELSE {}
    IN  [type |-> type,
         sysRegOp0 |-> read(MSR \cup MRS, 19, 3),
         sysRegOp1 |-> read(MSR \cup MRS, 16, 3),
         sysRegCRn |-> IF type \in MSR \cup MRS THEN CRn(instruction) ELSE {},
         sysRegCRm |-> read(MSR \cup MRS, 8, 4),
         sysRegOp2 |-> read(MSR \cup MRS, 5, 3),
         rt |-> read({"MSR_REG"} \cup MRS, 5, 5),
         immediate |-> read({"MSR_IMM"}, 0, 5)
                         \cup read({"HLT", "BRK"}, 0, 16)]

-----------------------------------------------------------------------------
(* Properties of the decoder at one instruction *)

\* The types a word can decode to.  The tests for MSR_REG and MRS_REG ask for
\* bits their mask clears, those for DSB and DMB come after the MSR_IMM test
\* that contains them, and BRK after an identical test for HLT.
LiveTypes == {"MSR_IMM", "ISB", "WFI", "WFE", "HLT", "UNKNOWN"}

\* decodeSystemInstruction never returns a type outside LiveTypes: no word is
\* decoded as MSR (register), MRS, DSB, DMB or BRK.
OnlyLiveTypes(instruction) == TypeOf(instruction) \in LiveTypes

\* Among the types that are decoded at all the order of the tests does not
\* matter: no word matches two of their patterns.
LiveTestsDisjoint(instruction) ==
    \A i, j \in Matching(instruction) :
        Patterns[i].type \in LiveTypes /\ Patterns[j].type \in LiveTypes
            => i = j

\* The fields of a decoded MSR (immediate) determine the instruction: put
\* back in place they give the word that was decoded.
FieldsRebuildMSR(instruction) ==
    LET d == DecodeSystemInstruction(instruction)
        put(field, lo) == ShiftLeft(field, lo, 32)
    IN  d.type = "MSR_IMM" =>
            instruction = D5 \cup put(d.sysRegOp0, 19) \cup put(d.sysRegOp1, 16)
                             \cup put(d.sysRegCRn, 12) \cup put(d.sysRegCRm, 8)
                             \cup put(d.sysRegOp2, 5) \cup d.immediate

\* The value of a decoded MSR (immediate) is 0, which the docs and the tests
\* contradict (DecodesAsDocumented): the test for it requires that the five
\* bits the immediate is read from are all clear.
ImmediateIsZero(instruction) ==
    LET d == DecodeSystemInstruction(instruction)
    IN  d.type = "MSR_IMM" => d.immediate = {}
=============================================================================
