---------------------- MODULE InstructionDecoderProofs ----------------------
(***************************************************************************)
(* What the decoder does with every 32-bit word, and hence in every state  *)
(* of the run `decoder`, which goes through the combinations of a few bits.*)
(***************************************************************************)
EXTENDS MCInstructionDecoder, TLAPS

\* The tests that never decide: those for MSR_REG and MRS_REG require a bit
\* their mask clears, and the others come after a test that contains them.
LEMMA Tests ==
    ASSUME NEW w \in Word(32)
    PROVE  /\ Matching(w) \subseteq 1 .. 10
           /\ 2 \notin Matching(w) /\ 3 \notin Matching(w)
           /\ 5 \in Matching(w) => 1 \in Matching(w)
           /\ 6 \in Matching(w) => 1 \in Matching(w)
           /\ 10 \in Matching(w) => 9 \in Matching(w)
<1>1. DOMAIN Patterns = 1 .. 10
  BY DEF Patterns
<1>2. Matching(w) = {i \in 1 .. 10 : w \cap Patterns[i].mask = Patterns[i].value}
  BY <1>1 DEF Matching, Matches
<1>3. /\ Patterns[2].mask = 21 .. 31 /\ 20 \in Patterns[2].value
      /\ Patterns[3].mask = 21 .. 31 /\ 20 \in Patterns[3].value
  BY DEF Patterns, Test, MaskFFE00000
<1>4. 2 \notin Matching(w) /\ 3 \notin Matching(w)
  BY <1>2, <1>3
<1>5. /\ Patterns[1].mask = 21 .. 31 \cup 0 .. 4 /\ Patterns[1].value = D5
      /\ Patterns[5].mask = 12 .. 31 \cup 0 .. 4
      /\ Patterns[5].value = D5 \cup {12, 13, 16, 17}
      /\ Patterns[6].mask = 12 .. 31 \cup 0 .. 4
      /\ Patterns[6].value = D5 \cup {12, 13, 16, 17}
  BY DEF Patterns, Test, MaskFFE0001F, MaskFFFFF01F
<1>6. \A i \in {5, 6} : i \in Matching(w) => 1 \in Matching(w)
  <2> SUFFICES ASSUME NEW i \in {5, 6},
                      w \cap (12 .. 31 \cup 0 .. 4) = D5 \cup {12, 13, 16, 17}
               PROVE  w \cap (21 .. 31 \cup 0 .. 4) = D5
    BY <1>2, <1>5
  <2> QED
    BY DEF D5
<1>7. 10 \in Matching(w) => 9 \in Matching(w)
  BY <1>2, <1>5 DEF Patterns, Test
<1> QED
  BY <1>2, <1>4, <1>6, <1>7

\* The type of a word is that of its first matching test.
LEMMA FirstTest ==
    ASSUME NEW w \in Word(32), Matching(w) # {}
    PROVE  \E i \in Matching(w) : /\ \A j \in Matching(w) : i <= j
                                  /\ TypeOf(w) = Patterns[i].type
<1>1. Matching(w) \subseteq 1 .. 10
  BY Tests
<1>2. \E i \in Matching(w) : \A j \in Matching(w) : i <= j
  <2>1. \A n \in 1 .. 10 : n \in Matching(w) =>
            \E i \in Matching(w) : \A j \in Matching(w) : i <= j
    BY <1>1
  <2> QED
    BY <1>1, <2>1
<1> QED
  BY <1>2 DEF TypeOf

\* No 32-bit word decodes to MSR (register), MRS, DSB, DMB or BRK.
THEOREM DeadTypes ==
    \A w \in Word(32) : OnlyLiveTypes(w)
<1> SUFFICES ASSUME NEW w \in Word(32)
             PROVE  TypeOf(w) \in LiveTypes
  BY DEF OnlyLiveTypes
<1>1. CASE Matching(w) = {}
  BY <1>1 DEF TypeOf, LiveTypes
<1>2. CASE Matching(w) # {}
  <2>1. PICK i \in Matching(w) : /\ \A j \in Matching(w) : i <= j
                                 /\ TypeOf(w) = Patterns[i].type
    BY <1>2, FirstTest
  <2>2. i \in {1, 4, 7, 8, 9}
    BY <2>1, Tests
  <2>3. \A k \in {1, 4, 7, 8, 9} : Patterns[k].type \in LiveTypes
    BY DEF Patterns, Test, LiveTypes
  <2> QED
    BY <2>1, <2>2, <2>3
<1> QED
  BY <1>1, <1>2

\* No word matches two of the tests that can succeed, so their order is free.
THEOREM LiveTestsAnyOrder ==
    \A w \in Word(32) : LiveTestsDisjoint(w)
<1> SUFFICES ASSUME NEW w \in Word(32),
                    NEW i \in Matching(w), NEW j \in Matching(w),
                    Patterns[i].type \in LiveTypes,
                    Patterns[j].type \in LiveTypes
             PROVE  i = j
  BY DEF LiveTestsDisjoint
<1>1. \A k \in 1 .. 10 : Patterns[k].type \in LiveTypes => k \in {1, 4, 7, 8, 9}
  BY DEF Patterns, Test, LiveTypes
<1>2. i \in {1, 4, 7, 8, 9} /\ j \in {1, 4, 7, 8, 9}
  BY <1>1, Tests
<1>3. w \subseteq Bits
  BY DEF Word, Bits
<1>4. 1 \in Matching(w) => 0 \notin w /\ 24 \in w
  BY DEF Matching, Matches, Patterns, Test, MaskFFE0001F, D5
<1>5. 4 \in Matching(w) => 0 \in w /\ 24 \in w /\ 14 \in w
  BY <1>3 DEF Matching, Matches, Patterns, Test, Bits, D5
<1>6. 7 \in Matching(w) => 0 \in w /\ 24 \in w /\ 14 \notin w /\ 5 \notin w
  BY <1>3 DEF Matching, Matches, Patterns, Test, Bits, D5
<1>7. 8 \in Matching(w) => 0 \in w /\ 24 \in w /\ 14 \notin w /\ 5 \in w
  BY <1>3 DEF Matching, Matches, Patterns, Test, Bits, D5
<1>8. 9 \in Matching(w) => 24 \notin w
  BY DEF Matching, Matches, Patterns, Test, MaskFFE0001F, D5
<1> QED
  BY <1>2, <1>4, <1>5, <1>6, <1>7, <1>8

\* A word decoded as MSR (immediate) is D5 but for its bits 5 to 20.
LEMMA MSRWord ==
    ASSUME NEW w \in Word(32), TypeOf(w) = "MSR_IMM"
    PROVE  w \cap (21 .. 31 \cup 0 .. 4) = D5
<1>1. Matching(w) # {}
  BY DEF TypeOf
<1>2. PICK i \in Matching(w) : TypeOf(w) = Patterns[i].type
  BY <1>1, FirstTest
<1>3. i \in 1 .. 10
  BY <1>2, Tests
<1>4. i = 1
  BY <1>2, <1>3 DEF Patterns, Test
<1> QED
  BY <1>2, <1>4 DEF Matching, Matches, Patterns, Test, MaskFFE0001F

\* The only register move that is decoded writes 0, for every word.
THEOREM MovesWriteZero ==
    \A w \in Word(32) : ImmediateIsZero(w)
<1> SUFFICES ASSUME NEW w \in Word(32), TypeOf(w) = "MSR_IMM"
             PROVE  DecodeSystemInstruction(w).immediate = {}
  BY DEF ImmediateIsZero, DecodeSystemInstruction
<1>1. DecodeSystemInstruction(w).immediate = Field(w, 0, 5)
  BY DEF DecodeSystemInstruction
<1>2. \A b \in 0 .. 4 : b \notin w
  BY MSRWord DEF D5
<1> QED
  BY <1>1, <1>2 DEF Field

\* The fields of a decoded MSR (immediate) determine the word.
THEOREM FieldsLoseNothing ==
    \A w \in Word(32) : FieldsRebuildMSR(w)
<1> SUFFICES ASSUME NEW w \in Word(32), TypeOf(w) = "MSR_IMM"
             PROVE  FieldsRebuildMSR(w)
  BY DEF FieldsRebuildMSR, DecodeSystemInstruction
<1> DEFINE d == DecodeSystemInstruction(w)
<1>1. /\ d.sysRegOp0 = Field(w, 19, 3) /\ d.sysRegOp1 = Field(w, 16, 3)
      /\ d.sysRegCRn = Field(w, 12, 4) /\ d.sysRegCRm = Field(w, 8, 4)
      /\ d.sysRegOp2 = Field(w, 5, 3)
  BY DEF DecodeSystemInstruction, MSR, MRS, CRn
<1>2. d.immediate = {}
  BY MovesWriteZero DEF ImmediateIsZero, DecodeSystemInstruction
<1>3. \A lo, n \in 0 .. 31 : lo + n <= 32 =>
          ShiftLeft(Field(w, lo, n), lo, 32) = w \cap (lo .. lo + n - 1)
  BY DEF ShiftLeft, Field, Word
<1>4. w = D5 \cup (w \cap (19 .. 21)) \cup (w \cap (16 .. 18))
             \cup (w \cap (12 .. 15)) \cup (w \cap (8 .. 11))
             \cup (w \cap (5 .. 7)) \cup {}
  <2>1. w \subseteq 0 .. 31
    BY DEF Word
  <2>2. \A b \in w : b \in D5 \/ b \in 5 .. 20
    BY <2>1, MSRWord DEF D5
  <2>3. D5 \subseteq w
    BY MSRWord
  <2> QED
    <3> DEFINE middle == (w \cap (19 .. 21)) \cup (w \cap (16 .. 18))
                           \cup (w \cap (12 .. 15)) \cup (w \cap (8 .. 11))
                           \cup (w \cap (5 .. 7))
    <3>1. \A b : b \in middle <=> b \in w /\ b \in 5 .. 21
      OBVIOUS
    <3> HIDE DEF middle
    <3>2. \A b \in 5 .. 20 : b \in 5 .. 21
      OBVIOUS
    <3>3. w \subseteq D5 \cup middle
      BY <2>2, <3>1, <3>2
    <3>4. D5 \cup middle \subseteq w
      BY <2>3, <3>1
    <3>5. w = D5 \cup middle
      BY <3>3, <3>4
    <3> QED
      BY <3>5 DEF middle
<1> HIDE DEF d
<1>5. w = D5 \cup ShiftLeft(d.sysRegOp0, 19, 32) \cup ShiftLeft(d.sysRegOp1, 16, 32)
             \cup ShiftLeft(d.sysRegCRn, 12, 32) \cup ShiftLeft(d.sysRegCRm, 8, 32)
             \cup ShiftLeft(d.sysRegOp2, 5, 32) \cup d.immediate
  <2>1. /\ ShiftLeft(d.sysRegOp0, 19, 32) = w \cap (19 .. 21)
        /\ ShiftLeft(d.sysRegOp1, 16, 32) = w \cap (16 .. 18)
        /\ ShiftLeft(d.sysRegCRn, 12, 32) = w \cap (12 .. 15)
        /\ ShiftLeft(d.sysRegCRm, 8, 32) = w \cap (8 .. 11)
        /\ ShiftLeft(d.sysRegOp2, 5, 32) = w \cap (5 .. 7)
    BY <1>1, <1>3
  <2> QED
    BY <1>2, <1>4, <2>1
<1> QED
  BY <1>5 DEF FieldsRebuildMSR, d

\* Decoding keeps every field within its width.
THEOREM DecodeTyped ==
    \A w \in Word(32) : DecodeSystemInstruction(w) \in SystemInstruction
<1> SUFFICES ASSUME NEW w \in Word(32)
             PROVE  DecodeSystemInstruction(w) \in SystemInstruction
  OBVIOUS
<1>1. TypeOf(w) \in Types
  BY DeadTypes DEF OnlyLiveTypes, LiveTypes, Types
<1>2. \A lo, n \in Nat : Field(w, lo, n) \in Word(n) /\ {} \in Word(n)
  BY DEF Field, Word
<1>3. \A x \in Word(5), y \in Word(16) : x \cup y \in Word(64)
  BY DEF Word
<1>4. /\ Field(w, 19, 3) \in Word(3) /\ Field(w, 16, 3) \in Word(3)
      /\ CRn(w) \in Word(4) /\ Field(w, 8, 4) \in Word(4)
      /\ Field(w, 5, 3) \in Word(3) /\ Field(w, 5, 5) \in Word(5)
      /\ Field(w, 0, 5) \in Word(5) /\ Field(w, 0, 16) \in Word(16)
      /\ {} \in Word(3) /\ {} \in Word(4) /\ {} \in Word(5) /\ {} \in Word(16)
  BY <1>2 DEF CRn
<1> QED
  BY <1>1, <1>3, <1>4 DEF DecodeSystemInstruction, SystemInstruction

-----------------------------------------------------------------------------
(* The instructions of the run *)

\* Flipping bits of a word gives a word.
LEMMA WordsOnly == DecoderSpec => [](word \in Word(32))
<1>1. DecoderInit => word \in Word(32)
  BY DEF DecoderInit, D5, Word
<1>2. word \in Word(32) /\ [DecoderNext]_word => (word \in Word(32))'
  <2> SUFFICES ASSUME word \in Word(32), [DecoderNext]_word
               PROVE  word' \in Word(32)
    OBVIOUS
  <2>1. CASE UNCHANGED word
    BY <2>1
  <2>2. ASSUME NEW group \in Groups, Flip(group) PROVE word' \in Word(32)
    <3>1. group \subseteq 0 .. 31
      BY DEF Groups
    <3> QED
      BY <2>2, <3>1 DEF Flip, Word
  <2> QED
    BY <2>1, <2>2 DEF DecoderNext
<1> QED
  BY <1>1, <1>2, PTL DEF DecoderSpec

\* decodeSystemInstruction returns live types only.
THEOREM LiveTypesCorrect == DecoderSpec => []OnlyLiveTypesDecoded
<1>1. word \in Word(32) => OnlyLiveTypesDecoded
  BY DeadTypes DEF OnlyLiveTypesDecoded
<1> QED
  BY WordsOnly, <1>1, PTL

\* The order of the tests that can succeed does not matter.
THEOREM DisjointCorrect == DecoderSpec => []LiveTestsAreDisjoint
<1>1. word \in Word(32) => LiveTestsAreDisjoint
  BY LiveTestsAnyOrder DEF LiveTestsAreDisjoint
<1> QED
  BY WordsOnly, <1>1, PTL

\* The fields of a decoded register move give the instruction back.
THEOREM RebuildCorrect == DecoderSpec => []FieldsRebuild
<1>1. word \in Word(32) => FieldsRebuild
  BY FieldsLoseNothing DEF FieldsRebuild
<1> QED
  BY WordsOnly, <1>1, PTL
=============================================================================
