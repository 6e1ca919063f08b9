------------------------ MODULE MCInstructionDecoder ------------------------
(***************************************************************************)
(* Instructions for the decoder: each step flips one group of bits, so the *)
(* reachable words are all the combinations of the groups.  The groups     *)
(* separate every two patterns and every two fields, bits that all the     *)
(* patterns treat alike go together, and the words that docs/              *)
(* ARCHITECTURE.md gives as examples are among the combinations.           *)
(***************************************************************************)
EXTENDS InstructionDecoder

VARIABLE word

Groups == {{0}, 1 .. 4, {5}, {6}, {7}, {9}, {12}, {13}, {14}, {15}, {16}, {17}, {20},
           {21}, {24}}

DecoderInit == word = D5

Flip(group) ==
    word' = (word \ group) \cup (group \ word)

DecoderNext == \E group \in Groups : Flip(group)

DecoderSpec == DecoderInit /\ [][DecoderNext]_word

OnlyLiveTypesDecoded == OnlyLiveTypes(word)

LiveTestsAreDisjoint == LiveTestsDisjoint(word)

FieldsRebuild == FieldsRebuildMSR(word)

-----------------------------------------------------------------------------
(* The encodings of docs/ARCHITECTURE.md, lines 169 to 177 *)

Documented == <<
    [bits |-> D5 \cup 0 .. 4, type |-> "MSR_IMM"],
    [bits |-> D5 \cup {9, 20}, type |-> "MSR_REG"],
    [bits |-> D5 \cup {9, 20, 21}, type |-> "MRS_REG"],
    [bits |-> D5 \cup {14} \cup 0 .. 4, type |-> "ISB"],
    [bits |-> D5 \cup {6, 12, 13, 16, 17} \cup 0 .. 4, type |-> "DSB"],
    [bits |-> D5 \cup {7, 12, 13, 16, 17} \cup 0 .. 5, type |-> "DMB"],
    [bits |-> D5 \cup {6, 13, 16, 17} \cup 0 .. 4, type |-> "WFI"],
    [bits |-> D5 \cup {5, 6, 13, 16, 17} \cup 0 .. 4, type |-> "WFE"],
    [bits |-> {21, 26, 28, 30, 31}, type |-> "BRK"] >>

\* Every example of the table decodes to the type its row gives, and that of
\* MSR (immediate) to the imm5 of its pattern, bits 0 to 4 of the word, as
\* tests/test_decoder.cpp:22 asserts.
DecodesAsDocumented ==
    \A row \in DOMAIN Documented :
        word = Documented[row].bits =>
            LET decoded == DecodeSystemInstruction(word)
            IN  /\ decoded.type = Documented[row].type
                /\ decoded.type = "MSR_IMM" => decoded.immediate = word \cap 0 .. 4
=============================================================================
