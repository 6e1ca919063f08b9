--------------------------- MODULE MCBinaryRunner ---------------------------
(***************************************************************************)
(* Command lines of up to three texts of every kind, longer ones of the    *)
(* texts that interact, and the ways a file may fail to be an ARM64 binary. *)
(***************************************************************************)
EXTENDS BinaryRunner, SequencesExt

\* Repeated sizes and variables, with options among their values
LongTexts == {"-e", "-m", "512M", "17179869185G", "./myapp"}

\* Repeated roots and counts
RepeatedTexts == {"-r", "-c", "512M", "2", "./myapp"}

MCTexts ==
    LongTexts \cup RepeatedTexts
      \cup {"", "-d", "--debug", "--trace-memory", "-h", "--port"}

MCDashed ==
    {"-e", "-m", "-r", "-c", "-d", "--debug", "--trace-memory", "-h", "--port"}

MCSize ==
    [t \in {"512M", "17179869185G", "2"} |->
       CASE t = "512M" -> [digits |-> {9}, shift |-> 20]
         [] t = "17179869185G" -> [digits |-> {0, 34}, shift |-> 30]
         [] t = "2" -> [digits |-> {1}, shift |-> 0]]

\* stoi stops at the suffix.
MCCount == [t \in {"512M", "2"} |-> IF t = "2" THEN 2 ELSE 512]

MCCommandLines ==
    SeqOf(MCTexts, 3) \cup SeqOf(LongTexts, 5) \cup SeqOf(RepeatedTexts, 5)

Entry == {6, 22}

MCEntries == {{}, Entry}

All(wrong) == [p \in DOMAIN PartEnd |-> p \notin wrong]

Binary(length, wrong) ==
    [opens |-> TRUE, length |-> length, seekable |-> TRUE,
     agrees |-> All(wrong), entry |-> Entry]

\* An ARM64 binary, one read from a pipe, then one cut at each part
MCFiles ==
    {Binary(length, {}) : length \in {0, 5, 10, 26, 40, 164}}
      \cup {[Binary(164, {}) EXCEPT !.seekable = FALSE]}
      \cup {Binary(164, {p}) : p \in DOMAIN PartEnd}
      \cup {Binary(2, {"magic"}), NoFile}
=============================================================================
