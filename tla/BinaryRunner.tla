---------------------------- MODULE BinaryRunner ----------------------------
(***************************************************************************)
(* The command line runner, tools/acheron.cpp: parse_args reads the        *)
(* arguments one iteration of its loop at a time, load_elf validates the   *)
(* header of the file named, and main ends there.  A text of the command   *)
(* line is its string; what stoull and stoi make of it is given by         *)
(* constants.  The read of the header is not checked in the code, so the   *)
(* bytes a short file does not have hold anything.                         *)
(***************************************************************************)
EXTENDS Words, Integers, Sequences

CONSTANTS
    Texts,         \* the texts a command line is made of
    Dashed,        \* those that begin with '-'
    Size,          \* what stoull reads, and the suffix; it throws elsewhere
    Count,         \* what stoi reads, an int; it throws elsewhere
    CommandLines,  \* argv without the program's name
    Entries,       \* entry points
    Files          \* what the path may name

EnvOptions == {"-e", "--env"}
RootfsOptions == {"-r", "--rootfs"}
MemoryOptions == {"-m", "--memory"}
CpusOptions == {"-c", "--cpus"}
EndingOptions == {"-h", "--help", "-v", "--version"}
DebugOptions == {"-d", "--debug"}
FlagOptions ==
    DebugOptions \cup {"--trace-syscalls", "--trace-memory", "--show-registers"}

ValuedOptions ==
    EnvOptions \cup RootfsOptions \cup MemoryOptions \cup CpusOptions

Options == ValuedOptions \cup EndingOptions \cup FlagOptions

\* The parts of an ELF header that load_elf looks at, and where they end
PartEnd == [magic |-> 4, class |-> 5, data |-> 6, machine |-> 20]

\* A file as load_elf sees it; agrees[p]: the bytes it has of part p are
\* those of a 64-bit little-endian ARM64 binary.
FileType ==
    [opens : BOOLEAN, length : Nat, seekable : BOOLEAN,
     agrees : [DOMAIN PartEnd -> BOOLEAN], entry : Entries]

ASSUME TextAssumption ==
    /\ "" \in Texts \ Dashed
    /\ Dashed \subseteq Texts /\ Options \cap Texts \subseteq Dashed
    /\ CommandLines \subseteq Seq(Texts)

ASSUME NumberAssumption ==
    /\ Size \in [DOMAIN Size -> [digits : Word(64), shift : {0, 20, 30}]]
    /\ Count \in [DOMAIN Count -> Int]

ASSUME FileAssumption == Entries \subseteq Word(64) /\ Files \subseteq FileType

VARIABLES
    argv,    \* the command line
    i,       \* the position parse_args is at
    config,  \* struct Config
    phase,   \* what main is doing
    status,  \* what main returned
    file,    \* external: the file opened, once load_elf has run
    elf      \* struct ELFInfo

vars == <<argv, i, config, phase, status, file, elf>>

NoFile == [opens |-> FALSE, length |-> 0, seekable |-> FALSE,
           agrees |-> [p \in DOMAIN PartEnd |-> FALSE], entry |-> {}]

\* memory_size: 4 * 1024 * 1024 * 1024, "4GB default" (acheron.cpp:23), is
\* computed in int; compilers wrap it to 0.
DefaultConfig ==
    [binary_path |-> "", args |-> <<>>, env_vars |-> <<>>, rootfs |-> "",
     memory_size |-> {}, cpu_count |-> 1, flags |-> {}]

Init ==
    /\ argv \in CommandLines /\ i = 1
    /\ config = DefaultConfig
    /\ phase = "parsing" /\ status = 0
    /\ file = NoFile
    /\ elf = [valid |-> FALSE, is_arm64 |-> FALSE, entry_point |-> {},
              file_size |-> 0]

-----------------------------------------------------------------------------
(* parse_args *)

Exits(code) == phase' = "exited" /\ status' = code

\* An iteration of the loop that goes on reads some arguments into config.
Consumes(n, settings) ==
    /\ i' = i + n
    /\ config' = settings
    /\ UNCHANGED <<argv, phase, status, file, elf>>

AtOption(options) ==
    phase = "parsing" /\ i <= Len(argv) /\ argv[i] \in options

HasValue == i + 1 <= Len(argv)

PrintUsageOrVersion ==
    /\ AtOption(EndingOptions)
    /\ Exits(1)
    /\ UNCHANGED <<argv, i, config, file, elf>>

SetEnv ==
    /\ AtOption(EnvOptions) /\ HasValue
    /\ Consumes(2, [config EXCEPT !.env_vars = Append(@, argv[i + 1])])

\* Seeded fault: a root that is set already stays.
KeepsFirstRootfs ==
    /\ AtOption(RootfsOptions) /\ HasValue
    /\ Consumes(2, [config EXCEPT !.rootfs =
                        IF @ = "" THEN argv[i + 1] ELSE @])

SetRootfs ==
    /\ AtOption(RootfsOptions) /\ HasValue
    /\ Consumes(2, [config EXCEPT !.rootfs = argv[i + 1]])

\* Seeded fault: the suffix does nothing.
Unscaled(t) == Size[t].digits

\* std::stoull(size_str) * multiplier, in 64 bits
Bytes(t) == ShiftLeft(Size[t].digits, Size[t].shift, 64)

SetMemory ==
    /\ AtOption(MemoryOptions) /\ HasValue /\ argv[i + 1] \in DOMAIN Size
    /\ Consumes(2, [config EXCEPT !.memory_size = Bytes(argv[i + 1])])

SetCpus ==
    /\ AtOption(CpusOptions) /\ HasValue /\ argv[i + 1] \in DOMAIN Count
    /\ Consumes(2, [config EXCEPT !.cpu_count = Count[argv[i + 1]]])

\* Nothing catches what stoull and stoi throw.
BadNumber ==
    /\ HasValue
    /\ \/ AtOption(MemoryOptions) /\ argv[i + 1] \notin DOMAIN Size
       \/ AtOption(CpusOptions) /\ argv[i + 1] \notin DOMAIN Count
    /\ phase' = "aborted"
    /\ UNCHANGED <<argv, i, config, status, file, elf>>

\* Seeded fault: an option without its value is read again and again.
ForgetsIncrement ==
    /\ AtOption(ValuedOptions) /\ ~HasValue
    /\ Consumes(0, config)

\* Seeded fault: the value that is not there is skipped too.
SkipsMissing ==
    /\ AtOption(ValuedOptions) /\ ~HasValue
    /\ Consumes(2, config)

\* An option that comes last is dropped in silence.
MissingValue ==
    /\ AtOption(ValuedOptions) /\ ~HasValue
    /\ Consumes(1, config)

SetFlag ==
    /\ AtOption(FlagOptions)
    /\ Consumes(1, [config EXCEPT !.flags = @ \cup
                        {IF argv[i] \in DebugOptions THEN "-d" ELSE argv[i]}])

SkipUnknown ==
    /\ AtOption(Dashed \ Options)
    /\ Consumes(1, config)

\* Seeded fault: the binary's first argument is lost.
LosesArgument ==
    /\ AtOption(Texts \ Dashed)
    /\ Consumes(Len(argv) + 1 - i,
           [config EXCEPT !.binary_path = argv[i],
                          !.args = SubSeq(argv, i + 2, Len(argv))])

\* The rest belongs to the binary: break leaves the loop.
TakeBinary ==
    /\ AtOption(Texts \ Dashed)
    /\ Consumes(Len(argv) + 1 - i,
           [config EXCEPT !.binary_path = argv[i],
                          !.args = SubSeq(argv, i + 1, Len(argv))])

EndArguments ==
    /\ phase = "parsing" /\ i > Len(argv)
    /\ IF config.binary_path = ""
       THEN Exits(1)
       ELSE phase' = "loading" /\ UNCHANGED status
    /\ UNCHANGED <<argv, i, config, file, elf>>

ParseArgs ==
    \/ PrintUsageOrVersion
    \/ SetEnv \/ SetRootfs \/ SetMemory \/ SetCpus \/ BadNumber
    \/ MissingValue \/ SetFlag \/ SkipUnknown \/ TakeBinary
    \/ EndArguments

-----------------------------------------------------------------------------
(* load_elf and main *)

\* Whether a part of the header may compare as right (r = TRUE) or as wrong:
\* where the file is too short it is as the stack left it.
Compares(f, p, r) ==
    IF f.length >= PartEnd[p] \/ ~f.agrees[p] THEN r = f.agrees[p]
    ELSE r \in BOOLEAN

\* The entry point is at 24 to 31.
EntryReads(f) == IF f.length >= 32 THEN {f.entry} ELSE Entries

\* Seeded fault: clear() before seekg.
ActualSize(f) == IF f.seekable THEN f.length ELSE -1

\* tellg returns -1, which is 2^64 - 1 as a size_t, when the read of the
\* 64 bytes failed, since seekg does not clear failbit.
FileSize(f) == IF f.length >= 64 /\ f.seekable THEN f.length ELSE -1

\* Seeded fault: the byte order is not looked at.
IdentifiedAnyOrder(header) == header.magic /\ header.class

\* The checks before the size is taken
Identified(header) == header.magic /\ header.class /\ header.data

LoadElf(f) ==
    /\ phase = "loading"
    /\ \E header \in [DOMAIN PartEnd -> BOOLEAN] :
         /\ \A p \in DOMAIN PartEnd : Compares(f, p, header[p])
         /\ LET identified == f.opens /\ Identified(header)
                valid == identified /\ header.machine
            IN  /\ \E entry \in EntryReads(f) :
                     elf' = [valid |-> valid, is_arm64 |-> valid,
                             entry_point |-> IF valid THEN entry ELSE {},
                             file_size |-> IF identified THEN FileSize(f)
                                           ELSE 0]
                /\ IF valid THEN phase' = "running" /\ UNCHANGED status
                   ELSE Exits(1)
    /\ file' = f
    /\ UNCHANGED <<argv, i, config>>

\* main creates the two emulators and returns: the engine is still to come.
RunBinary ==
    /\ phase = "running"
    /\ Exits(0)
    /\ UNCHANGED <<argv, i, config, file, elf>>

Next == ParseArgs \/ (\E f \in Files : LoadElf(f)) \/ RunBinary

\* The program is one thread, and each of its steps comes to an end.
Spec == Init /\ [][Next]_vars /\ WF_vars(Next)

-----------------------------------------------------------------------------
(* Properties *)

ConfigType ==
    [binary_path : Texts, args : Seq(Texts), env_vars : Seq(Texts),
     rootfs : Texts, memory_size : Word(64), cpu_count : Int,
     flags : SUBSET FlagOptions]

\* Every variable of the program has its type.
TypeOK ==
    /\ argv \in CommandLines /\ i \in 1 .. Len(argv) + 1
    /\ config \in ConfigType
    /\ phase \in {"parsing", "loading", "running", "exited", "aborted"}
    /\ status \in {0, 1}
    /\ file \in Files \cup {NoFile}
    /\ elf \in [valid : BOOLEAN, is_arm64 : BOOLEAN,
                entry_point : Entries \cup {{}}, file_size : Int]

\* V holds the positions up to n at which stands the value of the option
\* before it: "-e -m" sets a variable.
AreValues(V, n) ==
    /\ V \subseteq 1 .. n
    /\ \A j \in 1 .. n :
         j \in V <=> j > 1 /\ argv[j - 1] \in ValuedOptions /\ j - 1 \notin V

\* Usage: [OPTIONS] <binary> [ARGS...], with the binary at k
BinaryAt(k, V) ==
    /\ AreValues(V, k) /\ k \notin V
    /\ argv[k] \notin Dashed
    /\ \A j \in (1 .. k - 1) \ V : argv[j] \in Dashed \ EndingOptions

ValuesOf(V, options) == {j \in V : argv[j - 1] \in options}

Latest(S) == {j \in S : \A k \in S : k <= j}

\* The values of -e, in their order
EnvRead(V) ==
    LET given == ValuesOf(V, EnvOptions)
        count == DOMAIN config.env_vars
    IN  \E at \in [count -> given] :
          /\ given = {at[n] : n \in count}
          /\ \A n \in count : /\ config.env_vars[n] = argv[at[n]]
                              /\ \A m \in count : m < n => at[m] < at[n]

\* The last value of an option counts.
LatestRead(V) ==
    /\ LET given == ValuesOf(V, RootfsOptions)
       IN  /\ given = {} => config.rootfs = ""
           /\ \A j \in Latest(given) : config.rootfs = argv[j]
    /\ LET given == ValuesOf(V, CpusOptions)
       IN  /\ given = {} => config.cpu_count = 1
           /\ \A j \in Latest(given) : config.cpu_count = Count[argv[j]]

FlagsRead(V, n) ==
    config.flags = {IF argv[j] \in DebugOptions THEN "-d" ELSE argv[j] :
                       j \in {p \in (1 .. n) \ V : argv[p] \in FlagOptions}}

\* The size asked for, in as many bits as it takes
Asked(t) == {b + Size[t].shift : b \in Size[t].digits}

MemoryRead(V) ==
    LET given == ValuesOf(V, MemoryOptions)
    IN  /\ given = {} => config.memory_size = DefaultConfig.memory_size
        /\ \A j \in Latest(given) :
             /\ config.memory_size \subseteq Asked(argv[j])
             /\ config.memory_size = Asked(argv[j])
                   <=> Asked(argv[j]) \subseteq 0 .. 63

Parsed == config.binary_path # ""

\* The binary is the first argument that is neither an option nor the value
\* of one, and everything after it reaches it, in order, even what looks
\* like an option of the runner (README.md: acheron ./myapp --flag).
ArgumentsReachBinary ==
    Parsed =>
        \E k \in DOMAIN argv : \E V \in SUBSET (1 .. k - 1) :
            /\ BinaryAt(k, V)
            /\ config.binary_path = argv[k]
            /\ config.args = SubSeq(argv, k + 1, Len(argv))

\* The settings are those of the options before the binary: of the variables
\* all, in order, of the root and the CPUs the last.
SettingsAsAsked ==
    Parsed =>
        \E k \in DOMAIN argv : \E V \in SUBSET (1 .. k - 1) :
            /\ BinaryAt(k, V)
            /\ EnvRead(V) /\ LatestRead(V) /\ FlagsRead(V, k - 1)

\* The memory is the size asked for last if 64 bits hold it, and a smaller
\* one, without a word, if they do not; it stays the default if nobody asked.
MemoryAsAsked ==
    Parsed =>
        \E k \in DOMAIN argv : \E V \in SUBSET (1 .. k - 1) :
            BinaryAt(k, V) /\ MemoryRead(V)

\* The exit code says whether the file is a 64-bit little-endian ARM64 binary,
\* as far as it goes: a file that ends before the machine type may pass or
\* fail by what was on the stack, but never against the bytes it has.
ExitCodeTells ==
    LET right == file.opens /\ \A p \in DOMAIN PartEnd : file.agrees[p]
    IN  phase = "exited" =>
            /\ status = 0 => right
            /\ right /\ file.length >= 20 => status = 0

\* Of an accepted file the entry point is the file's unless it ends before
\* it, and the size is right exactly when the whole header was there.
AcceptedHeader ==
    elf.valid =>
        /\ file.length >= 32 => elf.entry_point = file.entry
        /\ file.seekable =>
             (elf.file_size = file.length <=> file.length >= 64)

\* Every command line comes to an end.
Terminates == <>(phase \in {"exited", "aborted"})
=============================================================================
