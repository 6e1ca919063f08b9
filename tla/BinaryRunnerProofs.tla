------------------------- MODULE BinaryRunnerProofs -------------------------
(***************************************************************************)
(* Proofs about the command line runner: what it makes of a command line   *)
(* of any length, and what its exit code tells of the file.                *)
(***************************************************************************)
EXTENDS BinaryRunner, SequenceTheorems, TLAPS

(***************************************************************************)
(* Types                                                                   *)
(***************************************************************************)

LEMMA ArgvTyped ==
    ASSUME argv \in CommandLines
    PROVE  /\ argv \in Seq(Texts) /\ Len(argv) \in Nat
           /\ \A j \in 1 .. Len(argv) : argv[j] \in Texts
  <1>1. argv \in Seq(Texts)
    BY TextAssumption, Zenon
  <1>2. QED
    BY <1>1

LEMMA BytesTyped ==
    ASSUME NEW t \in DOMAIN Size
    PROVE  Bytes(t) \in Word(64)
  <1>1. Size[t].shift \in Nat
    BY NumberAssumption
  <1>2. QED
    BY <1>1 DEF Bytes, ShiftLeft, Word

\* A Config with one setting replaced is a Config.
LEMMA ConfigTyped ==
    ASSUME config \in ConfigType, NEW t \in Texts
    PROVE  /\ [config EXCEPT !.env_vars = Append(@, t)] \in ConfigType
           /\ [config EXCEPT !.rootfs = t] \in ConfigType
  <1>1. Append(config.env_vars, t) \in Seq(Texts)
    BY DEF ConfigType
  <1>2. ASSUME NEW e \in Seq(Texts)
        PROVE  [config EXCEPT !.env_vars = e] \in ConfigType
    BY DEF ConfigType
  <1>3. [config EXCEPT !.rootfs = t] \in ConfigType
    BY DEF ConfigType
  <1>4. QED
    BY <1>1, <1>2, <1>3

LEMMA InitTyped == Init => TypeOK
  <1> SUFFICES ASSUME Init PROVE TypeOK
    OBVIOUS
  <1>1. argv \in CommandLines /\ Len(argv) \in Nat
    BY ArgvTyped DEF Init
  <1>2. config \in ConfigType
    <2>1. "" \in Texts /\ {} \in Word(64) /\ {} \in SUBSET FlagOptions
      BY TextAssumption DEF Word
    <2>2. <<>> \in Seq(Texts)
      OBVIOUS
    <2>3. ASSUME NEW t \in Texts, NEW s \in Seq(Texts), NEW w \in Word(64),
                 NEW f \in SUBSET FlagOptions
          PROVE  [binary_path |-> t, args |-> s, env_vars |-> s, rootfs |-> t,
                  memory_size |-> w, cpu_count |-> 1, flags |-> f]
                    \in ConfigType
      BY DEF ConfigType
    <2>4. QED
      BY <2>1, <2>2, <2>3 DEF Init, DefaultConfig
  <1>3. QED
    BY <1>1, <1>2 DEF Init, TypeOK

LEMMA ParseTyped == TypeOK /\ ParseArgs => TypeOK'
  <1> SUFFICES ASSUME TypeOK, ParseArgs PROVE TypeOK'
    OBVIOUS
  <1>0. /\ argv \in Seq(Texts) /\ Len(argv) \in Nat
        /\ \A j \in 1 .. Len(argv) : argv[j] \in Texts
    BY ArgvTyped DEF TypeOK
  <1> USE DEF TypeOK
  <1>1. CASE PrintUsageOrVersion
    BY <1>1, <1>0 DEF PrintUsageOrVersion, Exits
  <1>2. CASE BadNumber
    BY <1>2, <1>0 DEF BadNumber
  <1>3. CASE EndArguments
    BY <1>3, <1>0 DEF EndArguments, Exits
  <1>4. ASSUME NEW n \in {1, 2}, NEW settings, Consumes(n, settings),
               phase = "parsing", i + n <= Len(argv) + 1,
               settings \in ConfigType
        PROVE  TypeOK'
    BY <1>4, <1>0 DEF Consumes
  <1>5. CASE SetEnv
    <2>1. argv[i + 1] \in Texts
      BY <1>5, <1>0 DEF SetEnv, HasValue, AtOption
    <2>2. [config EXCEPT !.env_vars = Append(@, argv[i + 1])] \in ConfigType
      BY <2>1, ConfigTyped
    <2>3. QED
      BY <2>2, <1>5, <1>4, <1>0 DEF SetEnv, HasValue, AtOption
  <1>6. CASE SetRootfs
    <2>1. argv[i + 1] \in Texts
      BY <1>6, <1>0 DEF SetRootfs, HasValue, AtOption
    <2>2. [config EXCEPT !.rootfs = argv[i + 1]] \in ConfigType
      BY <2>1, ConfigTyped
    <2>3. QED
      BY <2>2, <1>6, <1>4, <1>0 DEF SetRootfs, HasValue, AtOption
  <1>7. CASE SetMemory
    <2>1. Bytes(argv[i + 1]) \in Word(64)
      BY <1>7, BytesTyped DEF SetMemory
    <2>2. [config EXCEPT !.memory_size = Bytes(argv[i + 1])] \in ConfigType
      BY <2>1 DEF ConfigType
    <2>3. QED
      BY <2>2, <1>7, <1>4, <1>0 DEF SetMemory, HasValue, AtOption
  <1>8. CASE SetCpus
    <2>1. Count[argv[i + 1]] \in Int
      BY <1>8, NumberAssumption DEF SetCpus
    <2>2. [config EXCEPT !.cpu_count = Count[argv[i + 1]]] \in ConfigType
      BY <2>1 DEF ConfigType
    <2>3. QED
      BY <2>2, <1>8, <1>4, <1>0 DEF SetCpus, HasValue, AtOption
  <1>9. CASE MissingValue
    BY <1>9, <1>4, <1>0 DEF MissingValue, AtOption
  <1>10. CASE SetFlag
    <2>1. {IF argv[i] \in DebugOptions THEN "-d" ELSE argv[i]}
            \subseteq FlagOptions
      BY <1>10 DEF SetFlag, AtOption, FlagOptions, DebugOptions
    <2>2. [config EXCEPT !.flags = @ \cup
             {IF argv[i] \in DebugOptions THEN "-d" ELSE argv[i]}]
               \in ConfigType
      BY <2>1 DEF ConfigType
    <2>3. QED
      BY <2>2, <1>10, <1>4, <1>0 DEF SetFlag, AtOption
  <1>11. CASE SkipUnknown
    BY <1>11, <1>4, <1>0 DEF SkipUnknown, AtOption
  <1>12. CASE TakeBinary
    <2>1. SubSeq(argv, i + 1, Len(argv)) \in Seq(Texts)
      BY <1>12, <1>0 DEF TakeBinary, AtOption
    <2>2. [config EXCEPT !.binary_path = argv[i],
                         !.args = SubSeq(argv, i + 1, Len(argv))]
            \in ConfigType
      BY <2>1, <1>12 DEF TakeBinary, AtOption, ConfigType
    <2>3. QED
      BY <2>2, <1>12, <1>0 DEF TakeBinary, AtOption, Consumes
  <1>13. QED
    BY <1>1, <1>2, <1>3, <1>5, <1>6, <1>7, <1>8, <1>9, <1>10, <1>11, <1>12
       DEF ParseArgs

LEMMA LoadTyped ==
    ASSUME TypeOK, NEW f \in Files, LoadElf(f)
    PROVE  TypeOK'
  <1>1. f \in FileType
    BY FileAssumption
  <1>2. FileSize(f) \in Int /\ EntryReads(f) \subseteq Entries
    BY <1>1 DEF FileSize, EntryReads, FileType
  <1>3. PICK header \in [DOMAIN PartEnd -> BOOLEAN] :
          LoadElf(f)!2!(header)!2
    BY DEF LoadElf
  <1>4. QED
    BY <1>1, <1>2, <1>3 DEF LoadElf, TypeOK, Exits

LEMMA NextTyped == TypeOK /\ [Next]_vars => TypeOK'
  <1>1. CASE UNCHANGED vars
    BY <1>1 DEF vars, TypeOK
  <1>2. ASSUME TypeOK, RunBinary PROVE TypeOK'
    BY <1>2 DEF RunBinary, Exits, TypeOK
  <1>3. QED
    BY <1>1, <1>2, ParseTyped, LoadTyped DEF Next

\* The variables keep their types for every command line and every file.
THEOREM TypeCorrect == Spec => []TypeOK
  <1>1. QED
    BY InitTyped, NextTyped, PTL DEF Spec

(***************************************************************************)
(* The command line                                                        *)
(***************************************************************************)

\* What parse_args knows after the first n arguments, V being the values
\* among them
Reading(V, n) ==
    /\ AreValues(V, n)
    /\ \A j \in (1 .. n) \ V : argv[j] \in Dashed \ EndingOptions
    /\ EnvRead(V) /\ LatestRead(V) /\ FlagsRead(V, n) /\ MemoryRead(V)

\* The next argument is no value.
Fresh(V, n) == n \in V \/ n = 0 \/ argv[n] \notin ValuedOptions

\* The binary is at k.
Found(k, V) ==
    /\ AreValues(V, k) /\ k \notin V
    /\ argv[k] \notin Dashed
    /\ Reading(V, k - 1)
    /\ config.binary_path = argv[k]
    /\ config.args = SubSeq(argv, k + 1, Len(argv))

\* The inductive invariant of parse_args
ParseInv ==
    /\ phase = "parsing" /\ i <= Len(argv) =>
         /\ ~Parsed
         /\ \E V \in SUBSET (1 .. i - 1) : Reading(V, i - 1) /\ Fresh(V, i - 1)
    /\ Parsed =>
         \E k \in DOMAIN argv : \E V \in SUBSET (1 .. k - 1) : Found(k, V)

LEMMA InitParse == Init => ParseInv
  <1> SUFFICES ASSUME Init PROVE ParseInv
    OBVIOUS
  <1> DEFINE none == [n \in {} |-> n]
  <1>1. /\ config.env_vars = <<>> /\ config.rootfs = "" /\ config.cpu_count = 1
        /\ config.memory_size = DefaultConfig.memory_size /\ config.flags = {}
        /\ config.binary_path = ""
    BY DEF Init, DefaultConfig
  <1> HIDE DEF none
  <1>2. EnvRead({})
    <2>1. ValuesOf({}, EnvOptions) = {} /\ DOMAIN config.env_vars = {}
      <3>1. DOMAIN <<>> = {}
        OBVIOUS
      <3>2. QED
        BY <1>1, <3>1 DEF ValuesOf
    <2>2. none \in [{} -> {}]
      BY DEF none
    <2>3. QED
      BY <2>1, <2>2 DEF EnvRead
  <1>3. LatestRead({}) /\ FlagsRead({}, 0) /\ MemoryRead({})
    <2>1. \A options : ValuesOf({}, options) = {} /\ Latest({}) = {}
      BY DEF ValuesOf, Latest
    <2>2. LatestRead({}) /\ MemoryRead({})
      BY <1>1, <2>1 DEF LatestRead, MemoryRead
    <2>3. FlagsRead({}, 0)
      <3>1. {p \in (1 .. 0) \ {} : argv[p] \in FlagOptions} = {}
        OBVIOUS
      <3>2. QED
        BY <1>1, <3>1 DEF FlagsRead
    <2>4. QED
      BY <2>2, <2>3
  <1>4. AreValues({}, 0)
    BY DEF AreValues
  <1>5. Reading({}, i - 1) /\ Fresh({}, i - 1)
    BY <1>2, <1>3, <1>4 DEF Init, Reading, Fresh
  <1>6. ~Parsed
    BY <1>1 DEF Parsed
  <1>7. QED
    BY <1>5, <1>6 DEF ParseInv

\* Which positions are values after one argument that has none, and after
\* an option with its value
LEMMA OneMore ==
    ASSUME NEW n \in Nat, NEW V \in SUBSET (1 .. n), AreValues(V, n),
           Fresh(V, n)
    PROVE  AreValues(V, n + 1)
  BY DEF AreValues, Fresh

LEMMA TwoMore ==
    ASSUME NEW n \in Nat, NEW V \in SUBSET (1 .. n), AreValues(V, n),
           Fresh(V, n), argv[n + 1] \in ValuedOptions
    PROVE  AreValues(V \cup {n + 2}, n + 2)
  <1>1. n + 2 \in Nat /\ n + 1 \in Nat /\ n + 2 - 1 = n + 1
    OBVIOUS
  <1> SUFFICES ASSUME NEW j \in 1 .. n + 2
               PROVE  j \in V \cup {n + 2} <=>
                        /\ j > 1 /\ argv[j - 1] \in ValuedOptions
                        /\ j - 1 \notin V \cup {n + 2}
    BY DEF AreValues
  <1>2. CASE j \in 1 .. n
    BY <1>2 DEF AreValues
  <1>3. CASE j = n + 1
    BY <1>3 DEF AreValues, Fresh
  <1>4. CASE j = n + 2
    BY <1>4, <1>1
  <1>5. QED
    BY <1>2, <1>3, <1>4

LEMMA MoreValues ==
    ASSUME NEW n \in Nat, NEW V \in SUBSET (1 .. n), NEW options
    PROVE  ValuesOf(V \cup {n + 2}, options) =
             IF argv[n + 1] \in options
             THEN ValuesOf(V, options) \cup {n + 2} ELSE ValuesOf(V, options)
  BY DEF ValuesOf

LEMMA LatestOfMore ==
    ASSUME NEW n \in Nat, NEW S \in SUBSET (1 .. n)
    PROVE  Latest(S \cup {n + 2}) = {n + 2}
  <1>1. \A j \in S : j <= n + 2 /\ ~(n + 2 <= j)
    OBVIOUS
  <1>2. n + 2 <= n + 2
    OBVIOUS
  <1>3. QED
    BY <1>1, <1>2 DEF Latest

\* No option is of two kinds.
LEMMA Kinds ==
    /\ ValuedOptions \cap (FlagOptions \cup EndingOptions) = {}
    /\ FlagOptions \cap EndingOptions = {}
    /\ EnvOptions \cap (RootfsOptions \cup MemoryOptions \cup CpusOptions) = {}
    /\ RootfsOptions \cap (MemoryOptions \cup CpusOptions) = {}
    /\ MemoryOptions \cap CpusOptions = {}
  BY DEF ValuedOptions, FlagOptions, EndingOptions, EnvOptions, RootfsOptions,
         MemoryOptions, CpusOptions, DebugOptions

FlagPositions(V, n) == {p \in (1 .. n) \ V : argv[p] \in FlagOptions}

FlagName(j) == IF argv[j] \in DebugOptions THEN "-d" ELSE argv[j]

\* What an argument without a value adds to the flags
LEMMA OneMoreFlag ==
    ASSUME NEW n \in Nat, NEW V \in SUBSET (1 .. n), FlagsRead(V, n),
           argv' = argv,
           config'.flags = IF argv[n + 1] \in FlagOptions
                           THEN config.flags \cup {FlagName(n + 1)}
                           ELSE config.flags
    PROVE  FlagsRead(V, n + 1)'
  <1>1. FlagPositions(V, n + 1) =
          IF argv[n + 1] \in FlagOptions
          THEN FlagPositions(V, n) \cup {n + 1} ELSE FlagPositions(V, n)
    BY DEF FlagPositions
  <1>2. config.flags = {FlagName(j) : j \in FlagPositions(V, n)}
    BY DEF FlagsRead, FlagPositions, FlagName
  <1>3. config'.flags = {FlagName(j) : j \in FlagPositions(V, n + 1)}
    BY <1>1, <1>2
  <1>4. QED
    BY <1>3 DEF FlagsRead, FlagPositions, FlagName

\* An option with a value adds none.
LEMMA TwoMoreFlags ==
    ASSUME NEW n \in Nat, NEW V \in SUBSET (1 .. n), FlagsRead(V, n),
           argv' = argv, config'.flags = config.flags,
           argv[n + 1] \in ValuedOptions
    PROVE  FlagsRead(V \cup {n + 2}, n + 2)'
  <1>1. FlagPositions(V \cup {n + 2}, n + 2) = FlagPositions(V, n)
    BY Kinds DEF FlagPositions
  <1>2. QED
    BY <1>1 DEF FlagsRead, FlagPositions

\* Settings that do not change are still what the values say.
LEMMA SameRead ==
    ASSUME NEW V, argv' = argv
    PROVE  /\ EnvRead(V) /\ config'.env_vars = config.env_vars => EnvRead(V)'
           /\ /\ LatestRead(V) /\ config'.rootfs = config.rootfs
              /\ config'.cpu_count = config.cpu_count
              => LatestRead(V)'
           /\ MemoryRead(V) /\ config'.memory_size = config.memory_size
              => MemoryRead(V)'
  <1>1. \A options : ValuesOf(V, options)' = ValuesOf(V, options)
    BY DEF ValuesOf
  <1>2. EnvRead(V) /\ config'.env_vars = config.env_vars => EnvRead(V)'
    BY <1>1 DEF EnvRead
  <1>3. /\ LatestRead(V) /\ config'.rootfs = config.rootfs
        /\ config'.cpu_count = config.cpu_count
        => LatestRead(V)'
    BY <1>1 DEF LatestRead
  <1>4. MemoryRead(V) /\ config'.memory_size = config.memory_size
        => MemoryRead(V)'
    BY <1>1 DEF MemoryRead
  <1>5. QED
    BY <1>2, <1>3, <1>4

\* A variable set once more comes after those set before.
LEMMA EnvMore ==
    ASSUME NEW n \in Nat, NEW V \in SUBSET (1 .. n), EnvRead(V),
           config.env_vars \in Seq(Texts), argv[n + 2] \in Texts,
           argv' = argv, argv[n + 1] \in EnvOptions,
           config'.env_vars = Append(config.env_vars, argv[n + 2])
    PROVE  EnvRead(V \cup {n + 2})'
  <1> DEFINE given == ValuesOf(V, EnvOptions)
             env == config.env_vars
             count == DOMAIN env
             now == Append(env, argv[n + 2])
             given2 == given \cup {n + 2}
             last == Len(env) + 1
  <1>1. PICK at \in [count -> given] :
          /\ given = {at[m] : m \in count}
          /\ \A m \in count : /\ env[m] = argv[at[m]]
                              /\ \A k \in count : k < m => at[k] < at[m]
    BY DEF EnvRead
  <1>2. /\ count = 1 .. Len(env) /\ Len(env) \in Nat
        /\ DOMAIN now = 1 .. last
        /\ \A m \in count : now[m] = env[m]
        /\ now[last] = argv[n + 2]
    OBVIOUS
  <1>3. given \subseteq 1 .. n
    BY DEF ValuesOf
  <1>4. ValuesOf(V \cup {n + 2}, EnvOptions) = given2
    BY MoreValues
  <1> DEFINE at2 == [m \in 1 .. last |-> IF m = last THEN n + 2 ELSE at[m]]
  <1> HIDE DEF given, env, count, now
  <1>5. at2 \in [DOMAIN now -> given2]
    BY <1>1, <1>2
  <1>6. given2 = {at2[m] : m \in DOMAIN now}
    BY <1>1, <1>2
  <1>7. ASSUME NEW m \in DOMAIN now
        PROVE  /\ now[m] = argv[at2[m]]
               /\ \A k \in DOMAIN now : k < m => at2[k] < at2[m]
    <2>1. \A p \in count : at[p] \in 1 .. n /\ at2[p] = at[p]
      BY <1>1, <1>2, <1>3
    <2>2. at2[last] = n + 2
      BY <1>2
    <2> HIDE DEF at2
    <2>3. CASE m = last
      <3>1. now[m] = argv[at2[m]]
        BY <2>2, <2>3, <1>2
      <3>2. ASSUME NEW k \in DOMAIN now, k < m
            PROVE  at2[k] < at2[m]
        <4>1. k \in count
          BY <3>2, <2>3, <1>2
        <4>2. at2[k] \in 1 .. n /\ at2[m] = n + 2
          BY <4>1, <2>1, <2>2, <2>3
        <4>3. QED
          BY <4>2
      <3>3. QED
        BY <3>1, <3>2
    <2>4. CASE m \in count
      <3>1. \A k \in DOMAIN now : k < m => k \in count
        BY <2>4, <1>2
      <3>2. QED
        BY <2>1, <2>4, <3>1, <1>1, <1>2
    <2>5. QED
      BY <2>3, <2>4, <1>2
  <1> HIDE DEF at2, given2
  <1>8. config'.env_vars = now /\ ValuesOf(V \cup {n + 2}, EnvOptions)' = given2
    BY <1>4 DEF now, env, ValuesOf
  <1>9. QED
    BY <1>5, <1>6, <1>7, <1>8 DEF EnvRead

\* The values of other options are unchanged by one more value.
LEMMA OtherValues ==
    ASSUME NEW n \in Nat, NEW V \in SUBSET (1 .. n), argv' = argv,
           NEW options, argv[n + 1] \notin options
    PROVE  ValuesOf(V \cup {n + 2}, options)' = ValuesOf(V, options)
  <1>1. ValuesOf(V \cup {n + 2}, options) = ValuesOf(V, options)
    BY DEF ValuesOf
  <1>2. QED
    BY <1>1 DEF ValuesOf

\* The value just read is the latest of its option.
LEMMA LatestValue ==
    ASSUME NEW n \in Nat, NEW V \in SUBSET (1 .. n), argv' = argv,
           NEW options, argv[n + 1] \in options
    PROVE  /\ ValuesOf(V \cup {n + 2}, options)' # {}
           /\ Latest(ValuesOf(V \cup {n + 2}, options)') = {n + 2}
  <1>1. ValuesOf(V \cup {n + 2}, options)' = ValuesOf(V, options) \cup {n + 2}
    BY MoreValues DEF ValuesOf
  <1>2. ValuesOf(V, options) \in SUBSET (1 .. n)
    BY DEF ValuesOf
  <1>3. QED
    BY <1>1, <1>2, LatestOfMore

\* The settings that one more value leaves alone
LEMMA OtherRead ==
    ASSUME NEW n \in Nat, NEW V \in SUBSET (1 .. n), argv' = argv
    PROVE  /\ /\ EnvRead(V) /\ argv[n + 1] \notin EnvOptions
              /\ config'.env_vars = config.env_vars
              => EnvRead(V \cup {n + 2})'
           /\ /\ LatestRead(V)
              /\ argv[n + 1] \notin RootfsOptions \cup CpusOptions
              /\ config'.rootfs = config.rootfs
              /\ config'.cpu_count = config.cpu_count
              => LatestRead(V \cup {n + 2})'
           /\ /\ MemoryRead(V) /\ argv[n + 1] \notin MemoryOptions
              /\ config'.memory_size = config.memory_size
              => MemoryRead(V \cup {n + 2})'
  <1>1. \A options : argv[n + 1] \notin options =>
          ValuesOf(V \cup {n + 2}, options)' = ValuesOf(V, options)
    BY OtherValues
  <1>2. /\ EnvRead(V) /\ argv[n + 1] \notin EnvOptions
        /\ config'.env_vars = config.env_vars
        => EnvRead(V \cup {n + 2})'
    <2> SUFFICES ASSUME EnvRead(V), argv[n + 1] \notin EnvOptions,
                        config'.env_vars = config.env_vars
                 PROVE  EnvRead(V \cup {n + 2})'
      OBVIOUS
    <2>1. ValuesOf(V \cup {n + 2}, EnvOptions)' = ValuesOf(V, EnvOptions)
      BY <1>1
    <2>2. QED
      BY <2>1 DEF EnvRead
  <1>3. /\ LatestRead(V)
        /\ argv[n + 1] \notin RootfsOptions \cup CpusOptions
        /\ config'.rootfs = config.rootfs
        /\ config'.cpu_count = config.cpu_count
        => LatestRead(V \cup {n + 2})'
    BY <1>1 DEF LatestRead
  <1>4. /\ MemoryRead(V) /\ argv[n + 1] \notin MemoryOptions
        /\ config'.memory_size = config.memory_size
        => MemoryRead(V \cup {n + 2})'
    BY <1>1 DEF MemoryRead
  <1>5. QED
    BY <1>2, <1>3, <1>4

LEMMA RootfsMore ==
    ASSUME NEW n \in Nat, NEW V \in SUBSET (1 .. n), argv' = argv,
           LatestRead(V), argv[n + 1] \in RootfsOptions,
           config'.rootfs = argv[n + 2], config'.cpu_count = config.cpu_count
    PROVE  LatestRead(V \cup {n + 2})'
  <1>1. /\ ValuesOf(V \cup {n + 2}, RootfsOptions)' # {}
        /\ Latest(ValuesOf(V \cup {n + 2}, RootfsOptions)') = {n + 2}
    BY LatestValue
  <1>2. ValuesOf(V \cup {n + 2}, CpusOptions)' = ValuesOf(V, CpusOptions)
    BY OtherValues, Kinds
  <1>3. QED
    BY <1>1, <1>2 DEF LatestRead

LEMMA CpusMore ==
    ASSUME NEW n \in Nat, NEW V \in SUBSET (1 .. n), argv' = argv,
           LatestRead(V), argv[n + 1] \in CpusOptions,
           config'.rootfs = config.rootfs,
           config'.cpu_count = Count[argv[n + 2]]
    PROVE  LatestRead(V \cup {n + 2})'
  <1>1. /\ ValuesOf(V \cup {n + 2}, CpusOptions)' # {}
        /\ Latest(ValuesOf(V \cup {n + 2}, CpusOptions)') = {n + 2}
    BY LatestValue
  <1>2. ValuesOf(V \cup {n + 2}, RootfsOptions)' = ValuesOf(V, RootfsOptions)
    BY OtherValues, Kinds
  <1>3. QED
    BY <1>1, <1>2 DEF LatestRead

\* The product keeps the bits of the size asked for that fit in 64.
LEMMA BytesWrap ==
    ASSUME NEW t \in DOMAIN Size
    PROVE  /\ Bytes(t) \subseteq Asked(t)
           /\ Bytes(t) = Asked(t) <=> Asked(t) \subseteq 0 .. 63
  <1> DEFINE d == Size[t].digits
             s == Size[t].shift
  <1>1. d \in SUBSET (0 .. 63) /\ s \in Nat
    BY NumberAssumption DEF Word
  <1>2. Bytes(t) = {b \in s .. 63 : b - s \in d} /\ Asked(t) = {b + s : b \in d}
    BY DEF Bytes, ShiftLeft, Asked
  <1> HIDE DEF d, s
  <1>3. \A b : b \in Asked(t) <=> b \in Nat /\ s <= b /\ b - s \in d
    BY <1>1, <1>2
  <1>4. Bytes(t) = Asked(t) \cap (0 .. 63)
    BY <1>1, <1>2, <1>3
  <1>5. QED
    BY <1>4

LEMMA MemoryMore ==
    ASSUME NEW n \in Nat, NEW V \in SUBSET (1 .. n), argv' = argv,
           argv[n + 1] \in MemoryOptions, argv[n + 2] \in DOMAIN Size,
           config'.memory_size = Bytes(argv[n + 2])
    PROVE  MemoryRead(V \cup {n + 2})'
  <1>1. /\ ValuesOf(V \cup {n + 2}, MemoryOptions)' # {}
        /\ Latest(ValuesOf(V \cup {n + 2}, MemoryOptions)') = {n + 2}
    BY LatestValue
  <1>2. /\ Bytes(argv[n + 2]) \subseteq Asked(argv[n + 2])
        /\ Bytes(argv[n + 2]) = Asked(argv[n + 2])
             <=> Asked(argv[n + 2]) \subseteq 0 .. 63
    BY BytesWrap
  <1>3. /\ config'.memory_size \subseteq Asked(argv'[n + 2])
        /\ config'.memory_size = Asked(argv'[n + 2])
             <=> Asked(argv'[n + 2]) \subseteq 0 .. 63
    BY <1>2
  <1>4. QED
    BY <1>1, <1>3 DEF MemoryRead

\* One argument more, with no value
LEMMA ReadOne ==
    ASSUME NEW n \in Nat, NEW V \in SUBSET (1 .. n), argv' = argv,
           Reading(V, n), Fresh(V, n),
           argv[n + 1] \in Dashed \ (EndingOptions \cup ValuedOptions),
           config'.env_vars = config.env_vars, config'.rootfs = config.rootfs,
           config'.cpu_count = config.cpu_count,
           config'.memory_size = config.memory_size,
           config'.flags = IF argv[n + 1] \in FlagOptions
                           THEN config.flags \cup {FlagName(n + 1)}
                           ELSE config.flags
    PROVE  Reading(V, n + 1)' /\ Fresh(V, n + 1)'
  <1>1. AreValues(V, n + 1)'
    <2>1. AreValues(V, n + 1)
      BY OneMore DEF Reading
    <2>2. QED
      BY <2>1 DEF AreValues
  <1>2. \A j \in (1 .. n + 1) \ V : argv'[j] \in Dashed \ EndingOptions
    BY DEF Reading
  <1>3. FlagsRead(V, n + 1)'
    BY OneMoreFlag DEF Reading
  <1>4. EnvRead(V)' /\ LatestRead(V)' /\ MemoryRead(V)'
    BY SameRead DEF Reading
  <1>5. Fresh(V, n + 1)'
    BY DEF Fresh
  <1>6. QED
    BY <1>1, <1>2, <1>3, <1>4, <1>5 DEF Reading

\* An option more, with its value
LEMMA ReadTwo ==
    ASSUME NEW n \in Nat, NEW V \in SUBSET (1 .. n), argv' = argv,
           Reading(V, n), Fresh(V, n),
           argv[n + 1] \in Dashed, argv[n + 1] \in ValuedOptions,
           config'.flags = config.flags,
           EnvRead(V \cup {n + 2})', LatestRead(V \cup {n + 2})',
           MemoryRead(V \cup {n + 2})'
    PROVE  /\ Reading(V \cup {n + 2}, n + 2)'
           /\ Fresh(V \cup {n + 2}, n + 2)'
           /\ V \cup {n + 2} \in SUBSET (1 .. n + 2)
  <1>1. AreValues(V \cup {n + 2}, n + 2)'
    <2>1. AreValues(V \cup {n + 2}, n + 2)
      BY TwoMore DEF Reading
    <2>2. QED
      BY <2>1 DEF AreValues
  <1>2. \A j \in (1 .. n + 2) \ (V \cup {n + 2}) :
          argv'[j] \in Dashed \ EndingOptions
    BY Kinds DEF Reading
  <1>3. FlagsRead(V \cup {n + 2}, n + 2)'
    BY TwoMoreFlags DEF Reading
  <1>4. QED
    BY <1>1, <1>2, <1>3 DEF Reading, Fresh

\* The binary is found where it is because of what was read before it.
LEMMA BinaryFound ==
    ASSUME TypeOK, TakeBinary, NEW n \in Nat, i = n + 1,
           NEW V \in SUBSET (1 .. n), Reading(V, n), Fresh(V, n)
    PROVE  Found(n + 1, V)'
  <1>1. /\ argv[n + 1] \notin Dashed /\ argv' = argv
        /\ n + 1 - 1 = n /\ n + 1 + 1 = n + 2
    BY DEF TakeBinary, AtOption, Consumes
  <1>2. /\ config'.binary_path = argv[n + 1]
        /\ config'.args = SubSeq(argv, n + 2, Len(argv))
        /\ config'.env_vars = config.env_vars
        /\ config'.rootfs = config.rootfs
        /\ config'.cpu_count = config.cpu_count
        /\ config'.memory_size = config.memory_size
        /\ config'.flags = config.flags
    BY <1>1 DEF TakeBinary, Consumes, TypeOK, ConfigType
  <1>3. EnvRead(V)' /\ LatestRead(V)' /\ MemoryRead(V)'
    BY <1>1, <1>2, SameRead DEF Reading
  <1>4. AreValues(V, n + 1)' /\ AreValues(V, n)'
    <2>1. AreValues(V, n + 1) /\ AreValues(V, n)
      BY OneMore DEF Reading
    <2>2. QED
      BY <1>1, <2>1 DEF AreValues
  <1>5. FlagsRead(V, n)'
    BY <1>1, <1>2 DEF Reading, FlagsRead
  <1>6. \A j \in (1 .. n) \ V : argv'[j] \in Dashed \ EndingOptions
    BY <1>1 DEF Reading
  <1>7. Reading(V, n)'
    BY <1>3, <1>4, <1>5, <1>6 DEF Reading
  <1>8. n + 1 \notin V
    OBVIOUS
  <1>9. Reading(V, n + 1 - 1)'
    <2> HIDE DEF Reading
    <2>1. QED
      BY <1>1, <1>7, Zenon
  <1>10. /\ argv'[n + 1] \notin Dashed
         /\ config'.binary_path = argv'[n + 1]
         /\ config'.args = SubSeq(argv', n + 1 + 1, Len(argv'))
    BY <1>1, <1>2, Zenon
  <1>11. QED
    BY <1>4, <1>8, <1>9, <1>10 DEF Found

\* What is known before and after an argument of the loop
LEMMA LoopReading ==
    ASSUME ParseInv, phase = "parsing", i <= Len(argv), i \in Nat \ {0}
    PROVE  /\ ~Parsed
           /\ \E n \in Nat : i = n + 1 /\
                \E V \in SUBSET (1 .. n) : Reading(V, n) /\ Fresh(V, n)
  <1>1. i - 1 \in Nat /\ i = i - 1 + 1
    OBVIOUS
  <1>2. QED
    BY <1>1 DEF ParseInv

LEMMA LoopGoesOn ==
    ASSUME NEW m \in Nat, i' = m + 1, ~Parsed,
           config'.binary_path = config.binary_path,
           NEW W \in SUBSET (1 .. m), Reading(W, m)', Fresh(W, m)'
    PROVE  ParseInv'
  <1>1. ~Parsed' /\ i' - 1 = m
    <2>1. ~Parsed'
      BY DEF Parsed
    <2>2. i' - 1 = m
      OBVIOUS
    <2>3. QED
      BY <2>1, <2>2
  <1>2. \E V \in SUBSET (1 .. m) : Reading(V, m)' /\ Fresh(V, m)'
    OBVIOUS
  <1>3. (\E V \in SUBSET (1 .. i - 1) : Reading(V, i - 1) /\ Fresh(V, i - 1))'
    BY <1>1, <1>2
  <1>4. QED
    BY <1>1, <1>3 DEF ParseInv

LEMMA OneArgument ==
    ASSUME TypeOK, ParseInv, argv' = argv, i' = i + 1,
           AtOption(Dashed \ (EndingOptions \cup ValuedOptions)),
           config'.binary_path = config.binary_path,
           config'.env_vars = config.env_vars,
           config'.rootfs = config.rootfs,
           config'.cpu_count = config.cpu_count,
           config'.memory_size = config.memory_size,
           config'.flags = IF argv[i] \in FlagOptions
                           THEN config.flags \cup {FlagName(i)}
                           ELSE config.flags
    PROVE  ParseInv'
  <1>1. i \in Nat \ {0} /\ phase = "parsing" /\ i <= Len(argv)
    BY ArgvTyped DEF TypeOK, AtOption
  <1>2. PICK n \in Nat : i = n + 1 /\
          \E V \in SUBSET (1 .. n) : Reading(V, n) /\ Fresh(V, n)
    BY <1>1, LoopReading
  <1>3. PICK V \in SUBSET (1 .. n) : Reading(V, n) /\ Fresh(V, n)
    BY <1>2
  <1>4. Reading(V, n + 1)' /\ Fresh(V, n + 1)'
    BY <1>2, <1>3, ReadOne DEF AtOption
  <1>5. n + 1 \in Nat /\ V \in SUBSET (1 .. n + 1) /\ ~Parsed
    BY <1>1, LoopReading
  <1>6. QED
    BY <1>2, <1>4, <1>5, LoopGoesOn

LEMMA TwoArguments ==
    ASSUME TypeOK, ParseInv, argv' = argv, i' = i + 2, AtOption(ValuedOptions),
           config'.binary_path = config.binary_path,
           config'.flags = config.flags,
           \A n \in Nat : \A V \in SUBSET (1 .. n) :
               i = n + 1 /\ Reading(V, n) =>
                   /\ EnvRead(V \cup {n + 2})' /\ LatestRead(V \cup {n + 2})'
                   /\ MemoryRead(V \cup {n + 2})'
    PROVE  ParseInv'
  <1>1. /\ i \in Nat \ {0} /\ phase = "parsing" /\ i <= Len(argv)
        /\ argv[i] \in Dashed /\ argv[i] \in ValuedOptions
    <2>1. i \in Nat \ {0} /\ i \in 1 .. Len(argv) /\ argv[i] \in Texts
      BY ArgvTyped DEF TypeOK, AtOption
    <2>2. argv[i] \in Options
      BY DEF AtOption, Options
    <2>3. argv[i] \in Dashed
      BY <2>1, <2>2, TextAssumption
    <2>4. QED
      BY <2>1, <2>3 DEF AtOption
  <1>2. PICK n \in Nat : i = n + 1 /\
          \E V \in SUBSET (1 .. n) : Reading(V, n) /\ Fresh(V, n)
    BY <1>1, LoopReading
  <1>3. PICK V \in SUBSET (1 .. n) : Reading(V, n) /\ Fresh(V, n)
    BY <1>2
  <1>4. /\ EnvRead(V \cup {n + 2})' /\ LatestRead(V \cup {n + 2})'
        /\ MemoryRead(V \cup {n + 2})'
    BY <1>2, <1>3
  <1>5. /\ Reading(V \cup {n + 2}, n + 2)'
        /\ Fresh(V \cup {n + 2}, n + 2)'
        /\ V \cup {n + 2} \in SUBSET (1 .. n + 2)
    BY <1>1, <1>2, <1>3, <1>4, ReadTwo
  <1>6. n + 2 \in Nat /\ i' = n + 2 + 1 /\ ~Parsed
    BY <1>1, <1>2, LoopReading
  <1>7. QED
    BY <1>5, <1>6, LoopGoesOn

\* Without a change of the command line and the settings
LEMMA SameParsed ==
    ASSUME ParseInv, argv' = argv, config' = config,
           phase' # "parsing" \/ (phase' = phase /\ i' = i)
    PROVE  ParseInv'
  <1>1. \A V, n : Reading(V, n)' <=> Reading(V, n)
    BY DEF Reading, AreValues, EnvRead, LatestRead, FlagsRead, MemoryRead,
           ValuesOf, Asked
  <1>2. QED
    BY <1>1 DEF ParseInv, Found, Parsed, AreValues, Fresh

LEMMA ParseKept == TypeOK /\ ParseInv /\ ParseArgs => ParseInv'
  <1> SUFFICES ASSUME TypeOK, ParseInv, ParseArgs PROVE ParseInv'
    OBVIOUS
  <1>0. config \in ConfigType
    BY DEF TypeOK
  <1>1. CASE PrintUsageOrVersion
    BY <1>1, SameParsed DEF PrintUsageOrVersion, Exits
  <1>2. CASE BadNumber
    BY <1>2, SameParsed DEF BadNumber
  <1>3. CASE EndArguments
    BY <1>3, SameParsed DEF EndArguments, Exits
  <1>4. CASE SetEnv
    <2>1. /\ AtOption(EnvOptions) /\ i + 1 <= Len(argv)
          /\ argv' = argv /\ i' = i + 2
          /\ config' = [config EXCEPT
                          !.env_vars = Append(config.env_vars, argv[i + 1])]
      BY <1>4 DEF SetEnv, HasValue, Consumes
    <2>2. /\ config'.binary_path = config.binary_path
          /\ config'.flags = config.flags /\ config'.rootfs = config.rootfs
          /\ config'.cpu_count = config.cpu_count
          /\ config'.memory_size = config.memory_size
          /\ config'.env_vars = Append(config.env_vars, argv[i + 1])
      BY <1>0, <2>1 DEF ConfigType
    <2>3. config.env_vars \in Seq(Texts) /\ argv[i + 1] \in Texts
      BY <1>0, <2>1, ArgvTyped DEF TypeOK, ConfigType
    <2>4. ASSUME NEW n \in Nat, NEW V \in SUBSET (1 .. n), i = n + 1,
                 Reading(V, n)
          PROVE  /\ EnvRead(V \cup {n + 2})' /\ LatestRead(V \cup {n + 2})'
                 /\ MemoryRead(V \cup {n + 2})'
      <3>1. argv[n + 1] \in EnvOptions /\ i + 1 = n + 2
        BY <2>1, <2>4 DEF AtOption
      <3>2. EnvRead(V \cup {n + 2})'
        BY <2>1, <2>2, <2>3, <2>4, <3>1, EnvMore DEF Reading
      <3>3. LatestRead(V \cup {n + 2})' /\ MemoryRead(V \cup {n + 2})'
        BY <2>1, <2>2, <2>4, <3>1, OtherRead, Kinds DEF Reading
      <3>4. QED
        BY <3>2, <3>3
    <2>5. AtOption(ValuedOptions)
      BY <2>1 DEF AtOption, ValuedOptions
    <2>6. QED
      BY <2>1, <2>2, <2>4, <2>5, TwoArguments
  <1>5. CASE SetRootfs
    <2>1. /\ AtOption(RootfsOptions) /\ argv' = argv /\ i' = i + 2
          /\ config' = [config EXCEPT !.rootfs = argv[i + 1]]
      BY <1>5 DEF SetRootfs, Consumes
    <2>2. /\ config'.binary_path = config.binary_path
          /\ config'.flags = config.flags
          /\ config'.env_vars = config.env_vars
          /\ config'.cpu_count = config.cpu_count
          /\ config'.memory_size = config.memory_size
          /\ config'.rootfs = argv[i + 1]
      BY <1>0, <2>1 DEF ConfigType
    <2>3. ASSUME NEW n \in Nat, NEW V \in SUBSET (1 .. n), i = n + 1,
                 Reading(V, n)
          PROVE  /\ EnvRead(V \cup {n + 2})' /\ LatestRead(V \cup {n + 2})'
                 /\ MemoryRead(V \cup {n + 2})'
      <3>1. argv[n + 1] \in RootfsOptions /\ i + 1 = n + 2
        BY <2>1, <2>3 DEF AtOption
      <3>2. LatestRead(V \cup {n + 2})'
        BY <2>1, <2>2, <2>3, <3>1, RootfsMore DEF Reading
      <3>3. EnvRead(V \cup {n + 2})' /\ MemoryRead(V \cup {n + 2})'
        BY <2>1, <2>2, <2>3, <3>1, OtherRead, Kinds DEF Reading
      <3>4. QED
        BY <3>2, <3>3
    <2>4. AtOption(ValuedOptions)
      BY <2>1 DEF AtOption, ValuedOptions
    <2>5. QED
      BY <2>1, <2>2, <2>3, <2>4, TwoArguments
  <1>6. CASE SetMemory
    <2>1. /\ AtOption(MemoryOptions) /\ argv' = argv /\ i' = i + 2
          /\ argv[i + 1] \in DOMAIN Size
          /\ config' = [config EXCEPT !.memory_size = Bytes(argv[i + 1])]
      BY <1>6 DEF SetMemory, Consumes
    <2>2. /\ config'.binary_path = config.binary_path
          /\ config'.flags = config.flags /\ config'.rootfs = config.rootfs
          /\ config'.env_vars = config.env_vars
          /\ config'.cpu_count = config.cpu_count
          /\ config'.memory_size = Bytes(argv[i + 1])
      BY <1>0, <2>1 DEF ConfigType
    <2>3. ASSUME NEW n \in Nat, NEW V \in SUBSET (1 .. n), i = n + 1,
                 Reading(V, n)
          PROVE  /\ EnvRead(V \cup {n + 2})' /\ LatestRead(V \cup {n + 2})'
                 /\ MemoryRead(V \cup {n + 2})'
      <3>1. argv[n + 1] \in MemoryOptions /\ i + 1 = n + 2
        BY <2>1, <2>3 DEF AtOption
      <3>2. MemoryRead(V \cup {n + 2})'
        BY <2>1, <2>2, <2>3, <3>1, MemoryMore
      <3>3. EnvRead(V \cup {n + 2})' /\ LatestRead(V \cup {n + 2})'
        BY <2>1, <2>2, <2>3, <3>1, OtherRead, Kinds DEF Reading
      <3>4. QED
        BY <3>2, <3>3
    <2>4. AtOption(ValuedOptions)
      BY <2>1 DEF AtOption, ValuedOptions
    <2>5. QED
      BY <2>1, <2>2, <2>3, <2>4, TwoArguments
  <1>7. CASE SetCpus
    <2>1. /\ AtOption(CpusOptions) /\ argv' = argv /\ i' = i + 2
          /\ config' = [config EXCEPT !.cpu_count = Count[argv[i + 1]]]
      BY <1>7 DEF SetCpus, Consumes
    <2>2. /\ config'.binary_path = config.binary_path
          /\ config'.flags = config.flags /\ config'.rootfs = config.rootfs
          /\ config'.env_vars = config.env_vars
          /\ config'.memory_size = config.memory_size
          /\ config'.cpu_count = Count[argv[i + 1]]
      BY <1>0, <2>1 DEF ConfigType
    <2>3. ASSUME NEW n \in Nat, NEW V \in SUBSET (1 .. n), i = n + 1,
                 Reading(V, n)
          PROVE  /\ EnvRead(V \cup {n + 2})' /\ LatestRead(V \cup {n + 2})'
                 /\ MemoryRead(V \cup {n + 2})'
      <3>1. argv[n + 1] \in CpusOptions /\ i + 1 = n + 2
        BY <2>1, <2>3 DEF AtOption
      <3>2. LatestRead(V \cup {n + 2})'
        BY <2>1, <2>2, <2>3, <3>1, CpusMore DEF Reading
      <3>3. EnvRead(V \cup {n + 2})' /\ MemoryRead(V \cup {n + 2})'
        BY <2>1, <2>2, <2>3, <3>1, OtherRead, Kinds DEF Reading
      <3>4. QED
        BY <3>2, <3>3
    <2>4. AtOption(ValuedOptions)
      BY <2>1 DEF AtOption, ValuedOptions
    <2>5. QED
      BY <2>1, <2>2, <2>3, <2>4, TwoArguments
  <1>8. CASE MissingValue
    <2>1. /\ phase = "parsing" /\ i <= Len(argv) /\ i \in Nat \ {0}
          /\ Len(argv) \in Nat
          /\ ~(i + 1 <= Len(argv)) /\ argv' = argv /\ i' = i + 1
          /\ config' = config
      BY <1>8, ArgvTyped DEF MissingValue, AtOption, HasValue, Consumes, TypeOK
    <2>2. ~Parsed
      BY <2>1, LoopReading
    <2>3. ~Parsed' /\ ~(i' <= Len(argv'))
      BY <2>1, <2>2 DEF Parsed
    <2>4. QED
      BY <2>3 DEF ParseInv
  <1>9. CASE SetFlag
    <2>1. /\ AtOption(FlagOptions) /\ argv' = argv /\ i' = i + 1
          /\ config' = [config EXCEPT !.flags = @ \cup {FlagName(i)}]
      BY <1>9 DEF SetFlag, Consumes, FlagName
    <2>2. /\ config'.binary_path = config.binary_path
          /\ config'.rootfs = config.rootfs
          /\ config'.env_vars = config.env_vars
          /\ config'.cpu_count = config.cpu_count
          /\ config'.memory_size = config.memory_size
          /\ config'.flags = config.flags \cup {FlagName(i)}
      BY <1>0, <2>1 DEF ConfigType
    <2>3. i \in 1 .. Len(argv) /\ argv[i] \in Texts /\ argv[i] \in Options
      BY <2>1, ArgvTyped DEF TypeOK, AtOption, Options
    <2>4. AtOption(Dashed \ (EndingOptions \cup ValuedOptions))
      BY <2>1, <2>3, TextAssumption, Kinds DEF AtOption
    <2>5. argv[i] \in FlagOptions
      BY <2>1 DEF AtOption
    <2>6. QED
      BY <2>1, <2>2, <2>4, <2>5, OneArgument
  <1>10. CASE SkipUnknown
    <2>1. /\ AtOption(Dashed \ Options) /\ argv' = argv /\ i' = i + 1
          /\ config' = config
      BY <1>10 DEF SkipUnknown, Consumes
    <2>2. /\ AtOption(Dashed \ (EndingOptions \cup ValuedOptions))
          /\ argv[i] \notin FlagOptions
      BY <2>1 DEF AtOption, Options
    <2>3. QED
      BY <2>1, <2>2, OneArgument
  <1>11. CASE TakeBinary
    <2>1. /\ phase = "parsing" /\ i <= Len(argv) /\ i \in Nat \ {0}
          /\ Len(argv) \in Nat /\ argv' = argv /\ i' = Len(argv) + 1
      BY <1>11, ArgvTyped DEF TakeBinary, AtOption, Consumes, TypeOK
    <2>2. PICK n \in Nat : i = n + 1 /\
            \E V \in SUBSET (1 .. n) : Reading(V, n) /\ Fresh(V, n)
      BY <2>1, LoopReading
    <2>3. PICK V \in SUBSET (1 .. n) : Reading(V, n) /\ Fresh(V, n)
      BY <2>2
    <2>4. Found(n + 1, V)'
      BY <1>11, <2>2, <2>3, BinaryFound
    <2>5. n + 1 \in DOMAIN argv' /\ n + 1 - 1 = n /\ ~(i' <= Len(argv'))
      BY <2>1, <2>2, ArgvTyped DEF TypeOK
    <2>6. QED
      BY <2>3, <2>4, <2>5 DEF ParseInv
  <1>12. QED
    BY <1>1, <1>2, <1>3, <1>4, <1>5, <1>6, <1>7, <1>8, <1>9, <1>10, <1>11
       DEF ParseArgs

LEMMA NextParse == TypeOK /\ ParseInv /\ [Next]_vars => ParseInv'
  <1> SUFFICES ASSUME TypeOK, ParseInv, [Next]_vars PROVE ParseInv'
    OBVIOUS
  <1>1. CASE UNCHANGED vars
    BY <1>1, SameParsed DEF vars
  <1>2. ASSUME NEW f \in Files, LoadElf(f) PROVE ParseInv'
    <2>1. phase' # "parsing" /\ argv' = argv /\ config' = config
      BY <1>2 DEF LoadElf, Exits
    <2>2. QED
      BY <2>1, SameParsed
  <1>3. CASE RunBinary
    BY <1>3, SameParsed DEF RunBinary, Exits
  <1>4. QED
    BY <1>1, <1>2, <1>3, ParseKept DEF Next

LEMMA ParseInvariant == Spec => []ParseInv
  <1>1. QED
    BY InitParse, NextParse, TypeCorrect, PTL DEF Spec

\* The binary and its arguments are split from the options at the right
\* place, for command lines of any length.
THEOREM ArgumentsCorrect == Spec => []ArgumentsReachBinary
  <1>1. ParseInv => ArgumentsReachBinary
    BY DEF ParseInv, Found, Reading, ArgumentsReachBinary, BinaryAt
  <1>2. QED
    BY <1>1, ParseInvariant, PTL

\* Variables, root, CPUs and flags are those the options before the binary
\* ask for.
THEOREM SettingsCorrect == Spec => []SettingsAsAsked
  <1>1. ParseInv => SettingsAsAsked
    BY DEF ParseInv, Found, Reading, SettingsAsAsked, BinaryAt
  <1>2. QED
    BY <1>1, ParseInvariant, PTL

\* The memory is what was asked for exactly when 64 bits hold it, for every
\* size and suffix.
THEOREM MemoryCorrect == Spec => []MemoryAsAsked
  <1>1. ParseInv => MemoryAsAsked
    BY DEF ParseInv, Found, Reading, MemoryAsAsked, BinaryAt
  <1>2. QED
    BY <1>1, ParseInvariant, PTL

(***************************************************************************)
(* The file                                                                *)
(***************************************************************************)

Right == file.opens /\ \A p \in DOMAIN PartEnd : file.agrees[p]

\* What the outcome of load_elf says of the file it opened
HeaderInv ==
    /\ AcceptedHeader
    /\ elf.valid => Right
    /\ phase \in {"parsing", "loading"} => ~elf.valid /\ file = NoFile
    /\ phase = "running" => elf.valid
    /\ phase = "exited" =>
         /\ status = 0 => elf.valid
         /\ Right /\ file.length >= 20 => status = 0

LEMMA InitHeader == Init => HeaderInv
  BY DEF Init, HeaderInv, AcceptedHeader

LEMMA ParseHeader ==
    ASSUME HeaderInv, ParseArgs
    PROVE  HeaderInv'
  <1>1. /\ phase = "parsing" /\ file' = file /\ elf' = elf
        /\ \/ phase' \in {"parsing", "loading", "aborted"}
           \/ phase' = "exited" /\ status' = 1
    BY DEF ParseArgs, PrintUsageOrVersion, SetEnv, SetRootfs, SetMemory,
           SetCpus, BadNumber, MissingValue, SetFlag, SkipUnknown, TakeBinary,
           EndArguments, AtOption, Consumes, Exits
  <1>2. ~Right'
    BY <1>1 DEF HeaderInv, Right, NoFile
  <1>3. QED
    BY <1>1, <1>2 DEF HeaderInv, AcceptedHeader

LEMMA LoadHeader ==
    ASSUME HeaderInv, NEW f \in Files, LoadElf(f)
    PROVE  HeaderInv'
  <1>1. PICK header \in [DOMAIN PartEnd -> BOOLEAN] :
          /\ \A p \in DOMAIN PartEnd : Compares(f, p, header[p])
          /\ LoadElf(f)!2!(header)!2
    BY DEF LoadElf
  <1> DEFINE valid == f.opens /\ Identified(header) /\ header.machine
  <1>2. f \in FileType /\ f.length \in Nat
    BY FileAssumption DEF FileType
  <1>3. /\ DOMAIN PartEnd = {"magic", "class", "data", "machine"}
        /\ \A p \in DOMAIN PartEnd : PartEnd[p] \in Nat /\ PartEnd[p] <= 20
    BY DEF PartEnd
  <1>4. valid <=> f.opens /\ \A p \in DOMAIN PartEnd : header[p]
    BY <1>3 DEF Identified
  <1>5. \A p \in DOMAIN PartEnd : header[p] => f.agrees[p]
    BY <1>1, <1>2, <1>3 DEF Compares, FileType
  <1>6. f.length >= 20 => \A p \in DOMAIN PartEnd : header[p] = f.agrees[p]
    BY <1>1, <1>2, <1>3 DEF Compares, FileType
  <1>7. /\ file' = f /\ elf'.valid = valid
        /\ valid => phase' = "running" /\ elf'.entry_point \in EntryReads(f)
                     /\ elf'.file_size = FileSize(f)
        /\ ~valid => phase' = "exited" /\ status' = 1
    BY <1>1 DEF LoadElf, Exits
  <1> HIDE DEF valid
  <1>8. valid => Right' /\ AcceptedHeader'
    <2>1. valid => Right'
      BY <1>4, <1>5, <1>7 DEF Right
    <2>2. valid /\ f.length >= 32 => elf'.entry_point = f.entry
      BY <1>7 DEF EntryReads
    <2>3. valid /\ f.seekable => (elf'.file_size = f.length <=> f.length >= 64)
      BY <1>2, <1>7 DEF FileSize
    <2>4. QED
      BY <1>7, <2>1, <2>2, <2>3 DEF AcceptedHeader
  <1>9. ~valid => ~(Right' /\ file'.length >= 20)
    BY <1>4, <1>6, <1>7 DEF Right
  <1>10. ~valid => AcceptedHeader'
    BY <1>7 DEF AcceptedHeader
  <1>11. QED
    BY <1>7, <1>8, <1>9, <1>10 DEF HeaderInv

LEMMA NextHeader == HeaderInv /\ [Next]_vars => HeaderInv'
  <1>1. ASSUME HeaderInv, UNCHANGED vars PROVE HeaderInv'
    BY <1>1 DEF vars, HeaderInv, AcceptedHeader, Right
  <1>2. ASSUME HeaderInv, RunBinary PROVE HeaderInv'
    BY <1>2 DEF RunBinary, Exits, HeaderInv, AcceptedHeader, Right
  <1>3. QED
    BY <1>1, <1>2, ParseHeader, LoadHeader DEF Next

LEMMA HeaderInvariant == Spec => []HeaderInv
  <1>1. QED
    BY InitHeader, NextHeader, PTL DEF Spec

\* A zero exit code is never given for a file that contradicts it, whatever
\* the bytes beyond the end of the file were.
THEOREM ExitCodeCorrect == Spec => []ExitCodeTells
  <1>1. HeaderInv => ExitCodeTells
    BY DEF HeaderInv, ExitCodeTells, Right
  <1>2. QED
    BY <1>1, HeaderInvariant, PTL

\* The entry point and the size of an accepted file are as right as the file
\* is long.
THEOREM HeaderCorrect == Spec => []AcceptedHeader
  <1>1. HeaderInv => AcceptedHeader
    BY DEF HeaderInv
  <1>2. QED
    BY <1>1, HeaderInvariant, PTL

(***************************************************************************)
(* The end                                                                 *)
(***************************************************************************)

\* How many steps are left at most
Rank ==
    CASE phase = "parsing" -> Len(argv) + 4 - i
      [] phase = "loading" -> 2
      [] phase = "running" -> 1
      [] OTHER -> 0

Ended == phase \in {"exited", "aborted"}

\* Only a program that ended has no step left.
RankCounts == Rank \in Nat /\ (Rank = 0 <=> Ended)

\* Every step uses one up.
RankFalls == Rank' < Rank

LEMMA Counts == TypeOK => RankCounts
  <1> SUFFICES ASSUME TypeOK PROVE RankCounts
    OBVIOUS
  <1>1. /\ Len(argv) \in Nat /\ i \in 1 .. Len(argv) + 1
        /\ phase \in {"parsing", "loading", "running", "exited", "aborted"}
    BY ArgvTyped DEF TypeOK
  <1>2. phase = "parsing" => Rank = Len(argv) + 4 - i
    BY DEF Rank
  <1>3. phase = "loading" => Rank = 2
    BY DEF Rank
  <1>4. phase = "running" => Rank = 1
    BY DEF Rank
  <1>5. Ended => Rank = 0
    BY DEF Rank, Ended
  <1>6. QED
    BY <1>1, <1>2, <1>3, <1>4, <1>5 DEF RankCounts, Ended

\* An iteration of parse_args reads an argument, or leaves the loop.
LEMMA ParseFalls == TypeOK /\ ParseArgs => RankFalls
  <1> SUFFICES ASSUME TypeOK, ParseArgs PROVE RankFalls
    OBVIOUS
  <1>1. Len(argv) \in Nat /\ i \in 1 .. Len(argv) + 1
    BY ArgvTyped DEF TypeOK
  <1>2. phase = "parsing" /\ Rank = Len(argv) + 4 - i /\ Rank >= 3
    <2>1. phase = "parsing"
      BY DEF ParseArgs, PrintUsageOrVersion, SetEnv, SetRootfs, SetMemory,
             SetCpus, BadNumber, MissingValue, SetFlag, SkipUnknown,
             TakeBinary, EndArguments, AtOption
    <2>2. QED
      BY <1>1, <2>1 DEF Rank
  <1>3. ASSUME NEW n \in Nat \ {0}, NEW settings, Consumes(n, settings)
        PROVE  RankFalls
    <2>1. Rank' = Len(argv) + 4 - (i + n)
      BY <1>2, <1>3 DEF Consumes, Rank
    <2>2. QED
      BY <1>1, <1>2, <2>1 DEF RankFalls
  <1>4. ASSUME phase' \in {"loading", "exited", "aborted"} PROVE RankFalls
    <2>1. Rank' <= 2
      BY <1>4 DEF Rank
    <2>2. Rank' \in Nat
      BY <1>4 DEF Rank
    <2>3. QED
      BY <1>1, <1>2, <2>1, <2>2 DEF RankFalls
  <1>5. CASE PrintUsageOrVersion \/ BadNumber \/ EndArguments
    BY <1>4, <1>5 DEF PrintUsageOrVersion, BadNumber, EndArguments, Exits
  <1>6. CASE SetEnv \/ SetRootfs \/ SetMemory \/ SetCpus
    <2>1. PICK settings : Consumes(2, settings)
      BY <1>6 DEF SetEnv, SetRootfs, SetMemory, SetCpus
    <2>2. QED
      BY <1>3, <2>1
  <1>7. CASE MissingValue \/ SetFlag \/ SkipUnknown
    <2>1. PICK settings : Consumes(1, settings)
      BY <1>7 DEF MissingValue, SetFlag, SkipUnknown
    <2>2. QED
      BY <1>3, <2>1
  <1>8. CASE TakeBinary
    <2>1. Len(argv) + 1 - i \in Nat \ {0}
      BY <1>1, <1>8 DEF TakeBinary, AtOption
    <2>2. PICK settings : Consumes(Len(argv) + 1 - i, settings)
      BY <1>8 DEF TakeBinary
    <2>3. QED
      BY <1>3, <2>1, <2>2
  <1>9. QED
    BY <1>5, <1>6, <1>7, <1>8 DEF ParseArgs

LEMMA NextFalls == TypeOK /\ Next => RankFalls
  <1>1. ASSUME NEW f \in Files, LoadElf(f) PROVE RankFalls
    <2>1. phase = "loading" /\ phase' \in {"running", "exited"}
      BY <1>1 DEF LoadElf, Exits
    <2>2. Rank = 2 /\ Rank' \in {0, 1}
      BY <2>1 DEF Rank
    <2>3. QED
      BY <2>2 DEF RankFalls
  <1>2. ASSUME RunBinary PROVE RankFalls
    <2>1. Rank = 1 /\ Rank' = 0
      BY <1>2 DEF RunBinary, Exits, Rank
    <2>2. QED
      BY <2>1 DEF RankFalls
  <1>3. QED
    BY <1>1, <1>2, ParseFalls DEF Next

\* What the loop of parse_args has a branch for, the end of argv included:
\* for each, the guard of one of the actions of ParseArgs.
HasBranch ==
    \/ i > Len(argv)
    \/ AtOption(EndingOptions) \/ AtOption(FlagOptions)
    \/ AtOption(Dashed \ Options) \/ AtOption(Texts \ Dashed)
    \/ AtOption(ValuedOptions) /\ ~HasValue
    \/ HasValue /\ \/ AtOption(EnvOptions) \/ AtOption(RootfsOptions)
                   \/ AtOption(MemoryOptions) \/ AtOption(CpusOptions)

\* No text of a command line falls between the branches.
LEMMA Branches == TypeOK /\ phase = "parsing" => HasBranch
  <1> SUFFICES ASSUME TypeOK, phase = "parsing", i <= Len(argv)
               PROVE  HasBranch
    <2>1. TypeOK => Len(argv) \in Nat /\ i \in Nat
      BY ArgvTyped DEF TypeOK
    <2>2. QED
      BY <2>1 DEF HasBranch
  <1>1. argv[i] \in Texts
    BY ArgvTyped DEF TypeOK
  <1>2. \/ argv[i] \in EndingOptions \/ argv[i] \in FlagOptions
        \/ argv[i] \in ValuedOptions
        \/ argv[i] \in Dashed \ Options \/ argv[i] \in Texts \ Dashed
    BY <1>1 DEF Options
  <1>3. QED
    BY <1>2 DEF HasBranch, AtOption, ValuedOptions

\* However long the command line, every step of the program brings its end
\* nearer, by a count that is 0 only there: no option sends parse_args back,
\* and no state comes twice.  Of Terminates only the fairness is left to TLC.
THEOREM StepsAreFinite == Spec => [][RankFalls]_vars /\ []RankCounts
  <1>1. TypeOK /\ [Next]_vars => [RankFalls]_vars
    BY NextFalls
  <1>2. QED
    BY <1>1, Counts, TypeCorrect, PTL DEF Spec

\* And before the end of the loop some branch takes the argument it is at.
THEOREM NoArgumentIsStuck == Spec => [](phase = "parsing" => HasBranch)
  <1>1. QED
    BY Branches, TypeCorrect, PTL
=============================================================================
