# AcheronARM64 in TLA+

AcheronARM64 is a C++ library that emulates the system registers and the MMU of
an ARM64 guest for a hypervisor that traps them, with example integrations for
KVM, Hypervisor.framework (HVF) and Windows Hypervisor Platform (WHP) and a
command line front end. This directory holds TLA+ models of it, the TLC
configurations that check them on small instances, and proofs checked by TLAPS.

Paths below are relative to the repository.

## 1. Inventory

| Component | State | Operations | Interacts with |
|---|---|---|---|
| **MMU emulator** (`src/MMUEmulator.cpp`, `include/acheronarm64/MMUEmulator.hpp`) | `ttbr0_`, `ttbr1_`, `tcr_`, the TLB `tlb_` (a hash map from a key to an entry), the counters `stats_` | `translate`, `translate_with_attributes`, `tlb_invalidate_va/asid/all`, `set_ttbr0/1`, `set_tcr`, `reset_stats` | The page tables in guest memory, which the guest changes at any time. The read of a descriptor is a stub in the code |
| **Instruction decoder** (`src/ARM64SystemRegisters.cpp`) | none | `decodeSystemInstruction`, ten tests in order | Its result is the input of the emulator and of the trap handlers |
| **System register emulator** (same file) | `state_`: ten EL1 registers | `readSystemRegister`, `writeSystemRegister`, `emulateMSR`, `emulateMRS`, `handleExceptionEntry/Return`, `getState`, `reset` | The general purpose registers, which belong to the hypervisor and are reached through callbacks |
| **Register views** (`ARM64SystemRegisters.hpp`) | none of their own | bit-fields of SCTLR, TCR, TTBR, ESR, MPIDR, read and assigned; `getBaseAddress`, `setBaseAddress`, `getExceptionClass` | Views of the words above, reached through `getState()` |
| **Hypervisor integrations** (`examples/kvm_`, `hvf_`, `whp_integration.cpp`) | the handles of VM and vCPU; of the vCPU, its PC and the reason of the last exit | `initialize`, `runLoop`, `handleSystemRegisterTrap`, `cleanup`, the destructor | Decoder, emulator, the operating system's VM and vCPU, and whoever else in the process holds a handle |
| **Command line runner** (`tools/acheron.cpp`) | a `Config`, an `ELFInfo` | `parse_args`, `load_elf`, `main` | The command line and one file; constructs both emulators and runs nothing yet |
| **Basic usage example** (`examples/basic_usage.cpp`) | none | a straight-line program | Decoder and emulator |
| **Build and tests** | none | – | – |

There is no thread, lock or network in the library. What is hard in it is of
another kind: a cache that must follow tables changed behind its back, a key
that packs two values in one word, register writes that must flush, undefined
shifts, tests whose order matters, two tables of registers that must agree, an
exception that overwrites the previous one, and, in the integrations, a vCPU
that exits for unrelated reasons between any two guest instructions and a PC
that each handler has to move exactly when it emulated something. Around the run
loops there are handles that must be freed although any step of `initialize` may
have failed, and in the command line there are sizes that wrap and files that
end too soon. PROJECT.json lists these hazards one by one with the line at which each one bites.

What makes each component correct:

- *MMU emulator*: an answer comes from tables the guest had since the last
  invalidation that covers it, under the registers as they are now; address
  spaces do not see each other; the TLB is bounded and loses as little as it
  can; the counters agree on every path.
- *Decoder*: the order of the tests is harmless, the fields lose nothing, and
  the set of types it returns is known.
- *System register emulator*: it is a register file; the identity registers
  are read-only.
- *Register views*: the member functions and the bit-fields of a register are
  two ways to the same bits and agree.
- *Integrations*: an exit is handled once, and an access that took effect is
  passed; the guest makes progress; a vCPU that is gone is not emulated, in
  whatever order the public functions are called; what was created is freed,
  unless it was lost, and what others own is not, unless a cleanup came before.
- *Command line runner*: what follows the binary reaches it untouched, the
  settings are the ones asked for, and the exit code tells the truth about the
  file.

## 2. Modules

```
Words ── PageTableWalk ── MMUEmulator ── MCMMUEmulator
  │                          │  └─ INSTANCE TranslationService (abstract)
  │                          └─ MMUEmulatorProofs ── MMUCoherenceProofs ── MMURefinementProofs
  ├── InstructionDecoder ─┬─ SystemRegisterEmulator ── HypervisorLoop ── Integration
  ├── RegisterViews ──────┘   └─ INSTANCE RegisterFile (abstract)
  └── BinaryRunner
```

| Module | For TLC | Proofs |
|---|---|---|
| InstructionDecoder | MCInstructionDecoder | InstructionDecoderProofs, over the specification of MCInstructionDecoder |
| SystemRegisterEmulator | MCSystemRegisterEmulator | SystemRegisterEmulatorProofs |
| HypervisorLoop | MCHypervisorLoop | HypervisorLoopProofs, over the two above |
| Integration | MCIntegration, with the guest program of MCHypervisorLoop | IntegrationProofs, over HypervisorLoopProofs |
| BinaryRunner | MCBinaryRunner | BinaryRunnerProofs |

**Words.** A machine word is the set of the positions of its 1 bits, so `&`,
`|`, shifts and bit-fields are set operations. Words keep their real width (64
or 32 bits) in every model and every proof; nothing is scaled down.

**PageTableWalk.** `walk_page_tables` and `walk_level` as operators
that return the *set* of outcomes the code may produce. There is more than one
outcome only where the behaviour is undefined: the shift by 64 when T0SZ or
T1SZ is 0, which they are at reset, and the negative shift from level 5 on,
where the walk may fault or never end (`Diverges`). `WalkLevel0` to
`WalkLevel4` are the recursion of `walk_level` unrolled; beyond level 4 is
`WalkBeyond`. The bit-fields of `PageTableDescriptor` add up to 65 bits; the
fields are read where the compiler puts them, one bit above the positions the
comments name, and the sizes are 1GB, 2MB, 2MB and 4KB at levels 0 to 3, as in
the code. `Stub = TRUE` is the code as it stands, with `desc.value = 0`. With
`Stub = FALSE` the read returns what guest memory holds at
`table_base + index * 8`, which is what the comment above the stub prescribes;
nothing else changes. The second form is what makes the TLB worth checking.

**MMUEmulator.** One action per operation; `translate` is four actions for its
four endings: `TranslateHit`, `TranslateMiss`, `TranslateFault`,
`TranslateDiverges` (a call that never returns, after which nothing runs). The
victim of an eviction is any entry, since `erase(begin())` takes the first of a
hash map. `GuestStore` is external: the guest changes a descriptor. The history
variable `seen` remembers, for each page and address space, the contents memory
had since the last invalidation that covers them; no guard of the emulator
reads it. `uxn`, `pxn` and `contiguous` are constant in the code and left out.

**TranslationService** is the abstract specification: translations of the
guest's tables, with no TLB and no counters. It states what an invalidation owes: one
by address covers the page, in every address space if it is a kernel page; one
by ASID covers the low half of that space; a register write covers everything.
Faults are never out of date. For values of TCR it does not support (a T0SZ or
T1SZ of 0 or beyond 52) it promises nothing about successful answers.

**InstructionDecoder.** The ten tests as a sequence of (type, mask, value) in
source order, the first match wins, and the fields of each branch. Everything is
an operator; `MCInstructionDecoder` puts one instruction in a variable.

**RegisterViews.** The bit-fields of each register as pairs of a lowest bit and a
width, where the compiler puts them (the layout is C++'s and nothing is claimed
of it); reading and assigning a field; and
`getBaseAddress` and `setBaseAddress` with the masks of the code.
`getExceptionClass` and `isInstruction32Bit` read the fields EC and IL.

**SystemRegisterEmulator.** `Encoding` maps register names to places (op0, op1,
CRn, CRm, op2) as the two switch tables do; `Written` and `ReadSystemRegister`
are the tables, including the places that have a name and are not stored and the
places that have no name, which are acknowledged and ignored. `gpr` is the
hypervisor's copy of X0 to X30. `HostEdits` is an assignment through the
reference `getState()` returns, the only way to change an identity register;
`HostAssigns` is one to a bit-field, and `SetBaseAddress` the member function.

**RegisterFile** is its abstract specification: a file addressed by place, with
no instructions and no names.

**HypervisorLoop** extends the emulator with the three run loops. `GuestRuns`
and `GuestTraps` are the vCPU at the next instruction of `Program`, `VcpuExits`
is an exit for another reason at any moment, and `LoopHandles` is one turn of
`runLoop`: it looks at the reason, calls `handleSystemRegisterTrap` if the
integration handles it, and enters the vCPU again or returns.
`handleSystemRegisterTrap` is the whole handler: fetch, decode, emulate, move
the PC. The three files differ in `Passes` (the types whose branch
moves the PC), `Handles` (HVF looks at the exception class, the others do not),
`Ends` and `OtherExits`. The fetch is a stub in all three (`instr_bytes = 0`);
`reads` chooses, once per behaviour, between the stub and a fetch that reads the
instruction at the PC.

**Integration** puts the life of the object around the loop. `Initialize(n)` is
a call in which the first `n` calls of the operating system succeed; `Steps` are
these calls in the order of the source, `Assigned` the fields they leave set,
which on KVM includes the -1 of the call that failed. It looks at nothing: on
an object that is ready or has failed it overwrites the handles, and `leaked`
counts those that were open. `RunLoop` enters the loop: on KVM it first maps the
vCPU, and if that fails `ReadsUnmapped` is the read of `run->exit_reason` that
ends the process. `CleanUp` and `Destroy` are
the same releases, since the destructor calls `cleanup`; the fields keep what
they held. `OthersCreate` is external: the rest of the process is given a handle
that was freed, or creates the process's one HVF virtual machine. The host is
trusted with one thing only, that it does not call `runLoop` before
`initialize` has returned true once (`succeeded`), as the three `main` functions
do. After that it may call `initialize`, `runLoop` and `cleanup` in any order:
`runLoop` after `cleanup` included, which runs over handles that name nothing
(`RunFails`, the error of the first call) or, if someone else was given them,
over what is not the object's (`stale`).

**BinaryRunner.** `parse_args` is one action per branch of its loop and one for
what follows the loop; `LoadElf` is `load_elf` with the check of its result in
`main`; `RunBinary` is the rest of `main`. Texts are strings, and what `stoull` and
`stoi` make of a text is given by the constants `Size` and `Count`, which have
no value for a text on which they throw: the exception is caught nowhere and the
program aborts. `-m ""` is one of these: `back()` of the empty string reads the byte
before it, which in this library's strings is no letter, and `stoull("")` throws.
A file is its length, whether it can seek, and which parts of the header have
the right bytes. A part beyond its end compares as right or wrong, whatever the
stack held, and the entry point is then any.

Correspondence to the source, definition by definition, is in PROJECT.json
under `map`. Operators marked "Seeded fault" in the modules are alternatives to
the definition that follows them; no specification uses them. They exist to
show that the properties notice such a change.

## 3. Runs

| Run | Question | Result |
|---|---|---|
| `mmu_pages` | One address space, pages reached through tables of every level, the guest rewriting them: is the TLB coherent, bounded, counted, does an invalidation take the entries it names and no others, and does the emulator implement `TranslationService`? | holds |
| `mmu_spaces` | Two address spaces and a kernel page: do ASIDs keep the low half apart, does each invalidation take the entries it names in either space and no others, and is it still a translation service? | holds |
| `mmu_stub` | The code as it is: can anything be translated? | never |
| `decoder` | All combinations of the bits that tell the patterns apart: live types, order of the tests, fields | holds |
| `sysregs` | Guest moves, hypervisor accesses, bit-field assignments and exceptions in any order: a register file? identity read-only? when is `setBaseAddress` the field BADDR? | holds |
| `vcpu_loop` | The whole life of the three integrations, `initialize`, `runLoop` and `cleanup` in any order, each step failing or not, loops with and without a real fetch, every exit reason: is an exit handled once? does a trap only ever clear a register, and nothing at all with the stub of a fetch? does HVF progress? what does a loop run over? is everything freed that was not lost, is it lost only by a repeated `initialize`, and what of others can be freed? | holds |
| `runner` | Command lines of the options that interact and files that fail to be an ARM64 binary in every way: what reaches the binary, which settings, which exit code, and does it end? | holds |
| `mmu_hits_match` | Does a hit answer only from entries `TLBEntry::matches` accepts? | violated |
| `mmu_region` | Does a hit fill the region the way a walk does? | violated |
| `mmu_ttbr_asid` | Is the ASID in a TTBR cleared before the walk? | violated |
| `decoder_documented` | Do the encodings of docs/ARCHITECTURE.md decode as documented, the immediate of MSR included? | violated |
| `kvm_progress` | Does KVM advance the PC past every trapped access? | violated |

### Bounds, and why they are enough

- *Translations* (`MaxCalls = 2`): translations between two calls of
  `reset_stats`, which may come at any time, so a behaviour holds any number of
  them. The bound limits only the counters, whose relation is linear.
- *Memory contents* (`MaxSeen`): the number of different contents that may
  still be owed an invalidation. With 2 in `mmu_pages` and 3 in
  `mmu_spaces` there is a stale one to answer from beside the current one.
- *`TLB_SIZE = 2`*, against three cacheable pages (`mmu_pages`) or three
  cacheable pairs of page and space (`mmu_spaces`): the TLB fills and evicts. In the code
  it is 1024; `TlbBounded`, `TlbRetention` and `InvalidationReach` are proved for every size.
- *Tables*: the root and one lower table with two slots, which may point to
  itself, so that walks of every depth, blocks at every level, the fault at
  level 4 and the walk past it are reachable. Three descriptors: invalid, table,
  and block.
- *Addresses*: one page that ends at level 3, one inside a larger block, one in
  the kernel half. *TCR*: 0 from reset (undefined shifts) and T0SZ = T1SZ = 16.
- *sysregs*: two general purpose registers, two values, moves to and from
  a writable register, an identity register and an unknown place, one decoded
  move and one word that is none. Every operation addresses
  one place at a time (an exception three), so two values and a few places show
  every interference there is.
- *decoder*: the bits that distinguish two patterns, or that a mask drops,
  vary freely in groups (32,768 instructions); the proofs
  cover all 2^32.
- *vcpu_loop*: a program of seven instructions, one per kind of trap and one
  that runs, entered at any of them and repeated for ever. `MaxAttempts = 2`
  calls of `initialize`, so that the second meets the handles of the first;
  `runLoop` and `cleanup` are called any number of times.
- *sysregs, views*: one assignment with a value that is too wide, to the field
  above BADDR, and base addresses with and without upper and low bits. The
  proofs cover every value and address.
- *runner*: every command line of up to three texts out of fourteen (each kind
  of option, a flag under two names, values, the empty text and an unknown option),
  and up to five of two groups of texts that interact: variables
  and sizes, with options among their values, and roots and counts. Sizes are one
  that fits in 64 bits and one that wraps. The files are cut between each two
  parts of the header that are read, wrong in each part, and not seekable.

### Deadlock

It is checked in the runs of the decoder and of the register emulator. The MMU
emulator really may stop: a walk of tables that point to themselves may never return.
The run loops stop when `runLoop` returns, an integration when it is destroyed, and
the command line runner when `main` returns. Their configurations say
`CHECK_DEADLOCK FALSE` for that reason.

### Fairness

Only the run loops and the command line runner have any.
`WF(LoopHandles)`, or `WF(LoopTurns)` in Integration: the loop is a thread the
operating system schedules, and it does not wait for anything once the vCPU has
exited. `SF(GuestSteps)`, or `SF(GuestTurns)`: a vCPU
entered again and again eventually reaches its next instruction; weak
fairness would not do, because timer and other exits disable it each time. This
is an assumption about the host's timer, which the code cannot enforce: the loop
unmasks the timer and enters the vCPU again (hvf_integration.cpp:121), and a
timer that always fires first would keep the guest where it is. `HVFProgress`
holds under it, and leaves out traps of a class other than 5, which the HVF loop
drops without moving the PC (hvf_integration.cpp:113); `PassesCorrect` states
that it does. The fairness does
not say that the guest makes progress: a trap on the same instruction for ever
satisfies it, and that is the counterexample of `kvm_progress`. The host owes the
integration no call, so nothing says that it is ever initialized or destroyed.
`WF(Next)` of BinaryRunner: the program is one thread and no step of it waits.

## 4. What the code does against what it says

Each is a finding in PROJECT.json; the first six are the counterexamples of
runs.

1. *A kernel page's TLB entry ignores the ASID.* The key ORs the ASID into bits
   48 to 63, which are all ones in a kernel address, and nothing calls
   `TLBEntry::matches`. So the entry one address space filled answers another
   (`mmu_hits_match`). The refinement `TranslationService` treats kernel pages as
   shared between address spaces, under which the rest of the TLB is correct.
2. *A hit leaves `shareable` unset* (`mmu_region`).
3. *The mask of a TTBR keeps the ASID* and moves the table (`mmu_ttbr_asid`).
4. *Six of the documented encodings decode to other types*
   (`decoder_documented`). MSR (register), MRS, DSB, DMB and BRK are never
   decoded at all; that is proved for every word.
5. *The immediate of MSR is always 0* (`decoder_documented`, whose shortest
   trace ends at the word 0xD500001F). docs/ARCHITECTURE.md:169 gives the
   instruction an `imm5` and tests/test_decoder.cpp:22 expects 0x1F of that word;
   the mask 0xFFE0001F asks for the same five bits to be 0, so the word is UNKNOWN
   and every word that is decoded as MSR writes 0 (`MovesWriteZero`).
6. *The KVM handler never passes an unknown instruction* (`kvm_progress`).
7. *The default memory size is 0*, where the comment says "4GB default"
   (tools/acheron.cpp:23): the product is computed in `int`. This one is read from
   the code, as the value of `DefaultConfig`; `MemoryAsAsked` asks only that the
   default is kept, and says nothing for or against its value.

Observed while modelling, without a run of their own:

- The descriptor's bit-fields are 65 bits long, and the table of block sizes is
  one level off the architecture's (1GB at level 0).
- What the decoder and docs/ARCHITECTURE.md call WFI (0xD503205F) is the
  architecture's WFE, and the other way round.
- The immediate of HLT is the low 16 bits of the word, where the architecture
  has bits 20 to 5.
- `setBaseAddress` lets bits 48 to 63 of the address leak into the ASID, and
  `getBaseAddress` returns the ASID with the address. Both clear bits 12 to 15,
  which an address that is "4KB aligned" (ARM64SystemRegisters.hpp:122) may have
  set. `BaseAddressIsField` says exactly when the three agree.
- The reset value of MPIDR_EL1 has bit 31 set, which the struct's bit-fields
  make the top bit of Aff3; U is at bit 39 there. tests/test_emulator.cpp:393
  expects Aff3 = 0 and U = 1 of it.
- Of 0x00C50838 tests/test_emulator.cpp:357 expects nTWE = 1 and nTWI = 1;
  bits 17 and 19 of it are 0.
- tests/test_emulator.cpp names a test `Reset ClearsAllRegisters`, in two words,
  which does not compile.
- The comment of `handleExceptionEntry` says that it "advances PC to exception
  vector" (ARM64SystemRegisters.hpp:386); the code records ELR, ESR and FAR and
  moves nothing.
- TTBR and TCR exist in both emulators, and nothing connects the two copies.
- A size given with `-m` is taken modulo 2^64: 17179869185G is 1GB.
- An option that takes a value and comes last is dropped without a word, as is an
  unknown one; and the text after an option is its value even if it begins with
  `-`.
- A file shorter than its header is accepted or refused by what was on the stack,
  and if it is accepted its size is taken to be 2^64 - 1.
- `--show-registers` prints all registers but the first in decimal after `0x`.
- `cleanup` leaves the handles in the fields, and the destructor calls it again. On
  KVM a file descriptor may then be closed that someone else was given. On HVF
  the virtual machine of the process is destroyed even if `initialize` could not
  create it. `OnlyOwnReleased` does not forbid these two cases, since the code has
  them: it says that there is no third.
- `runLoop` after `cleanup` uses the handles that were freed. If they name
  nothing, its first call fails and the loop ends (`NothingRunsWithoutVcpu`); if
  someone else was given them, it runs what is theirs (`LoopHasVcpu`).
- `initialize` called again, after a failure or a success, overwrites handles
  that are still open, and nothing can free them: `ReleasedAtEnd` does not count
  these, and `LostOnlyByRetry` says that there is no other way to lose one. The
  mapping of KVM's `runLoop` is neither checked
  nor unmapped; WHP ignores the result of setting the processor count
  (whp_integration.cpp:47).

## 5. Proofs

All theorems hold for every value of the constants under the named assumptions
of the modules: the constants are words of the right width, the TLB has at
least one place, the guest program has at least two instructions, the
instructions of the emulator have their types, options begin with a dash. TLC evaluates every assumption
in the runs.

**MMU emulator** (`MMUEmulatorProofs`, `MMUCoherenceProofs`,
`MMURefinementProofs`).

- `TypeCorrect`: `Spec => []TypeOK`. Most of the work is in lemmas that
  say that a walk returns regions of 64-bit words.
- `StatsCorrect`, `CapacityCorrect`, `RetentionCorrect`, `StubIsInert`: the
  counters, the capacity and the eviction for every `TLB_SIZE`, and the stub.
- `TlbCorrect` and `TagsCorrect`: `TlbCoherent` is not inductive as it stands,
  because it says nothing of the entries it cannot name by an address and nothing of
  `memory` itself. The invariant `Coherence` adds `EntriesValid` (every entry is
  valid), `MemorySeen` (the current memory is among the contents `seen`
  remembers, so a fresh walk is justified) and `AsidTagged` (so that
  an invalidation by ASID reaches the entries of that space). The key is
  injective on canonical low-half addresses with ordinary ASIDs (`KeyInjective`), and
  that is where `WellFormedInputs` is needed: without it a non-canonical address,
  or ASID 0xFFFF, shares a key with another. The other half of the argument is
  `SamePageSameWalk`: two addresses of one page are translated by the same walk,
  because every index and both limits of the ranges are decided above bit 12;
  that is what `Configured` asks of T0SZ and T1SZ.
- `TranslateTotal`: a call of translate always has one of its four endings. A
  walk has an outcome whatever the tables hold (`WalkEnds`, level by level), and
  a full TLB has a victim.
- `OffsetCorrect`: the physical address keeps the offset of the virtual one and
  the base of the region reported with it. The invariant is that the base of
  every entry is aligned to its size (`EntriesAligned`), as is what a walk
  finds; then base and offset share no bit.
- `ReachCorrect`: `InvalidationReach`, from `EntriesValid`, `AsidTagged` and
  `KeyInjective`. It also makes precise what an invalidation by address leaves: the
  other pages of the same 2MB or 1GB block.
- `TransparentCorrect`: where `seen` holds the current memory only, so that the
  guest owes no invalidation for the page, a hit answers as the walk would. It needs
  more than coherence, since a walk may have several outcomes: under
  `Configured` it has one (`WalkDecided`).
- Three findings have their exact extent proved. `HitsMatchCorrect`: every hit
  on a low-half page satisfies `TLBEntry::matches`, and a kernel page lacks the
  ASID only. `RegionCorrect`: the reported region is a walk's but for
  `shareable`. `UntaggedTableFixed`: the table does not move if no TTBR is
  written with an ASID.
- `Refinement`: `WellFormedInputs => (Spec => ImplementsService)`. Each action
  is mapped to a step of the service: a hit and a miss to `Translate`, the
  invalidations and register writes to theirs, `ResetStats` and a call that
  never returns to `Silent`.

**Decoder** (`InstructionDecoderProofs`): for all 32-bit words, `DeadTypes`,
`LiveTestsAnyOrder`, `MovesWriteZero` and `FieldsLoseNothing`. From them
follow the invariants of the run `decoder` as theorems of its
specification: `LiveTypesCorrect`, `DisjointCorrect` and `RebuildCorrect`. The
argument for a dead type is a bit that the test's value has and its mask has not, or an
earlier test that accepts every word the later one does.

**System register emulator** (`SystemRegisterEmulatorProofs`): `TypeCorrect`,
`IdentityCorrect` and `Implements`, the refinement of `RegisterFile`. It rests
on the places of two different registers being different, a lemma checked
register by register, by which a write to a place changes one register.
`BaseAddressCorrect` is about the views: the two equivalences of
`BaseAddressIsField` are proved bit by bit, those below 16, those of the ASID and
those between.

**Run loops** (`HypervisorLoopProofs`): `LoopTypeCorrect`,
`EmulatedOnceCorrect` and `TrapsOnlyClearCorrect`, for every guest program and
either kind of fetch. `EmulatedOnceCorrect` says that a register or the PC
changes only for an exception just reported, so not for the exit before an
interrupted call, and that what changes a register moves the PC. It and
`TrapsOnlyClearCorrect` rest on `DeadTypes` and `MovesWriteZero`: the
WHP handler does not move the PC after MRS, and what makes it
harmless is that no word decodes to MRS. `PassesCorrect` says for each
integration which trapped instructions move the PC, from the list of live types:
HVF passes every register access, KVM four types, WHP one. With the stub of the
fetch (`instr_bytes = 0`, which decodes to nothing, `ZeroUnknown`)
`StubEmulatesNothingCorrect` and `StuckForEver` follow: no register changes, and a
guest of KVM or WHP that reaches a trapping instruction stays there. That is the
counterexample of `kvm_progress` for every program and as an invariant, without
fairness.

**Integrations** (`IntegrationProofs`): `EmulatedOnceWithin` and
`TrapsOnlyClearWithin` carry the theorems of the loop over to the whole life of
the object, since every step is one of the loop, or one that starts, ends or
ignores it; so do `StubEmulatesNothingWithin` and `StuckForEverWithin`, by which
no second `runLoop`, `cleanup` or `initialize` helps the guest. `LifeTypeCorrect`,
`LoopHasVcpuCorrect`, `NothingRunsCorrect`, `ReleasedCorrect`,
`LostOnlyByRetryCorrect` and `OnlyOwnCorrect` are about the handles. Their
invariant `LifeInv` has two parts. `HandlesInv`: every handle held is in a field
or is HVF's VM (so that cleanup reaches it), a ready object has all of its
handles, a new one and one that is cleaned up have none, the fields name nothing
else until a cleanup, and what the rest of the process owns under the object's
handles is named by a field or is HVF's VM and is not held. `RunInv`: while the loop
runs over a handle that names nothing, the only exit that can be pending is the
error of the call; this is what keeps `ReadsUnmapped` and the trap handler out of
such a loop, since neither looks at the handle.

**Command line runner** (`BinaryRunnerProofs`): `TypeCorrect`,
`ArgumentsCorrect`, `SettingsCorrect` and `MemoryCorrect`, for command lines of
any length. The properties speak of a finished parse; the invariant `ParseInv` says
the same of the part read so far: there is a set of positions, those of the
values, by which the settings are what the arguments up to here ask for. An
argument extends the set or not (`OneMore`, `TwoMore`), and each setting
follows (`EnvMore`, `RootfsMore`, `CpusMore`, `MemoryMore`). `ExitCodeCorrect` and
`HeaderCorrect` rest on `HeaderInv`, which adds that nothing is valid before the
file is read and that only a valid file is run. `StepsAreFinite` is the safety
core of `Terminates`: every step lowers `Rank`, a natural number that is 0 only at
the end, so a behaviour of any command line has finitely many steps; and
`NoArgumentIsStuck` says that every text is taken by some branch of the loop.

Only model-checked: the liveness properties `HVFProgress`, `KVMProgress` and
`Terminates`, because the prover reasons neither about fairness nor about ENABLED
(their safety parts are `PassesCorrect`, `StuckForEver` and `StepsAreFinite`); and
the reading of the documented encodings, `DecodesAsDocumented`, which is a list of
single words and is false. `HitsMatch` and `RegionComplete` are false too; what is
left of them is proved. Nothing here needs induction over data: the walk is unrolled
to its five levels, and command lines are argued about step by step.

## 6. Not modelled

- *What the runner prints*, `base_address` of `ELFInfo`, which nothing sets, and
  the two emulators `main` constructs and does not use.
- *Calls of the operating system beyond success and failure*: guest memory is
  never set up by the integrations, and the property WHP sets has no effect on
  anything here.
- *Basic usage example*: a straight-line program over the decoder and the
  emulator; its instructions are inputs of the run `sysregs`.
- *Handlers of exceptions*: no guest code is in the repository, so what a guest does
  between an entry and a return is any sequence of accesses, as in `sysregs`.
- `is_mmu_enabled`, `get_ttbr0_mask`, `get_ttbr1_mask`, `extractSysRegFields`:
  they change nothing, and nothing calls them.
- *A connection between the two emulators*: there is none in the code.

## 7. Plan

In the order of importance for the system:

1. MMU emulator, its walk, its abstract service, coherence and refinement. Done.
2. Decoder, system register emulator, register file. Done.
3. Run loops of the integrations. Done.
4. `RegisterViews`, with the assignment of bit-fields and `setBaseAddress` as
   actions of the emulator, and theorems about every 64-bit word. Done.
5. `BinaryRunner`: option parsing with widths and the validation of the ELF
   header, with a short read as an outcome. Done.
6. `Integration`: set-up and tear-down, with every failure of `initialize`. Done.
7. Further proofs: the endings, alignment and transparency of translations, the
   reach of an invalidation, the extent of the findings, what passes a trap, and the
   measure of the runner. Done.
8. When the code gets an execution engine (tools/acheron.cpp:234), the
   composition of `BinaryRunner` with the emulators and an integration; and when
   the descriptor read is no longer a stub, a re-reading of `PageTableWalk`.
