# libstratum in TLA+

libstratum opens native binaries (ELF, Mach-O, PE) together with their debug info (DWARF, PDB) and answers questions
about them: how a type is laid out, which symbols there are and how large they are, how every byte of the image is
spent. This directory holds TLA+ modules that follow its code, TLC configurations that model-check them on small
instances, and TLAPS proofs of what must hold on every instance.

Source paths are relative to `src/crates/`; `core` is `libstratum-core/src`.

## 1. Inventory

| Component | State it keeps | Operations | Talks to |
|---|---|---|---|
| Engine (`core/engine.rs` 89-245) | the registered plugins | `open`: probe, open, locate debug info, check identities | container plugins, debug backends, host locator |
| Session (`core/engine.rs` 247-443) | image, readers, diagnostics; a symbol table built by the first query that needs it (`OnceLock`) | `struct_layout`, `symbols`, `by_symbol`, `summary`, `berkeley_sizes`, `info` | readers, symbol lens, summary lens, layout lens |
| Summary lens (`core/summary.rs`) | none between calls; four sweeps with cursors | `build` (universe, sections, symbols, gaps; rows by dimension), `berkeley` | image, symbol table |
| Symbol lens (`core/symbols.rs`) | none between calls; sizes and their evidence in stages | `build`, `matches` | image, readers, demanglers, languages |
| Layout lens (`core/layout.rs`) | none | `compute`, `cacheline_view`, `suggest_reorder` | readers' raw layouts |
| IR and SPI (`core/ir.rs`, `core/spi/`, `core/host.rs`, `core/error.rs`, `libstratum-model`) | types | `DebugLocation::is_fallback`, `DebugOpenContext::{locate, open_image}`, conformance checks | |
| Cancellation (`core/cancel.rs`) | one flag | `cancel`, `is_cancelled` | nothing: no query takes a token yet |
| File locator (`libstratum/src/locator.rs`) | search directories, path remaps, symbol stores | `locate` by kind of location; archive members; debuglink CRC | file system |
| Sources (`libstratum/src/source.rs`) | bytes or a mapping | `bytes` | file system |
| DWARF backend (`libstratum-debug-dwarf`) | sections, units; a type index built by the first type query (`OnceLock`, errors included) | `open`, `find_types`, `functions`, `variables` | engine context, gimli |
| PDB backend (`libstratum-debug-pdb`) | bytes; the parser is made anew per query | `open`, `symbols`, `variables`, `find_types` | pdb2 |
| Container plugins (`libstratum-format-{elf,macho,pe}`) | parsed image | `probe`, `open`, `section_data` | object |
| Languages, demanglers, arch (`libstratum-lang-cpp`, `-demangle`, `-arch`) | none | name normalisation, demangling, fact tables | |

What is hard about it:

* **Opening** is a chain of plugin calls each of which can fail or panic, with a rule (fallbacks only in place of
  primaries), an identity check, and a promise that everything consulted is accounted for in diagnostics.
* **Attribution** gives each byte of three address spaces to one owner. Headers are untrusted: ranges overlap, nest,
  coincide, saturate at `u64::MAX`, lack a mapping or a file range.
* **Sizes** come from four sources with a precedence; the last one is a guess that must not hurt the others.
* **Sessions are shared between threads.** The symbol table and each type index are built once, by whoever comes first,
  while the others wait; the builder may panic; an index error is kept for good.
* **Companion files** are chosen before their identity can be known, so a stale file can hide the right one.

What makes each component correct:

* **Engine**: readers of this binary only; primaries or fallbacks, never both; a diagnostic for everything consulted in
  vain; an answer even after a panic; the first format that recognises the input.
* **Session**: one build per cell, kept for good; answers that do not depend on other threads; every query returns.
* **Summary lens**: each byte of the universe in exactly one span; bytes of several claimants go to the first and
  outermost; overlaps are named; rows of every choice of dimensions add up.
* **Symbol lens**: better evidence is never replaced; a guess ends before the next symbol and the section; aliases fall
  into groups.
* **Layout lens**: holes and padding are what no member occupies; shared storage is noted; a proposed order is the best one.
* **Locator**: it never prefers a file that cannot be the right one to one that can.
* **Backends**: types and variables are read back as the compiler laid them out, and code and data as the linker placed
  them, through every way in which one record can refer to another.
* **Containers**: sections, their bytes and symbols are read back as the linker wrote them; what is handed to the
  engine keeps the conformance rules of the SPI; headers may say anything.
* **Languages**: names that mean the same normalize alike, and no others.

## 2. Modules

| Module | Models | Uses |
|---|---|---|
| `DebugLocations` | kinds of debug locations, fallbacks, backends, what an image is | |
| `OpenContract` | what `Engine::open` promises, in one step | `DebugLocations` |
| `EngineOpen` | `Engine::open`, plugin call by plugin call, with failures and panics | `DebugLocations`; implements `OpenContract` |
| `ByteAttribution` | `total_and_spans` and the rows of `build` in `summary.rs` | |
| `SymbolSizes` | the stages of `symbols.rs` as operators | |
| `SymbolTable` | the symbol lens, stage by stage | `SymbolSizes` |
| `Summary` | `Session::summary`: the table is built, handed over, and the bytes are attributed | instance of `SymbolTable`, `ByteAttribution` |
| `TypeNames` | `normalize` of the C and C++ language support, and what a name means, to compare it with | |
| `Session` | queries of many threads on one session | `TypeNames` |
| `FsLocator` | `FsLocator::locate` for every kind of location, among other processes that change files | |
| `DwarfIndex` | `build_index` and `resolve_once` of the DWARF backend, entry by entry | |
| `DwarfReader` | types, functions and variables of the DWARF backend over that index | `DwarfIndex` |
| `DwarfWritten` | units as a compiler writes them, entry by entry: what the theorems about reading back suppose | `DwarfReader` |
| `PdbSymbols` | the join of publics and procedures in the PDB backend, record by record | |
| `PdbReader` | open, types, variables, units and symbols of the PDB backend | `PdbSymbols` |
| `PdbWritten` | type records as a compiler writes them, record by record | `PdbReader` |
| `LayoutLens` | `compute`, `cacheline_view` and `suggest_reorder` in `layout.rs` | |
| `Extents` | ranges and extents, what the three containers have in common | |
| `ElfFormat`, `PeFormat`, `MachOFormat` | one container plugin each: from header fields to segments, sections, symbols, debug locations and section bytes | `Extents` |
| `Containers` | probing, opening and reading files of the three formats, and the rules of `spi/conformance.rs` | the three formats |
| `MC...` | instances for TLC | the module they are named for |
| `EngineOpenProofs`, `SessionProofs`, `SummaryProofs`, `LayoutLensProofs`, `FsLocatorProofs`, `DwarfReaderProofs` | theorems | the module they are named for; `DwarfReaderProofs` also `DwarfWritten` |
| `ImageProofs` | theorems about what is read of an image file and of its PDB | `Containers`, `PdbWritten` |
| `Sums` | lemmas about sums over finite sets and about values found step by step, for the proofs above | |

Where one module feeds another, the hand-over is either composed (`Summary` over `SymbolTable` and `ByteAttribution`,
`DwarfReader` over `DwarfIndex`, `PdbReader` over `PdbSymbols`, `Session` over `TypeNames`) or a free choice on the
receiving side that covers what the sender can do: a companion in `EngineOpen` may be any file that `FsLocator` can return,
an image in `Summary` may have any numbers that `Containers` can answer (its `TypeOK`), and what a reader of a `Session`
holds is any set of types.

Definitions named `Faulty...` are slips a programmer could make in the definition that follows them. No behaviour uses
them: each is there to show that some property below notices the slip.

### Opening (`EngineOpen`)

| Model | Code |
|---|---|
| `pc` | the statement of `open_inner`/`open_locations` that runs; one step per plugin call |
| `registered`, `recognised`, `image` | chosen in `Init`: Cargo features, answers of `probe`, what `open` of the format returns |
| `stage`, `todo`, `at` | the two calls of `open_locations` (primary, fallback) and their loop |
| `companion` | the identity in the file that the locator found; any of `Identities`, or none |
| `readers`, `diagnostics`, `result` | the vectors and the value returned |
| `PluginPanics` | `catch_unwind` around `open_inner`; possible wherever a plugin runs |

Steps within `open_locations` follow the loop: skip locations without a backend (`TakeLocation`), find and open a companion
(`LocateCompanion`, `OpenCompanion`, through `DebugOpenContext`), read its identity (`ReaderIdentity`) or the embedded
debug info (`LoadDebugInfo`), compare identities, and record a failure (`RecordFailure`). Locations are numbered by their
position in the image's list, and readers and diagnostics carry that number, so that "every location" can be said.

`OpenContract` is the same promise without the loop: an error, or a set of locations that work and a session that follows
from it. `EngineOpen` implements it under the mapping written beside `KeepsContract`.

### Attribution (`ByteAttribution`)

The code sorts a vector and walks it with a cursor, four times. The model keeps the walk and replaces the sorted vector by
the set of what is left (`pending`) and a step that takes its least element under the order the code sorts by; where the
code's order leaves ties, they are between equal elements. `phase` is the loop that runs; `todo`/`current`/`cursor` are
the outer loop, its element and the cursor within it; `universe`, `owned` and `spans` are the three results. `claimedEnd`
and `claimedBy` are the claim sweep's `end` and `owner`.

The three address spaces run the same code over different extents, so `space` is chosen in `Init`. Addresses stop at
`MaxAddress`, which stands for `u64::MAX`: `Saturate` is the code's `saturating_add`. Names are numbers or short labels;
a symbol's demangled names are in one order with its raw names.

### Sessions (`Session`)

`OnceLock::get_or_init` is two steps (claim the cell, fill it) and a third that leaves it empty after a panic. A thread's
`struct_layout` is interleaved with the others between readers and between passes; `raws` and `failures` are the
call's local vectors. What a reader holds is fixed by `debug`: a session owns its bytes. Names are sequences of words
and marks as the compiler or the caller wrote them; `Normal` is what the queries compare, `Denotes` what was meant.
An engine without languages only removes white space, which is left out. All queries over the symbol
table (`symbols`, `by_symbol`, `summary`) do the same to shared state and differ in who catches a panic.

### Symbol sizes (`SymbolSizes`, `SymbolTable`, `Summary`)

Each stage of `symbols::build` maps a set of entries to the next one, and `SymbolTable` takes them one after the other.
`Summary` is `Session::summary`: an instance of `SymbolTable` runs to its end (`BuildTable`), `HandOver` gives the rows to
the attribution, where a symbol keeps its section's name and loses its number, and `Attribute` is a step of
`ByteAttribution`. An image is chosen in `Init`, with what its debug readers will say, errors included. So every property of
the attribution is checked, and proved, of symbols that the symbol lens has sized.

### Layouts (`LayoutLens`)

The two loops of the lens are phases: the walk over the members by offset (`cursor`, `holes`, then `tail`) and the
layout of the members in the proposed order (`offset`, `order`, then `suggestion`). `pending` holds what the loop has not
taken; the step takes its least element under the code's sort key, earlier entries first where the sort is stable. What
is computed in one expression (`SharingStorage`, `Straddling`, `Packed`, `Alignment`, `Preconditions`) is an operator on
the raw layout. Offsets and sizes are bits below `MaxBits`, which stands for `u64::MAX`; the additions that saturate in
the code do so in the model, and the one in `cacheline_view` that does not wraps around, as in a release build. The
sum of member sizes in bytes is not cut off: it takes more than eight members of the largest size to leave `u64`.

### Companion files (`FsLocator`)

`PathsTried` is the list of candidates that `locate` builds for a request; a path is a directory and a way to name the file
in it (as recorded, by its name, in a bundle, ...), so that the order of candidates is kept and the rewriting of strings
is not. `Look` is `is_file`, `Read` and `ReadFails` are `FileSource::read`, `CheckCrc` the comparison that only a debuglink
has, `FindMember` is `archive_member`. Between any two of them `FileChanges` may write, replace or remove a candidate.
What distinguishes files is one mark: the CRC for a debuglink, the identity otherwise. In `EngineOpen` the outcome is
`LocateCompanion`: found, not found or an error, and a companion whose identity may be anything, which is right because
only a debuglink's mark is looked at here (`LinkVouched`).

### DWARF entries (`DwarfIndex`, `DwarfReader`)

A unit is its entries in the order of `next_dfs`, each with its depth; an entry is a unit and a position, which is the
code's `(usize, UnitOffset)`. `unit`, `at` and `scopes` are the loops of `build_index` and its stack; `Pop` is its inner
`while`, `Visit` the rest of the body; `definitions`, `declarations` and `phase` are the `type_index` cell. A qualified
name is the sequence of its parts. `debug` is what `load` keeps, and which entries gimli cannot parse (`broken`).

The other methods read entries and change nothing, so they are operators, and a query (`FindTypes`, `FindFunctions`,
`FindVariables`) is a step; the steps of several queries at once are in `Session`. `find_types` is asked for all names.
`TypeSize`, `TypeAlign`, `TypeIsEmpty` and `HasVirtualBases` recurse to `MaxDepth` in the code; the depth that is left is the
argument of a recursive function over all entries (`SizeWithin`, `AlignWithin`, `EmptyWithin`, `VirtualBasesWithin`), which
can be proved about. Two encodings of a member's location, a constant and `DW_OP_plus_uconst`, are one number here, and a location of another form is not in the
instances.

The properties of `DwarfReader` compare answers with `debug.truth`: what the compiler that wrote the entries knew. The
instances are made by one (`Compiled` in `MCDwarfReader`): it lays types out and writes their entries, and never
computes anything from entries, so that reader and writer can disagree. `DwarfWritten` says which units count as a
compiler's, entry by entry and for any number of them: beside an entry stands what the compiler knows of the type (`fact`), beside a reference
which entry it means, and `Written` relates both to what the entry says. No operator of the reader reads either. `MCSpec` asserts
`Written` of every initial state of the run, so that the hypothesis of the theorems in section 5 has many programs that
fulfil it.

### PDB records (`PdbSymbols`, `PdbReader`)

`PdbSymbols` is `symbols()`: module streams and the global stream are read record by record (`ReadModule`, `ReadGlobal`),
`procedures` is the map from a place to the first procedure there, `covered` the places that a public has, and
`NameStatics` adds the rest. A place is a section and an offset; `rva` is the library's address map, which may have no
answer. `PdbReader` adds open with its identity, and functions for the recursive methods of `TypeContext`, of the depth that is left as in
`DwarfReader` (`FieldsWithin`, `SizeWithin`, `AlignWithin`, `EmptyWithin`). Nothing is
kept between queries, so that a query is one step except for `symbols`. A layout is the set of its entries, each with its
place among the fields (`at`). Answers are compared with `truth`, a compiler in the MC module lays out types and writes their
records, and `PdbWritten` says, as `DwarfWritten` does, which records count as a compiler's.

### Containers (`Extents`, `ElfFormat`, `PeFormat`, `MachOFormat`, `Containers`)

Each format is a set of operators from header fields to the answers of `Image`; `Containers` runs them behind the
interface: a format claims the file by its first bytes (`Probe`, of the three formats' `ElfProbe`, `PeProbe` and `MachOProbe`), opens it (`OpenElf`, `OpenPe`, `OpenMachO`), refuses it or does not know it, and
returns the bytes of any section (`ReadSection`). What the `object` crate checks before it hands over a field is
external (`parses`), and so is where a PE file's signature lies (`signature`: where the header says, within what a probe is
given). Which of several formats that claim a file is asked first is left open. `file.is` says what a file is, and no reader
looks at it. Sums that are checked, that saturate and that wrap are kept apart. `file.linked` is what a linker
wrote; linkers in `MCContainers` lay out a program in each format, the readers do not look at it, and the properties
compare. `Conforms` is `check_image` of the SPI. What the properties take for granted of linkers is in three operators of
each format: header fields hold what they can hold (`...Numbers`, of damaged files too), sections lie in the segments
(`...Conventions`), and what is stored is in the file (`...Whole`). TLC evaluates them for every file of the run.

## 3. Runs

| Run | Distinct states | Shows |
|---|---|---|
| `engine_open` | 20,086 | safety of open, that it returns, that it implements the contract |
| `session` | 155,734 | one builder, idempotent answers, cells that stick, types found by what their names mean, no thread waits for ever |
| `summary` | 169,412 | symbol lens and attribution together: precedence of evidence, limits of a guess, each byte once, rightful owners, named overlaps, sums |
| `fs_locator` | 104,366 | files that change during a call; no usable candidate is passed over; errors have causes |
| `layout_lens` | 21,004 | padding, shared storage, cache lines, the best order |
| `dwarf_reader` | 84,805 | names of nested types, layouts, bit-fields, alignments and variables as the compiler wrote them, functions as the linker left them |
| `pdb_reader` | 150,524 | publics and procedures joined without loss; layouts and variables as the compiler wrote them |
| `containers` | 45,660 | files opened by their own format only, programs read back from ELF, PE and Mach-O files, conformance, any headers |
| `tls_templates`, `session_panics`, `heuristic_totals`, `layout_flattened_union` | | statements of docs and comments that the code does not keep (section 6) |

Bounds, and why they are enough to meet the interesting cases:

* `engine_open`: all subsets of backends, all answers of three probes, lists of up to three locations in the order the
  ELF, Mach-O and PE plugins build them, with two identities and none. Two primaries that can fail differently,
  followed by two fallbacks, is the longest chain that the rules of open distinguish; identities are only compared.
* `summary`: `MaxAddress` 12 and each of the three spaces. Two or three sections that nest, overlap, coincide or touch, with
  and without TLS templates; up to three symbols of nine that nest, overlap, alias or leave their section; sections of one
  name; a section that lost its first bytes, with symbols that start before what is left of it; a Mach-O header gap, named
  empty segments and ranges that saturate. For the sizes: up to three symbols of a pool of fifteen (aliases, folds, labels,
  merged literals, no section, the number of a section there is none of), stripped or not, with four kinds of debug info. Four symbols of which one is guessed, one
  follows and one overlaps is what the rules distinguish; the safety properties are proved for any
  number.
* `session`: three threads with one query each (a builder that panics, one that takes over, one that waits), seven
  sessions with no, one and two readers, of which one fails, holds a corrupt definition or only a declaration, with names as
  Clang, GCC and MSVC spell them, and one that holds every spelling of every type that key words name. A fourth
  thread can only repeat one of these parts; the safety properties are proved for any number (section 5).
* `fs_locator`: twelve requests of every kind with up to four candidates, two locators (roots, a symbol store and a prefix
  map; a search directory), every placement of five files (this build, another, unreadable, archives with and without the
  member) or none on the candidates, and one candidate that changes as often as it likes. Candidates are tried one by one
  and differ in nothing but their files, so that four show what any number does.
* `layout_lens`: 3,448 types. All structs of up to four plain members of five types in their natural layout, some with a
  larger alignment or a flexible array at the end, so that every greedy order meets every other order; and all lists of up
  to three entries from a pool of fourteen in which members overlap, nest, saturate, lack an alignment or an offset.
* `dwarf_reader`: 136 programs of four or five types (scalars, pointers, qualified types, arrays of one and
  three dimensions, empty and static members, three encodings of bit-fields, virtual bases at distances one to three), each
  written in four ways: in one unit, across two, with a type unit for every aggregate and stubs elsewhere, and with
  signatures at the point of use; bit-fields in both byte orders. All shapes of three nested entries of six kinds, with
  and without another unit that defines the same name. Type units within nameless stubs, units with an entry
  that cannot be parsed, references that lead nowhere or in circles, functions with all pairs of six ranges, and two units of functions in up to two
  pieces, each of which the linker kept, or discarded with 0, −1 or −2 for its start, or with ends that enclose
  nothing, such as 1 for both. Every rule of
  the reader is about one entry and what it refers to, so chains of length three meet all combinations. `MaxDepth` is 6,
  longer than the longest chain of the programs and short enough to be reached by the circles; `Word` is 4096.
* `pdb_reader`: 188 programs of four to six types (scalars, pointers, qualified types, enumerations, arrays, empty, static
  and bit-field members, vtable pointers, bases and virtual bases, direct and indirect, at two distances), each written with and without forward
  references and with field lists in one piece and in two; type records that are missing, damaged or refer to
  themselves; and a module of up to two records, one of up to one and a global stream of up to two, in every
  combination of records that share a place, have places of their own or none in the image, with streams that are missing or
  break off. `MaxDepth` is 8, longer than any chain of the programs (32 in the code), `MaxLists` 3 (a list has two pieces; the
  code follows some 1024), `MaxAddress` 4095 stands for `u64::MAX`.
* `containers`: programs of six parts each of which may be missing, linked to ELF for a hosted machine and for a
  microcontroller (Thumb bits, data stored behind the code), to PE with two alignments, and to Mach-O, thin, universal and as a dSYM companion; and
  headers of every format whose offsets, sizes and addresses are 0, small, and next to `MaxAddress` 63, so that
  each sum of two overflows in some file. Beginnings of files: each magic number in each width and byte order, class files of
  four versions, from the first one that is no count of slices, programs for DOS, universal binaries of none to 44 slices, and files
  that end within the first four bytes or before the count. `MaxRatio` and `RatioSlack` stand for the limit on decompressed sections.

Deadlock is checked in every run: each module has one step for having finished.

**Fairness.** `EngineOpen` assumes that the one thread that runs open goes on (`WF` of `Progress`): plugin calls return or
panic, but no panic is needed for progress. `FsLocator` assumes the same of the calling thread (`WF` of `Step`) and nothing of
other processes. `Session` assumes that the scheduler runs every thread that can go on
(`WF` of `Proceeds(t)` for each `t`); a thread may never ask anything, may panic at any time, and need not panic. That is
what operating-system threads and `OnceLock`'s queue give. Strong fairness is not needed because a waiting thread is enabled
from the moment the cell is released or filled, and a cell that another waiter claims first is soon filled, which then
holds for good, or released by a panic that uses up one of the other thread's queries.

## 4. Properties

Each property is explained above its definition. The ones to know:

* `NoForeignReader`, `EveryLocationAccounted`, `FallbackOnlyAfterFailures`, `OpenReturns`, `KeepsContract` (open);
* `EveryByteOnce`, `FirstClaimOwns`, `OutermostSymbolOwns`, `OverlapsNamed`, `RowsAddUp` (attribution);
* `SizesStick`, `HeuristicStaysPut`, `GuessesCutNoOne` (sizes, and what the attribution makes of a guess);
* `OneBuilder`, `CellsStick`, `AnswersIdempotent`, `EveryQueryReturns` (sessions);
* `FindsWhatIsMeant` (names of types, from their spelling to the answer);
* `LinkVouched`, `NothingUsablePassedOver`, `ErrorsHaveACause`, `LocateReturns` (companion files);
* `ScopesAreAncestors`, `EveryTypeNamed` (names of types in DWARF);
* `EveryCodeNamed` (publics and procedures in PDB);
* `LayoutsReadBack`, `VariablesReadBack` (what DWARF and PDB say of types, read back), `FunctionsReadBack` (code, in DWARF);
* `OpenedByItsFormat`, `LoadedFromFile`, `ProgramReadsBack`, `Conforms` (containers);
* `HolesAreGaps`, `AddsUp`, `ReorderMinimal`, `StraddlesWhereSplit` (layouts).

Two of them have exceptions that the code makes necessary. `GuessesCutNoOne` speaks of symbols that start within the bytes
that are left of their section: of two symbols that start before them the one that reaches further wins, even if its size
is a guess. `LayoutsReadBack` asks less of an alignment where a virtual base is aligned for more than a pointer
(section 6). Type invariants that a theorem covers are not checked by a run as well (open, sessions, companion files,
attribution, DWARF); nor is `NoPaddingInserted`, the step between the layout lens's order and `ReorderMinimal`.

## 5. Proofs

TLAPS proves the following for every value of the constants that meets the named assumptions.

**`EngineOpenProofs`** (from `IdentityAssumption` and `OpenAssumption`: formats are a sequence, images list
locations of known kinds). All safety properties of `engine_open`, and `KeepsContract`; also `NoReaderIsExplained`, which the contract implies,
and `FirstFormatWins`. The inductive invariant has three
parts beside types: `Ledger` (each location taken so far is a reader, a failure, the location at hand, or one that no
backend reads), `FallbackStage` (in the fallback stage there is no primary reader and each readable primary has a
failure), and `ProbeInv` (the formats probed before the present one did not recognise the input). None of the properties
is inductive alone: that fallbacks come only after failures is lost at the switch of stages unless the ledger says that
nothing was skipped.

**`SessionProofs`** (from `SessionAssumption`). `TypeOK`, `OneBuilder`, `CellsStick` and `AnswersIdempotent`, for any
number of threads, readers, types and queries. `OneBuilder` is inductive with types. `AnswersIdempotent` needs what a thread
has collected half-way: `PlaceInv` and `Collected` say that at reader `r` of pass `p` the matches and failures are those
of the readers before `r` and, in the second pass, that the first one found nothing; and `CellInv` that a filled index
is what the bytes say. The spelling of names plays no part in these four. `FindsWhatIsMeant` is where it does. The theorem
takes `SpellingsAgree` for a hypothesis, its first conjunct: of the names that occur, those that denote the same normalize
alike, whole or behind a scope, and no others. This is a fact about a table of words, which TLC checks for all names of
the run; what is proved is the rest, for any names with it: that the two passes over the readers, their declarations and
definitions, other threads and failed readers in between, come to just the types that are meant.

**`SummaryProofs`** (of `ByteAttribution` from `InputAssumption`: numbers are at most `MaxAddress`, in any combination).
`TypeOK`, `FirstClaimOwns`, `EveryByteOnce`, `OutermostSymbolOwns`, `OverlapsNamed` and `RowsAddUp`, for any number of sections,
segments and symbols. The argument follows the sweeps:

* `MergeInv`: merged spans are apart, hold the ranges taken so far and no other byte, and start before those to come.
* `ClaimInv`: owned spans are separate, each the end of its section's extent, up to `claimedEnd`, and hold every byte of
  the extents taken. It needs the sort order (`InOrder`): an extent to come starts behind all that were taken, so
  what of it lies before `claimedEnd` is owned already.
* `GapInv`: within the current span of the universe every section met lies behind the cursor, and sections that touch it
  lie inside it (`OwnedInUniverse`), so the cursor never leaves it.
* `SpanInv`: the spans tile (`Tiles`) exactly the bytes that the sweeps have passed (`Bytes`): one lemma for each step,
  over `TilesMore`, `TilesNonEmpty` and `GapSpansTile` (the windows between neighbouring cuts tile a gap).
* `SweepInv`: of the sweep over the symbols of a section, the symbols met end before the cursor (`Behind`), the one that
  moved the cursor precedes all that are left (`LastInv`), and each span belongs to the right one of all symbols of its
  section, those to come included (`SpansRight`).
* `NamedInv`: the diagnostics so far are those that the owned spans and the spans of symbols call for (`Named`); it needs to
  know whose the bytes before the cursors are (`ClaimedByInv`, `LastSpan`) and that a symbol's span lies in its section (`Placed`).

`RowsAddUp` follows from `SpanInv` and `MergeInv`. Each span has one row (`SumByRows`), and the sizes of spans are those of the bytes
they tile (`SumOfSizes`: sizes add up exactly where nothing overlaps). These lemmas are in `Sums`. The community module
defines a sum by recursion over subsets and a choice of the next element; that it can be computed at all (`TallyExists`)
and in any order (`SumRemove`) is shown there without induction, by taking the smallest set for which it fails.

Of `Summary` (from `ImagesAssumption`: the numbers of an image and of its readers' answers are at most `MaxAddress`, in any
combination): everything above, of the symbols that the table has sized, and of the table `SizesStick`,
`HeuristicStaysPut` and `GuessesCutNoOne`, for any symbols, readers and units. `EntriesInv` says that a guess fits: it ends in
its section and before every other address there (`Fits`); it holds because a guess is made once, from addresses that no
stage changes. `RowsInv` says that the rows have the entries' sizes. `SummaryInv` joins this to the attribution: until the
hand-over the attribution is at its start (`Start`), and what it is handed then is an input as `InputAssumption` asks for
(`HandOverKeeps`), so that each of its steps keeps `AttributionInv`. `GuessesCutNoOne` follows from both halves: a guess
that fits ends where any other symbol starts (`GuessKeepsOff`), so it can neither be met by the sweep as the longer of two
(`GuessOverlapsNone`, by `OverlapInv`) nor be the outermost over a symbol with evidence (`GuessTakesNothing`, by `SpansRight`).

**`LayoutLensProofs`** (from `LayoutAssumption`: bit numbers within `MaxBits`, and of two powers of two the smaller divides
the larger). All of the run's properties, for any list of members. `WalkInv` says
of the walk that the bits below the cursor are those of members taken or of holes, and that no hole reaches into a member,
including those to come, which is what the sort is for. `NoPaddingInserted` is inductive once alignments are known to
divide each other (`DividesTransitive`, `DividesSum`, `AlignedStays`); it is the middle of the argument in the comment of
`suggest_reorder`. `StraddlesWhereSplit` is arithmetic: a quotient differs where a multiple lies between
(`MultipleBetween`). `AddsUp` follows from `HolesAreGaps` by the sums of sizes, and from `CursorInv`: the cursor is where some
member ends. The property speaks of members within the type because a member may end, and a type be as large, where
`u64` does, and then a sum that has been cut off says nothing; an attempt to prove it without this showed it false.
`ReorderMinimal` compares the proposed order with all others. A lower bound holds for each of them: an order ends no
earlier than the bytes of its members allow (`EndsBound`), and a flexible array, which is last, starts no earlier than the bytes
of the rest, rounded up (`EveryOrderBound`). `OrderFacts` says that the loop reaches that bound: as long as no padding is
inserted the offset is the sum of the sizes taken so far.

**`FsLocatorProofs`** (from `LocateAssumption`: lists are sequences of directories, requests are of known kinds).
`TypeOK`, `LinkVouched`, `NothingUsablePassedOver` and `ErrorsHaveACause`, for any list of candidates and any number of
changes to any file. `AtHand` carries them: what the call knows of the candidate it has seen or read is still true of
the disk, unless that candidate has changed.

**`DwarfReaderProofs`** (from `DebugAssumption`: units and entries are sequences, entries have depths; and `ReaderAssumption`:
numbers in entries fit a word). `ScopesAreAncestors`, `EveryTypeNamed` and `TypeOK`, for any units, well-formed or not. `WalkInv`
says of the stack that its depths grow (`Outermost`), that it holds nothing but scopes that are open at the entry at hand
(`OnlyOpen`), and every such scope except the ones that this entry leaves (`AllOpen`). The exception is what makes it
inductive: while `Pop` runs the stack is between two entries. For `EveryTypeNamed` the stack must be more than a set of
scopes: its names in order are the qualified name of the entry at hand (`StackNames`, by `InOrderUnique`: there is one way
to list the scopes of an entry from the outside in). With it `GatheredInv` is inductive: definitions and declarations are those
that the walk has passed, each under its name, none lost and none twice; and `AnswerInv` carries them to the answer. `TypeOK`
is about what is computed from entries that may refer to themselves: the functions that take one step of depth at a time
exist (`StepByStep`) and keep to a word in each step (`HoldsThroughout`, `WrapFits`), so that sizes, alignments and offsets
of a layout and of each of its parts do (`LayoutsFit`, `PartsFit`), and ranges of functions start at an address (`FunctionsFit`).

`LayoutsReadBack`, `VariablesReadBack` and `FunctionsReadBack` hold for any units of which `Written` (in `DwarfWritten`) is true: any number of types, nested to any
depth up to `MaxDepth`, each written in any of the ways that DWARF has. First, every reference leads to the type that is
meant, by a position, over a stub and its signature, or by the signature alone (`ReferenceLeads`); then the reader's
`SizeWithin`, `AlignWithin`, `EmptyWithin` and `VirtualBasesWithin` are what they say step by step (`SizeWithinIs` and so on); and
then, by the number of steps left, what they find is what the compiler knows. The statement that is kept from step to step has
two halves (`SizesAgree`, and likewise for the others): a type whose size is known and rests on no more steps than are left is found to have that size, and one
of unknown size is found to have none, however many steps are left. The second half is what makes the first
one inductive: an array of elements that end in a circle must not be given a size. Number and offset of elements of an
array (`ElementsRead`), bit-fields in both byte orders (`BitfieldRead`), parts, layouts and variables follow entry by
entry, and functions range by range: a range passes the filter if and only if the linker kept the piece (`LiveIsKept`). `ReadInv` carries this to the answers, over steps that never change `debug`.

**`ImageProofs`** (of `Containers` from `HeaderAssumption`: numbers fit the fields they are in, whatever they are; from
`LinkerAssumption`: files of which `linked` says who wrote them are laid out as linkers do and whole; and
`LimitAssumption`). `TypeOK` for all files: every sum of header fields that is answered is checked or cannot overflow.
`ImageInv` says that the answers are those of the format that claimed the file. `LoadedFromFile` for linked files: where the
pieces that a loader copies have each their own room, what comes to the addresses of a section is cut out of one of them
(`OnePiece`, `StoredPart`, `UnstoredPart`); for ELF the segment that the code takes, the first that maps the section, is the one
that the linker meant (`ElfLoadRangeIs`). `Conforms` for linked files, where `ReadInv` keeps the bytes of the section that was
read: the Thumb bit never takes an address out of its section, labels outside of theirs have lost it, a compressed section is
not refused, and offsets in a slice of a universal binary lead to bytes of that slice (`ElfPlaced`, `ElfReads`, `MachOReads`).
Of `PdbSymbols` (from `PdbAssumption`: streams are sequences of records, the address map covers the places)
`EveryCodeNamed`, for any modules and records. `FirstInv` says that each place keeps the first of the procedures read so far,
`AnswerInv` that the answer has the publics read so far. `PdbReader` takes exactly these steps for its
`symbols` query, so that the same holds of it (`PdbReaderNamesAllCode`).

Of `PdbReader` (from `RecordAssumption`) `LayoutsReadBack` and `VariablesReadBack`, for any type records that a compiler writes
(`Written`). The plan is that of `DwarfReaderProofs`. Field lists are gathered over their continuations (`FieldsRead`), a
name leads to its first definition, through a forward reference or not (`AggregateMeans`), and then, by the number of steps left, sizes agree
(`SizesRead`), alignments are bounded by the real ones (`AlignsRead`), classes are found empty that are (`EmptiesRead`) and virtual
bases are seen at any distance (`VirtualsRead`). Alignments do not just agree, because the records do not always tell them. A `fact`
that is `hidden` (a bit-field, a class without fields or a name that is only declared takes part) is answered with `None`; one that is `raised` (a virtual base is aligned
for more than a pointer) with no more than the real one; any other exactly (`Bounds`). `PdbReadInv` says that answers
found are those of the records, which no step changes.

**What the theorems suppose of compilers.** `Written` is a hypothesis of five theorems (`Spec /\ Written => []...`), not
an assumption on constants, because units that are not written so are read as well and other theorems speak of them. It
is local: it relates an entry to its children and to the `fact`s of the entries it refers to, and says what DWARF and
CodeView define. What a compiler does across a whole program (where it puts stubs, in which order, how often) is free.
It says more than the formats do in some places: scalars are as large as they are aligned, no two type units have one
signature, a base that has virtual bases is not named through a typedef (section 6), and a definition that is a base is
the first one of its name in a PDB. That a compiler can fulfil it is checked: the compilers in `MCDwarfReader` and
`MCPdbReader` compute facts from the program and not from `Written`, and every initial state of their runs is asserted
to fulfil it.

**Only model-checked**: the liveness properties `OpenReturns`, `EveryQueryReturns` and `LocateReturns` (out of the prover's
reach); `SpellingsAgree`, which is about a table of words; `OpenedByItsFormat`, which is about one of magic numbers; and
`ProgramReadsBack` of `Containers`, which compares with what
particular linkers write. Stated entry by entry, as `Written` is for the debug formats, its hypothesis would repeat the tables by
which the reader translates flags and kinds, and the theorem would say that the table is the table; the linkers in
`MCContainers` choose flags from the program instead, and the run compares.

## 6. Where the code and its documentation differ

Each of these is a run that TLC ends with a counterexample.

* `tls_templates`: a TLS template yields to a section that starts where it does, not to the section behind that one.
* `session_panics`: "no panics escape the public API" holds of `open` and of the body of `summary` only.
* `layout_flattened_union`: members that share storage are summed up as if they did not, and the result is called minimal.
* `heuristic_totals`: a guess at the address of a shorter symbol with a recorded size takes that symbol's bytes.

More are visible in the models without a run:

* A class without members is advised to save its one byte by a reordering (`Preconditions` and `Suggest` in `LayoutLens`,
  against `core/layout.rs:203`).
* A conflict between definitions is not reported when the two spellings differ or an unrelated type matches as well
  (`IsOdrConflict`, against `docs/05-correlation.md:31`).
* The locator takes a dSYM without a look at its UUID (`PathsTried`, against `core/ir.rs:187`), so that a stale bundle hides
  a matching one in a search directory; and an object file's recorded time is not compared (against
  `docs/04-formats-and-toolchains.md:72`).
* In a PDB a virtual base counts with the alignment of a pointer, whatever its own is (`TypeAlign` in `PdbReader`, against
  `docs/05-correlation.md:42`), and a forward reference means the first definition of its name, which nameless types share
  (`Definition`).
* A class whose base is named through a typedef is not seen to inherit that base's virtual bases (`VirtualBasesWithin` in
  `DwarfReader`, `libstratum-debug-dwarf/src/lib.rs:539`), although emptiness is looked for through typedefs
  (`EmptyWithin`, line 347).
* Of two symbols that start before the bytes left of their section the longer one gets them, even if its size is a guess
  (the exception in `GuessesCutNoOne`).
* Overlays in ELF, which share addresses, all get the load address of the first (`ElfFormat`); a section of type `SHT_NULL` with
  the flag ALLOC is loaded without a file range.
* A Mach-O section that reaches past its slice reads the bytes of the next one (`MachOFormat`).
* A Mach-O symbol with a section number that does not exist keeps it (`NListSection`, against `core/spi/conformance.rs:56`).
  `Conforms` is asked of files that a linker wrote, which have none; a damaged one in `MCContainers` does, and an image in
  `MCSummary`: the lenses guess no size for such a symbol (`HeuristicStaysPut`) and give it no bytes (`Given`).
* Code that lld discards may keep 1 for an address, and `docs/04-formats-and-toolchains.md:27` counts that among those that are
  none; the filter (`Live` in `DwarfReader`, `libstratum-debug-dwarf/src/lib.rs:690`) drops 0, −1 and −2 only, and 1 where the
  range is empty, as lld leaves it in `.debug_ranges`. `FunctionsReadBack` speaks of linkers that write 1 for both ends or not
  at all (`PieceWritten`).
* `unsigned char` and `signed char` normalize to `unsigned int char` and `int char`: harmless, as nothing else does. `long unsigned`
  and `int unsigned`, which no compiler writes but a caller may, are sets of words that `CANONICAL` does not list, and stay
  apart from `unsigned long` and `unsigned int`.

## 7. Not modelled

Left out of components that are modelled otherwise:

* Session: `info()` and `berkeley_sizes()`, which read the immutable image; name filters of `symbols()`.
* Summary lens: the unit and library dimensions (reported as unsupported by the code), the order of rows, wording.
* DWARF and PDB backends: display names of types and source positions; in DWARF also the list of units.
* Names: tokenizing and joining of strings (a name is its words here), demangling, engines without a language.

Left out for good: reading of files and mappings (`source.rs`; open has its error), cancellation (no query takes a
token), constant tables (`libstratum-arch`, except what ELF symbols need), serialisation and wording, command-line and
language bindings, and the parsing done by external crates (`object`, `gimli`, `pdb2`, the demanglers).

What could come next: addresses and kinds of `ProgramReadsBack` apart, since the former follow from sums that can be proved
about and only the latter from tables; the widths of what `PdbReader` answers, as `TypeOK` has them for DWARF; and names of
types that two units define differently.
