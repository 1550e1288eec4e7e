---------------------------- MODULE DwarfReader ----------------------------
(***************************************************************************)
(* A DWARF reader: find_types, functions and variables over the entries,   *)
(* with the index of DwarfIndex built by the first type query.             *)
(*                                                                         *)
(* Sizes and alignments are found by following references between entries  *)
(* to a limited depth.  Numbers are below Word; products and sums that the *)
(* code does not check wrap around.  Names of types, which are for display,*)
(* and source positions are left out.                                      *)
(***************************************************************************)
EXTENDS DwarfIndex, FiniteSetsExt

CONSTANTS MaxDepth, \* MAX_DEPTH
          Word      \* 2^64

Maybe(S) == S \cup {None}

\* None is no number and no entry.  Numbers in the sections fit their integers, and the
\* ranges of an entry are a sequence.
ASSUME ReaderAssumption ==
    /\ None \notin Nat /\ None \notin Nat \X Nat
    /\ MaxDepth \in Nat /\ Word \in Nat /\ Word > 1
    /\ \A d \in Debugs :
          /\ d.addressSize \in 0..(Word - 1)
          /\ \A u \in DOMAIN d.units : \A p \in DOMAIN d.units[u].entries :
                LET entry == d.units[u].entries[p]
                IN /\ {entry.byteSize, entry.lower, entry.upper, entry.count, entry.alignment, entry.location,
                       entry.bitSize, entry.bitOffset, entry.dataBitOffset, entry.address} \subseteq Maybe(0..(Word - 1))
                   /\ Len(entry.ranges) \in Nat /\ DOMAIN entry.ranges = 1..Len(entry.ranges)
                   /\ \A k \in DOMAIN entry.ranges : \A end \in 1..2 : entry.ranges[k][end] \in 0..(Word - 1)

VARIABLES query, answer

vars == <<indexVars, query, answer>>

Wrap(n) == n % Word

Dies(u) == {<<u, p>> : p \in DOMAIN Entries(u)}
AllDies == UNION {Dies(u) : u \in DOMAIN debug.units}

Children(die) ==
    {<<die[1], c>> : c \in
        {c \in DOMAIN Entries(die[1]) :
            /\ c > die[2] /\ Entry(<<die[1], c>>).depth = Entry(die).depth + 1
            /\ \A k \in (die[2] + 1)..c : Entry(<<die[1], k>>).depth > Entry(die).depth}}

OfTag(dies, tags) == {die \in dies : Entry(die).tag \in tags}

\* resolve: a declaration that has a signature stands for the definition in its type unit.
Resolve(u, ref) ==
    LET die   == IF ref = None THEN None ELSE ResolveOnce(u, ref)
        there == IF die # None /\ Entry(die).declaration /\ Entry(die).signature # None
                 THEN Signed(Entry(die).signature) ELSE None
    IN IF there # None THEN there ELSE die

-----------------------------------------------------------------------------
(* Types.                                                                  *)
PointerTags == {"pointer", "reference", "rvalue_reference", "ptr_to_member"}
QualifierTags == {"typedef", "const", "volatile"}

SubrangeCount(entry) ==
    LET lower == IF entry.lower = None THEN 0 ELSE entry.lower
    IN IF entry.count # None THEN entry.count
       ELSE IF entry.upper = None \/ entry.upper < lower \/ entry.upper - lower + 1 >= Word
       THEN None ELSE entry.upper - lower + 1

\* Product of the dimensions in their order; it stops at the first that is unknown or too much.
ArrayElements(die) ==
    LET ranges == InOrder({c[2] : c \in OfTag(Children(die), {"subrange"})})
        total[k \in 0..Len(ranges)] ==
            IF k = 0 THEN 1
            ELSE LET n == SubrangeCount(Entry(<<die[1], ranges[k]>>))
                 IN IF total[k - 1] = None \/ n = None \/ total[k - 1] * n >= Word THEN None
                    ELSE total[k - 1] * n
    IN IF ranges = <<>> THEN None ELSE total[Len(ranges)]

\* The type that an entry refers to, and what has been found of it.
TypeOf(die) == Resolve(die[1], Entry(die).type)
OfType(found, die) == IF TypeOf(die) = None THEN None ELSE found[TypeOf(die)]

\* The size of a type, with so many steps left to other types.
SizeWithin[left \in 0..MaxDepth] ==
    [die \in AllDies |->
        LET entry    == Entry(die)
            inner    == IF left = 0 THEN None ELSE OfType(SizeWithin[left - 1], die)
            elements == ArrayElements(die)
        IN IF entry.byteSize # None THEN entry.byteSize
           ELSE IF entry.tag \in PointerTags THEN debug.addressSize
           ELSE IF entry.tag # "array" THEN inner
           ELSE IF inner = None \/ elements = None THEN None ELSE Wrap(inner * elements)]

TypeSize(die) == OfType(SizeWithin[MaxDepth], die)

\* What an aggregate is aligned for: its members and bases, static members left out.
Aligned(die) ==
    {c \in OfTag(Children(die), {"member", "inheritance"}) :
        ~Entry(c).declaration /\ (Entry(c).artificial \/ Entry(c).type # None)}

AlignWithin[left \in 0..MaxDepth] ==
    [die \in AllDies |->
        LET entry    == Entry(die)
            inner(c) == IF left = 0 THEN None ELSE OfType(AlignWithin[left - 1], c)
            parts    == {IF Entry(c).artificial THEN debug.addressSize ELSE inner(c) : c \in Aligned(die)}
        IN IF entry.alignment # None THEN entry.alignment
           ELSE IF entry.tag \in {"base", "enumeration"}
           THEN IF entry.byteSize = None THEN None ELSE Max({1, Min({entry.byteSize, 16})})
           ELSE IF entry.tag \in PointerTags THEN debug.addressSize
           ELSE IF entry.tag \notin AggregateTags THEN inner(die)
           ELSE IF None \in parts THEN None ELSE Max(parts \cup {1})]

TypeAlign(die) == OfType(AlignWithin[MaxDepth], die)

\* Without data members, a vtable pointer or virtual bases, and with empty bases only.
EmptyWithin[left \in 0..MaxDepth] ==
    [die \in AllDies |->
        LET inner(c) == left > 0 /\ TypeOf(c) # None /\ EmptyWithin[left - 1][TypeOf(c)]
        IN \/ Entry(die).tag \in QualifierTags /\ inner(die)
           \/ /\ Entry(die).tag \in {"structure", "class"} /\ ~Entry(die).declaration
              /\ \A c \in OfTag(Children(die), {"member"}) : Entry(c).declaration
              /\ \A c \in OfTag(Children(die), {"inheritance"}) : ~Entry(c).virtual /\ inner(c)]

TypeIsEmpty(die) == TypeOf(die) # None /\ EmptyWithin[MaxDepth][TypeOf(die)]

VirtualBasesWithin[left \in 0..MaxDepth] ==
    [die \in AllDies |->
        \E c \in OfTag(Children(die), {"inheritance"}) :
            \/ Entry(c).virtual
            \/ left > 0 /\ TypeOf(c) # None /\ VirtualBasesWithin[left - 1][TypeOf(c)]]

HasVirtualBases(die) == VirtualBasesWithin[MaxDepth][die]

-----------------------------------------------------------------------------
(* Layouts.                                                                *)
Or(value, default) == IF value = None THEN default ELSE value
Bits(bytes) == Wrap(bytes * 8)

\* Both byte orders are counted from the end.
FaultyBitOffset(c) ==
    LET entry   == Entry(c)
        start   == Bits(Or(entry.location, 0))
        storage == Bits(Or(Or(entry.byteSize, TypeSize(c)), 0))
        back    == Or(entry.bitOffset, 0) + entry.bitSize
    IN IF entry.dataBitOffset # None THEN entry.dataBitOffset
       ELSE IF start + storage < back THEN 0 ELSE Wrap(start + storage) - back

\* Where a bit-field starts; before DWARF 4 counted from the storage unit's highest bit.
BitOffset(c) ==
    LET entry   == Entry(c)
        start   == Bits(Or(entry.location, 0))
        storage == Bits(Or(Or(entry.byteSize, TypeSize(c)), 0))
        offset  == Or(entry.bitOffset, 0)
        end     == Wrap(start + storage)
    IN IF entry.dataBitOffset # None THEN entry.dataBitOffset
       ELSE IF debug.endian = "big" THEN Wrap(start + offset)
       ELSE IF end < Wrap(offset + entry.bitSize) THEN 0 ELSE end - Wrap(offset + entry.bitSize)

IsStatic(entry) == entry.declaration /\ entry.location = None /\ entry.dataBitOffset = None

Member(c) ==
    LET entry == Entry(c)
        start == Bits(Or(entry.location, 0))
    IN IF entry.artificial /\ entry.name = "_vptr"
       THEN [what |-> "vptr", at |-> c[2], offset |-> start, size |-> Bits(debug.addressSize)]
       ELSE IF entry.bitSize # None
       THEN [what |-> "bitfield", at |-> c[2], offset |-> BitOffset(c), size |-> entry.bitSize]
       ELSE [what |-> "field", at |-> c[2], offset |-> start,
             size |-> Bits(Or(TypeSize(c), 0)),
             align |-> TypeAlign(c), empty |-> TypeIsEmpty(c)]

\* A virtual base has no constant offset.
Base(c) ==
    [what |-> "base", at |-> c[2],
     offset |-> IF Entry(c).location = None THEN None ELSE Bits(Entry(c).location),
     size |-> Bits(Or(TypeSize(c), 0)), virtual |-> Entry(c).virtual]

Layout(definition) ==
    LET die == <<definition.unit, definition.at>>
        children == Children(die)
    IN [path |-> definition.path, die |-> die, declared |-> FALSE,
        bytes |-> Or(Entry(die).byteSize, 0), align |-> Entry(die).alignment,
        virtualBases |-> HasVirtualBases(die),
        entries |-> {Member(c) : c \in {c \in OfTag(children, {"member"}) : ~IsStatic(Entry(c))}}
                    \cup {Base(c) : c \in OfTag(children, {"inheritance"})}]

\* Only the first unit's definitions hide declarations.
FaultyDeclared ==
    {path \in declarations :
        \A d \in definitions : d.unit = 1 => d.path # path}

\* Names that are met as declarations only.
Declared == {path \in declarations : \A d \in definitions : d.path # path}

Declaration(path) ==
    [path |-> path, die |-> None, declared |-> TRUE, bytes |-> 0, align |-> None,
     virtualBases |-> FALSE, entries |-> {}]

-----------------------------------------------------------------------------
(* Functions and variables.                                                *)

\* Only the highest number is no address.
FaultyLive(range) == range[1] # 0 /\ range[1] < Word - 1 /\ range[1] < range[2]

\* Code that was discarded or folded away keeps a range at an address that is none.
Live(range) == range[1] # 0 /\ range[1] < Word - 2 /\ range[1] < range[2]

LiveRanges(die) == {k \in DOMAIN Entry(die).ranges : Live(Entry(die).ranges[k])}

Functions(u) ==
    {[die |-> die, ranges |-> Kept(Entry(die).ranges, LiveRanges(die))] :
        die \in {die \in OfTag(Dies(u), {"subprogram"}) :
                    ~Entry(die).declaration /\ LiveRanges(die) # {}}}

\* Variables at a fixed address, with a type whose size is known.
SizedVariables(u) ==
    {die \in OfTag(Dies(u), {"variable"}) :
        /\ ~Entry(die).declaration /\ Entry(die).address \notin {None, 0}
        /\ debug.addressSize \in {4, 8}
        /\ TypeSize(die) # None}

Variables ==
    {[die |-> die, address |-> Entry(die).address, size |-> TypeSize(die)] :
        die \in UNION {SizedVariables(u) : u \in DOMAIN debug.units}}

-----------------------------------------------------------------------------
(* Queries.                                                                *)
ReaderInit == Init /\ query \in {"types", "functions", "variables"} /\ answer = None

Index == query = "types" /\ IndexStep /\ UNCHANGED <<query, answer>>

Answer(value) == answer = None /\ answer' = value /\ UNCHANGED <<indexVars, query>>

Failure(status) == [status |-> status, found |-> {}]

Found(things) == [status |-> "ok", found |-> things]

\* Functions are asked for unit by unit.
FoundIn(u, things) == [status |-> "ok", found |-> things, unit |-> u]

FindTypes ==
    /\ query = "types" /\ phase # "walk"
    /\ Answer(IF phase = "failed" THEN Failure("Malformed")
              ELSE Found({Layout(d) : d \in definitions} \cup {Declaration(p) : p \in Declared}))

FindFunctions(u) ==
    /\ query = "functions"
    /\ Answer(IF ~debug.finalAddresses THEN Failure("Unimplemented")
              ELSE IF u \notin DOMAIN debug.units THEN FoundIn(u, {})
              ELSE IF debug.units[u].broken # None THEN Failure("Malformed")
              ELSE FoundIn(u, Functions(u)))

FindVariables ==
    /\ query = "variables"
    /\ Answer(IF ~debug.finalAddresses THEN Failure("Unimplemented")
              ELSE IF \E u \in DOMAIN debug.units : debug.units[u].broken # None
              THEN Failure("Malformed")
              ELSE Found(Variables))

Answered == answer # None /\ UNCHANGED vars

Next ==
    \/ Index
    \/ FindTypes
    \/ \E u \in 1..(Len(debug.units) + 1) : FindFunctions(u)
    \/ FindVariables
    \/ Answered

Spec == ReaderInit /\ [][Next]_vars

-----------------------------------------------------------------------------
(* What is checked.  debug.truth says what the compiler that wrote the     *)
(* units knows of each aggregate and variable: members, virtual bases and  *)
(* sizes; and of each function the pieces that it was compiled to, with    *)
(* what the linker did to each.  No operator above reads it.               *)
Answers(kind) == IF query = kind /\ answer # None THEN answer.found ELSE {}

U64 == 0..(Word - 1)

\* Every number of a layout fits 64 bits or is not known; of the parts only a virtual base
\* has no offset.
LayoutFits(l) ==
    /\ l.bytes \in U64 /\ l.align \in Maybe(U64) /\ l.virtualBases \in BOOLEAN
    /\ \A e \in l.entries :
          /\ e.size \in U64 /\ e.offset \in IF e.what = "base" THEN Maybe(U64) ELSE U64
          /\ e.what = "field" => e.align \in Maybe(U64) /\ e.empty \in BOOLEAN

\* The walk stays within the units; sizes, alignments and offsets that are answered fit, and
\* ranges are those of code: neither empty nor at an address that stands for none.
TypeOK ==
    /\ phase \in {"walk", "indexed", "failed"}
    /\ unit \in 1..(Len(debug.units) + 1)
    /\ unit \in DOMAIN debug.units => at \in 1..(Len(Entries(unit)) + 1)
    /\ \A d \in definitions : Entry(<<d.unit, d.at>>).tag \in AggregateTags
    /\ \A l \in Answers("types") : LayoutFits(l)
    /\ \A f \in Answers("functions") : \A k \in DOMAIN f.ranges :
          /\ f.ranges[k][1] \in 1..(Word - 3)
          /\ f.ranges[k][2] \in (f.ranges[k][1] + 1)..(Word - 1)
    /\ \A v \in Answers("variables") : v.address \in U64 \ {0} /\ v.size \in U64

QualifiedName(u, p) ==
    LET around == InOrder({a \in ScopingAncestors(u, p) : Scope(u, a).name # None})
    IN [k \in DOMAIN around |-> Scope(u, around[k]).name] \o <<ScopeName(u, p)>>

Aggregates(declared) ==
    {die \in AllDies :
        /\ Entry(die).tag \in AggregateTags /\ ScopeName(die[1], die[2]) # None
        /\ Entry(die).declaration = declared}

\* Every complete aggregate of every unit is answered once, under the names of the scopes
\* around it; a name that units only declare is answered by one declaration, and one that
\* some unit defines, before or after, by none.
EveryTypeNamed ==
    query = "types" /\ answer # None /\ answer.status = "ok" =>
        LET Name(die)    == QualifiedName(die[1], die[2])
            complete     == {l \in answer.found : ~l.declared}
            declared     == answer.found \ complete
            onlyDeclared == {Name(die) : die \in Aggregates(TRUE)} \ {Name(die) : die \in Aggregates(FALSE)}
        IN /\ {<<l.path, l.die>> : l \in complete} = {<<Name(die), die>> : die \in Aggregates(FALSE)}
           /\ Cardinality(complete) = Cardinality(Aggregates(FALSE))
           /\ {l.path : l \in declared} = onlyDeclared
           /\ Cardinality(declared) = Cardinality(onlyDeclared)

\* Layouts of aggregates whose compiler is known, with what it knows.
Known == {l \in Answers("types") : l.die \in DOMAIN debug.truth}
Truth(l) == debug.truth[l.die]

\* Members, bases and bit-fields come back where the compiler put them and as large as it
\* made them: through qualifiers, arrays, other units and type units, and for bit-fields in
\* either byte order and in the encodings before and since DWARF 4.  What the advice of the
\* layout lens rests on and no entry records is what the compiler knows too: a member's
\* alignment, whether there is nothing in its type, and whether the aggregate has virtual
\* bases at any distance.
LayoutsReadBack ==
    \A l \in Known :
        /\ {<<e.at, e.offset, e.size, e.what = "bitfield">> : e \in l.entries}
             = {<<e.at, e.offset, e.size, e.bitfield>> : e \in Truth(l).entries}
        /\ l.virtualBases = Truth(l).virtualBases
        /\ \A e \in l.entries : \A real \in Truth(l).entries :
              e.what = "field" /\ e.at = real.at => e.align = real.align /\ e.empty = real.empty

\* Addresses of the pieces of a function that the linker kept.
Code(die) ==
    LET pieces == debug.truthOfFunctions[die]
        kept   == {k \in DOMAIN pieces : pieces[k].kept}
    IN {<<pieces[k].start, pieces[k].start + pieces[k].size>> : k \in kept}

\* A unit's functions are answered with just the ranges of their code that is in the image.
\* Of code that the linker discarded or folded away nothing is answered, whichever of the
\* addresses that are none it left in the entry; of a function without other code neither.
FunctionsReadBack ==
    query = "functions" /\ answer # None /\ answer.status = "ok" =>
        {<<f.die, {f.ranges[k] : k \in DOMAIN f.ranges}>> : f \in answer.found}
          = {<<die, Code(die)>> :
                die \in {d \in DOMAIN debug.truthOfFunctions : d[1] = answer.unit /\ Code(d) # {}}}

\* A variable is answered with its type's size if and only if it is defined, at a fixed
\* address, and its type is complete.
VariablesReadBack ==
    query = "variables" /\ answer # None /\ answer.status = "ok" =>
        {<<v.die, v.size>> : v \in answer.found} = debug.truthOfVariables
=============================================================================
