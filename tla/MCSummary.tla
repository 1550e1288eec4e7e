----------------------------- MODULE MCSummary -----------------------------
(* Images small enough to enumerate, in an address space of twelve bytes.  *)
EXTENDS Summary

R(start, size) == [start |-> start, size |-> size]
Extent(vm, stored, load) == [vm |-> vm, file |-> stored, load |-> load]
Mapped(range) == Extent(range, NoRange, NoRange)

Sec(label, kind, extent) == [label |-> label, kind |-> kind, extent |-> extent]
Seg(name, extent, accessible) == [name |-> name, extent |-> extent, accessible |-> accessible]
Sym(name, kind, section, address, size) ==
    [name |-> name, function |-> IF name = 2 THEN 1 ELSE name, kind |-> kind, section |-> section,
     address |-> address, size |-> size]
Object(name, section, address, size) == Sym(name, "Object", section, address, size)

Image(sections, segments, headersSize, fileSize, symbols, debug) ==
    [sections |-> sections, segments |-> segments, headersSize |-> headersSize,
     fileSize |-> fileSize, symbols |-> symbols, debug |-> debug]

Load == Seg(NoName, Extent(R(0, 9), R(0, 8), R(0, 8)), TRUE)

-----------------------------------------------------------------------------
(* Two sections anywhere in a segment and a third in its middle: disjoint, *)
(* touching, nested, equal or partly overlapping, with TLS templates.      *)
Placements == {R(1, 5), R(1, 2), R(3, 4), R(4, 1), R(6, 4)}
Stored(label, r)   == Sec(label, "Data", Extent(r, r, r))
Template(label, r) == Sec(label, "Tls", Mapped(r))

OverlappingSections ==
    {Image(<<Stored(".a", r), b, Stored(".c", R(3, 2))>>, <<Load>>, 1, 10, {}, <<>>) :
        r \in Placements,
        b \in {Stored(".b", q) : q \in Placements} \cup {Template(".tbss", q) : q \in Placements}}

(* One section at a load address of its own, and up to three of these      *)
(* symbols: alone, aliases, nested, partly overlapping, beyond the end,    *)
(* without size, or in thread-local storage.                               *)
Symbols ==
    {Object(1, 1, 2, 4), Object(2, 1, 2, 4), Object(2, 1, 2, 2), Object(3, 1, 3, 2), Object(1, 1, 4, 4),
     Object(4, 1, 7, 5), Object(5, 1, 11, 1), Sym(6, "Label", 1, 5, 0), Sym(7, "Tls", 1, 2, 6)}

SymbolsInSection ==
    {Image(<<Sec(".text", "Code", Extent(R(2, 7), R(3, 7), R(6, 7)))>>, <<>>, 2, 11, S, <<>>) :
        S \in {T \in SUBSET Symbols : Cardinality(T) <= 3}}

(* Sections that share a name, one of them trimmed by an earlier one.      *)
SameName ==
    {Image(<<Stored(".x", R(1, 4)), Stored(".x", R(3, 5)), Sec(".note", "Note", Extent(NoRange, R(8, 2), NoRange))>>,
           <<Load>>, 0, 11, S, <<>>) :
        S \in SUBSET {Object(1, 1, 1, 3), Object(2, 1, 4, 2), Object(3, 2, 5, 2), Object(4, 2, 6, 2)}}

(* Symbols of a section that lost its first bytes, with and without sizes. *)
TrimmedSection ==
    {Image(<<Stored(".a", R(1, 4)), Sec(".b", "Code", Mapped(R(3, 5)))>>, <<>>, 0, 11, S, <<>>) :
        S \in {T \in SUBSET {Sym(1, "Function", 2, 3, 0), Sym(2, "Function", 2, 3, 3), Sym(3, "Function", 2, 4, 0),
                             Sym(4, "Function", 2, 4, 4), Sym(5, "Function", 2, 6, 0), Sym(6, "Function", 2, 6, 1)} :
                 Cardinality(T) <= 3}}

(* Mach-O: __PAGEZERO, __TEXT over the headers, a section-less __LINKEDIT. *)
Gaps ==
    {Image(<<Sec("__TEXT,__text", "Code", Extent(R(6, 2), stored, NoRange)),
             Sec("__TEXT,__const", "Data", Mapped(R(9, 1)))>>,
           <<Seg("[__PAGEZERO]", Mapped(R(0, 4)), FALSE),
             Seg("[__TEXT]", Extent(R(4, 6), R(0, 4), NoRange), TRUE),
             Seg("[__LINKEDIT]", Extent(linkedit, R(5, 2), NoRange), TRUE)>>,
           headers, 10, {}, <<>>) :
        stored \in {R(2, 2), R(2, 0)}, linkedit \in {R(10, 2), R(11, 5), R(8, 1)},
        headers \in {0, 1, 2, 12}}

-----------------------------------------------------------------------------
(* Recorded and missing sizes: up to three symbols of a pool with aliases, *)
(* folds, labels, merged literals, a symbol of no section and one that     *)
(* names a section there is none of, a section that saturates and one that *)
(* is not mapped, stripped or not, with several kinds of debug info.       *)
Pool ==
    {Sym(1, "Function", 1, 1, 0), Sym(2, "Function", 1, 1, 0), Sym(3, "Function", 1, 1, 3),
     Sym(4, "Function", 1, 4, 0), Sym(5, "Function", 1, 5, 1), Sym(6, "Label", 1, 3, 0),
     Object(7, 2, 7, 0), Object(8, 3, 9, 0), Sym(9, "Unknown", 3, 11, 0), Object(10, 4, 3, 0),
     Sym(0, "Function", 1, 2, 0), Object(13, 0, 5, 2), Object(14, 9, 3, 0), Sym(11, "Section", 3, 10, 0), Sym(12, "Label", 1, 8, 0)}

PoolSections ==
    <<Sec(".text", "Code", Mapped(R(1, 6))), Sec(".lit", "Literals", Mapped(R(7, 2))),
      Sec(".data", "Data", Mapped(R(9, 9))), Sec(".note", "Data", Extent(NoRange, R(2, 2), NoRange))>>

Reader(symbols, functions, variables) ==
    [symbols |-> symbols, functions |-> functions, variables |-> variables]
Variable(address, size) == [address |-> address, size |-> size]

\* A function with a cold part, one unit that fails, one function without code,
\* and another that starts where the first one does.
SplitFunctions == << << <<R(6, 1), R(1, 3)>>, << >> >>, Failed, << <<R(1, 2)>>, <<R(4, 2)>> >> >>

Readers ==
    {<<>>,
     <<Reader(Failed, SplitFunctions, <<Variable(9, 2), Variable(9, 4)>>)>>,
     <<Reader({}, Failed, <<Variable(9, 0)>>),
       Reader(Failed, << << <<R(1, 5)>> >> >>, <<Variable(9, 4), Variable(11, 2)>>)>>,
     <<Reader(Failed, <<>>, Failed)>>}

Stripped(debug, symbols) ==
    Image(PoolSections, <<>>, 1, 4, {}, <<Reader(Failed, Failed, Failed), Reader(symbols, <<>>, Failed)>> \o debug)

UpTo(n) == {S \in SUBSET Pool : Cardinality(S) <= n}

Sized ==
    {Image(PoolSections, <<>>, 1, 4, S, debug) : S \in UpTo(3), debug \in Readers}
    \cup {Stripped(debug, S) : S \in UpTo(2), debug \in Readers}

MCImages == OverlappingSections \cup SymbolsInSection \cup SameName \cup TrimmedSection \cup Gaps \cup Sized

-----------------------------------------------------------------------------
(* Two labels of one function, of which only the shorter one has a size.   *)
SameStart ==
    {Image(PoolSections, <<>>, 1, 4, {Sym(1, "Function", 1, 1, 0), Sym(3, "Function", 1, 1, 3)} \cup more, debug) :
        more \in SUBSET {Sym(4, "Function", 1, 6, 0), Object(8, 3, 9, 0)}, debug \in Readers}

(* ELF thread-local storage: .tbss shares the address of .init_array and,  *)
(* being larger, reaches into the section behind it.                       *)
Templates ==
    {Image(<<Template(".tbss", R(2, size)), Stored(".init_array", R(2, 2)), Stored(".data", R(4, 5))>>,
           <<Load>>, 1, 10, S, <<>>) :
        size \in 1..4, S \in SUBSET {Object(1, 3, 4, 1), Object(2, 3, 5, 2)}}

-----------------------------------------------------------------------------
\* What the summaries of these are given.
Sizes == INSTANCE SymbolSizes

MCInputs ==
    {LET sized == Sizes!SizedSymbols(Binary(image))
     IN Given(image, {Sizes!Row(sized, e) : e \in sized}) : image \in Images}
=============================================================================
