---------------------------- MODULE MCPdbReader ----------------------------
(***************************************************************************)
(* Type records as MSVC writes them: a program is a sequence of types, each *)
(* built from earlier ones; it is laid out and written with and without    *)
(* forward references and continued field lists.  Beside these there are   *)
(* malformed records, and all small streams of symbols.                    *)
(***************************************************************************)
EXTENDS PdbWritten, SequencesExt

AddressSize == 4

\* Places in and out of the image, one of them past the end of u64.
MCPlaces == {<<1, 0>>, <<1, 4>>, <<2, 0>>, <<9, 0>>}
Rva == [place \in MCPlaces |->
           CASE place = <<1, 0>> -> 8 [] place = <<1, 4>> -> 12 [] place = <<2, 0>> -> 60 [] OTHER -> None]

Pdb == [status |-> "ok", guid |-> 7, age |-> 1, debugAge |-> None, addressSize |-> AddressSize,
        imageBase |-> 16, rva |-> Rva, modules |-> <<>>, globals |-> <<>>, types |-> <<>>,
        typesBroken |-> FALSE, truth |-> [type \in {} |-> None], truthOfVariables |-> {}, declared |-> {}]

-----------------------------------------------------------------------------
(* Programs.  The parts of an aggregate come in their order in the records *)
(* and, but for virtual bases, in memory.                                  *)
Scalar(size) == [is |-> "scalar", size |-> size]
Pointer == [is |-> "pointer"]
Const(of) == [is |-> "const", of |-> of]
EnumOf(of) == [is |-> "enum", of |-> of]
ArrayOf(of, count) == [is |-> "array", of |-> of, count |-> count]
Aggregate(parts) == [is |-> "aggregate", parts |-> parts]
Part(is, of) == [is |-> is, of |-> of]
Vfptr == [is |-> "vfptr"]

RoundUp(n, a) == ((n + a - 1) \div a) * a

\* What a part takes where it stands: virtual bases stand elsewhere.
PartSize(f, part) ==
    IF part.is = "vfptr" THEN AddressSize
    ELSE IF part.is \in {"static", "direct", "indirect"} \/ (part.is = "base" /\ f[part.of].empty) THEN 0
    ELSE f[part.of].size

PartAlign(f, part) ==
    IF part.is = "vfptr" THEN AddressSize ELSE IF part.is = "static" THEN 1 ELSE f[part.of].align

IsVirtual(part) == part.is \in {"direct", "indirect"}

\* The hidden pointer to the table of virtual bases stands where the first of them is listed.
Starts(f, parts) ==
    LET hidden(k) == IF IsVirtual(parts[k]) /\ \A i \in 1..(k - 1) : ~IsVirtual(parts[i]) THEN AddressSize ELSE 0
        place(starts, k) ==
            Append(starts, IF k = 1 THEN 0
                           ELSE RoundUp(starts[k - 1] + PartSize(f, parts[k - 1]) + hidden(k - 1),
                                        IF hidden(k) > 0 THEN AddressSize
                                        ELSE IF IsVirtual(parts[k]) THEN 1 ELSE PartAlign(f, parts[k])))
    IN FoldLeft(place, <<>>, [k \in DOMAIN parts |-> k])

AggregateFacts(f, parts) ==
    LET virtual == {k \in DOMAIN parts : IsVirtual(parts[k])}
        data    == {k \in DOMAIN parts : parts[k].is \notin {"static", "vfptr"}}
        align   == Max({1} \cup {PartAlign(f, parts[k]) : k \in DOMAIN parts}
                       \cup IF virtual = {} THEN {} ELSE {AddressSize})
        n       == Len(parts)
        end     == IF n = 0 THEN 0
                   ELSE Starts(f, parts)[n] + PartSize(f, parts[n])
                        + (IF virtual = {n} THEN AddressSize ELSE 0)
    IN [size |-> Max({1, MapThenSumSet(LAMBDA k : f[parts[k].of].size, virtual) + RoundUp(end, align)}),
        align |-> align,
        empty |-> \A k \in DOMAIN parts :
                     parts[k].is = "static" \/ (parts[k].is = "base" /\ f[parts[k].of].empty),
        virtual |-> virtual # {} \/ \E k \in data : parts[k].is = "base" /\ f[parts[k].of].virtual,
        hidden |-> parts = <<>> \/ \E k \in data \ virtual : parts[k].is = "bits" \/ f[parts[k].of].hidden,
        raised |-> \E k \in data : IF k \in virtual THEN f[parts[k].of].align > AddressSize
                                   ELSE f[parts[k].of].raised,
        steps |-> Max({0} \cup {f[parts[k].of].steps + 2 : k \in data})]

TypeFacts(f, t) ==
    LET plain(size, align) ==
            [size |-> size, align |-> align, empty |-> FALSE, virtual |-> FALSE, hidden |-> FALSE,
             raised |-> FALSE, steps |-> 0]
        made == [f[t.of] EXCEPT !.steps = @ + 1]
    IN CASE t.is = "scalar" -> plain(t.size, t.size)
         [] t.is = "pointer" -> plain(AddressSize, AddressSize)
         [] t.is = "const" -> made
         [] t.is = "enum" -> made
         [] t.is = "array" -> [made EXCEPT !.size = t.count * @, !.empty = FALSE]
         [] t.is = "aggregate" -> AggregateFacts(f, t.parts)

Facts(types) == FoldLeft(LAMBDA f, t : Append(f, TypeFacts(f, t)), <<>>, types)

-----------------------------------------------------------------------------
(* Records.  An aggregate has a forward reference, the bit-field types of  *)
(* its parts, two field lists of which the second one is named first, and  *)
(* its definition.                                                         *)
RecordCount(t) == IF t.is = "aggregate" THEN Len(t.parts) + 4 ELSE 1

Before(types, j) == MapThenSumSet(LAMBDA i : RecordCount(types[i]), 1..(j - 1))

Defined(types, j) == Before(types, j) + RecordCount(types[j])

Emitted(types, f, through, split, j) ==
    LET t == types[j]
        ref(of) == IF through /\ types[of].is = "aggregate" THEN Before(types, of) + 1 ELSE Defined(types, of)
        class == [is |-> "class", name |-> j, forward |-> FALSE, bytes |-> f[j].size, list |-> None, fact |-> f[j]]
        field(k) ==
            LET part == t.parts[k]
                start == Starts(f, t.parts)[k]
            IN IF part.is = "vfptr" THEN [is |-> "vfptr"]
               ELSE IF IsVirtual(part) THEN [is |-> "virtual", type |-> ref(part.of), direct |-> part.is = "direct"]
               ELSE IF part.is = "static" THEN [is |-> "other"]
               ELSE [is |-> IF part.is = "base" THEN "base" ELSE "member", offset |-> start,
                     type |-> IF part.is = "bits" THEN Before(types, j) + 1 + k ELSE ref(part.of)]
        bits(k) == IF t.parts[k].is = "bits"
                   THEN [is |-> "bitfield", of |-> ref(t.parts[k].of), position |-> 3, length |-> 2,
                         fact |-> [f[t.parts[k].of] EXCEPT !.hidden = TRUE, !.empty = FALSE, !.steps = @ + 1]]
                   ELSE [is |-> "other"]
        n == Len(t.parts)
        cut == IF split THEN n \div 2 ELSE n
        lists == Before(types, j) + n + 2
        piece(from, to, next, end) ==
            [is |-> "fields", fields |-> [k \in 1..(to - from) |-> field(k + from)], next |-> next,
             all |-> [k \in 1..(end - from) |-> field(k + from)], pieces |-> IF next = None THEN 1 ELSE 2]
    IN CASE t.is = "scalar" -> <<[is |-> "primitive", bytes |-> t.size, fact |-> f[j]]>>
         [] t.is = "pointer" -> <<[is |-> "pointer", fact |-> f[j]]>>
         [] t.is = "const" -> <<[is |-> "modifier", of |-> ref(t.of), fact |-> f[j]]>>
         [] t.is = "enum" -> <<[is |-> "enum", of |-> ref(t.of), fact |-> f[j]]>>
         [] t.is = "array" -> <<[is |-> "array", of |-> ref(t.of), bytes |-> f[j].size, fact |-> f[j]]>>
         [] OTHER -> <<[class EXCEPT !.forward = TRUE, !.bytes = 0]>> \o [k \in 1..n |-> bits(k)]
                     \o <<piece(cut, n, None, n), piece(0, cut, IF cut = n THEN None ELSE lists, n),
                          IF n = 0 THEN class ELSE [class EXCEPT !.list = lists + 1]>>

PartTruth(f, starts, part, k) ==
    LET entry(what, offset, size) == {[at |-> k, what |-> what, offset |-> offset, size |-> size]}
    IN CASE part.is \in {"static", "indirect"} -> {}
         [] part.is = "vfptr" -> entry("vptr", 0, 8 * AddressSize)
         [] part.is = "base" -> entry("base", 8 * starts[k], 8 * f[part.of].size)
         [] part.is = "direct" -> entry("virtual base", None, 8 * f[part.of].size)
         [] part.is = "bits" -> entry("bitfield", 8 * starts[k] + 3, 2)
         [] part.is = "plain" -> {[at |-> k, what |-> "field", offset |-> 8 * starts[k], size |-> 8 * f[part.of].size,
                                   align |-> f[part.of].align, empty |-> f[part.of].empty,
                                   hidden |-> f[part.of].hidden, raised |-> f[part.of].raised]}

\* One more name is only ever declared.
Compiled(types, through, split) ==
    LET f == Facts(types)
        n == Len(types)
        aggregates == {j \in 1..n : types[j].is = "aggregate"}
        last == Before(types, n + 1) + 1
        truth(j) ==
            LET starts == Starts(f, types[j].parts)
            IN [bytes |-> f[j].size, virtualBases |-> f[j].virtual,
                entries |-> UNION {PartTruth(f, starts, types[j].parts[k], k) : k \in DOMAIN types[j].parts}]
        data(name, place, type) == [is |-> "data", name |-> name, place |-> place, type |-> type]
    IN [Pdb EXCEPT
           !.types = FlattenSeq([j \in 1..n |-> Emitted(types, f, through, split, j)])
                     \o <<[is |-> "class", name |-> 0, forward |-> TRUE, bytes |-> 0, list |-> None,
                           fact |-> Unknown]>>,
           !.globals = [j \in 1..n |->
                           data(j, <<1, 4>>, IF types[j].is = "aggregate" /\ through
                                             THEN Before(types, j) + 1 ELSE Defined(types, j))]
                       \o <<data(7, <<9, 0>>, 1), data(8, <<1, 0>>, last)>>,
           !.truth = [type \in {Defined(types, j) : j \in aggregates} |->
                         truth(CHOOSE j \in aggregates : Defined(types, j) = type)],
           !.truthOfVariables = {[name |-> j, address |-> 28, size |-> f[j].size] : j \in 1..n},
           !.declared = {0}]

Programs ==
    {<<first, second, third, fourth>> :
        first \in {Scalar(2), Pointer},
        second \in {Aggregate(<<>>), Aggregate(<<Part("static", 1)>>), Const(1), EnumOf(1), ArrayOf(1, 3)},
        third \in {Aggregate(<<Part("plain", 2), Part(how, 1)>>) : how \in {"plain", "static", "bits"}}
                  \cup {Aggregate(<<Vfptr>>), Aggregate(<<Vfptr, Part("plain", 2)>>), Aggregate(<<Part("static", 2)>>), Const(2)},
        fourth \in {Aggregate(<<Part("plain", 1), Part("plain", 3), Part("plain", 2)>>), ArrayOf(3, 2)}}

\* The second and third type as bases; a class lists all its virtual bases, its bases' last.
Derived ==
    {<<Scalar(size), Aggregate(fields), Aggregate(<<Part(first, 2)>> \o more),
       Aggregate(<<Part(second, 3)>> \o (IF first = "direct" THEN <<Part("indirect", 2)>> ELSE <<>>)
                 \o <<Part("plain", 1)>>),
       Aggregate(<<Part("plain", 4), Part("plain", 3)>>),
       Aggregate(<<Part("base", 3)>> \o (IF first = "direct" THEN <<Part("indirect", 2)>> ELSE <<>>))>> :
        size \in {2, 8}, fields \in {<<>>, <<Part("plain", 1)>>},
        more \in {<<>>, <<Part("static", 1)>>, <<Part("plain", 2)>>},
        first \in {"base", "direct"}, second \in {"base", "direct"}}

WellFormed ==
    {Compiled(types, through, split) : types \in Programs \cup Derived, through \in BOOLEAN, split \in BOOLEAN}

-----------------------------------------------------------------------------
(* Malformed type records: a member of a type that is not there, cannot be *)
(* parsed, is a qualifier of itself, or holds itself.                      *)
Holder(rest) ==
    LET field == [is |-> "member", offset |-> 0, type |-> 3]
    IN <<[is |-> "fields", fields |-> <<field>>, next |-> None, all |-> <<field>>, pieces |-> 1],
         [is |-> "class", name |-> 1, forward |-> FALSE, bytes |-> 4, list |-> 1,
          fact |-> [Unknown EXCEPT !.size = 4]]>> \o rest

Endless ==
    {[Pdb EXCEPT !.types = Holder(endless[1]), !.globals = <<[is |-> "data", name |-> 1, place |-> <<1, 0>>, type |-> 2]>>,
                 !.truth = [type \in {2} |->
                     [bytes |-> 4, virtualBases |-> FALSE,
                      entries |-> {[at |-> 1, what |-> "field", offset |-> 0, size |-> endless[2], align |-> 1,
                                    empty |-> FALSE, hidden |-> TRUE, raised |-> FALSE]}]],
                 !.truthOfVariables = {[name |-> 1, address |-> 24, size |-> 4]}] :
        endless \in {<< <<>>, 0>>, << <<[is |-> "broken"]>>, 0>>,
                     << <<[is |-> "modifier", of |-> 3, fact |-> Unknown]>>, 0>>,
                     << <<[is |-> "enum", of |-> 3, fact |-> Unknown]>>, 0>>,
                     << <<[is |-> "array", of |-> 3, bytes |-> 2, fact |-> [Unknown EXCEPT !.size = 2]]>>, 16>>}}

Damaged ==
    {[Pdb EXCEPT !.status = status] : status \in {"NotFound", "Malformed"}}
    \cup {[Pdb EXCEPT !.typesBroken = TRUE], [Pdb EXCEPT !.debugAge = 2]}

-----------------------------------------------------------------------------
(* Symbols: two modules and a global stream, in every combination.         *)
Procedure1(name, place, length) ==
    [is |-> "procedure", name |-> name, place |-> place, length |-> length, global |-> name = 1]
Public(name, place, function) == [is |-> "public", name |-> name, place |-> place, function |-> function]
Other == [is |-> "other"]
Unreadable == [is |-> "broken"]

Procedures == {Procedure1(1, <<1, 0>>, 4), Procedure1(2, <<1, 0>>, 6), Procedure1(3, <<1, 4>>, 0),
               Procedure1(4, <<9, 0>>, 2), Other}

Modules == {None, <<>>, <<Unreadable>>} \cup {<<p>> : p \in Procedures} \cup {<<p, q>> : p, q \in Procedures}

Globals == {<<Unreadable>>} \cup
    UNION {[1..n -> {Public(1, <<1, 0>>, TRUE), Public(5, <<1, 0>>, FALSE), Public(6, <<2, 0>>, FALSE),
                     Public(7, <<9, 0>>, TRUE), Other}] : n \in 0..2}

Linked == {[Pdb EXCEPT !.modules = <<first, second>>, !.globals = globals] :
              first \in Modules, second \in {None, <<Unreadable>>} \cup {<<p>> : p \in Procedures}, globals \in Globals}

MCPdbs == WellFormed \cup Endless \cup Damaged \cup Linked

\* All of these are as a compiler writes them, or tell nothing.
MCInit == PdbInit /\ Assert(Written, "not as a compiler writes them")

MCSpec == MCInit /\ [][PdbNext]_pdbVars
=============================================================================
