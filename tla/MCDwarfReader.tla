--------------------------- MODULE MCDwarfReader ---------------------------
(***************************************************************************)
(* Debug info as compilers write it.  A program is a sequence of types,    *)
(* each built from earlier ones; it is laid out and written to units in    *)
(* each of the ways in which one entry can refer to another.  Beside these *)
(* there are units with all shapes of scopes, and malformed ones.          *)
(***************************************************************************)
EXTENDS DwarfWritten, SequencesExt

AddressSize == 4
Names == <<"A", "B", "C", "D", "E">>

Plain ==
    [depth |-> 1, tag |-> "base", name |-> None, declaration |-> FALSE, signature |-> None,
     type |-> None, byteSize |-> None, alignment |-> None, count |-> None, upper |-> None,
     lower |-> None, location |-> None, bitSize |-> None, dataBitOffset |-> None,
     bitOffset |-> None, artificial |-> FALSE, virtual |-> FALSE, ranges |-> <<>>, address |-> None,
     fact |-> None]

Root == [depth |-> 0, tag |-> "unit"] @@ Plain

Unit(entries, signature, typeEntry) ==
    [entries |-> entries, broken |-> None, signature |-> signature, typeEntry |-> typeEntry]

\* Functions consist of no pieces if nothing else is said.
Debug(units, endian, truth, truthOfVariables) ==
    LET dies      == UNION {{<<u, p>> : p \in DOMAIN units[u].entries} : u \in DOMAIN units}
        entry(d)  == units[d[1]].entries[d[2]]
        functions == {d \in dies : entry(d).tag = "subprogram" /\ ~entry(d).declaration}
    IN [units |-> units, addressSize |-> AddressSize, endian |-> endian, finalAddresses |-> TRUE,
        truth |-> truth, truthOfVariables |-> truthOfVariables,
        truthOfFunctions |-> [d \in functions |-> <<>>]]

NoTruth == [die \in {} |-> None]

-----------------------------------------------------------------------------
(* Programs.  The parts of an aggregate come in their order in memory.     *)
Scalar(size) == [is |-> "scalar", size |-> size]
Pointer == [is |-> "pointer"]
Const(of) == [is |-> "const", of |-> of]
ArrayOf(of, dims) == [is |-> "array", of |-> of, dims |-> dims]
Aggregate(bases, fields) ==
    [is |-> "aggregate",
     parts |-> (IF \E k \in DOMAIN bases : bases[k].is = "virtual" THEN <<[is |-> "vptr"]>> ELSE <<>>)
               \o bases \o fields]

Part(is, of) == [is |-> is, of |-> of]
Bitfields == {"new", "old", "older"}

RoundUp(n, a) == ((n + a - 1) \div a) * a

PartFacts(f, part) ==
    CASE part.is = "vptr" -> [size |-> AddressSize, align |-> AddressSize]
      [] part.is = "static" -> [size |-> 0, align |-> 1]
      [] part.is \in {"base", "virtual"} ->
            [size |-> IF f[part.of].empty THEN 0 ELSE f[part.of].size, align |-> f[part.of].align]
      [] OTHER -> [size |-> f[part.of].size, align |-> f[part.of].align]

Starts(f, parts) ==
    LET place(starts, k) ==
            LET previous == parts[k - 1]
            IN Append(starts, IF k = 1 THEN 0
                              ELSE RoundUp(starts[k - 1] + PartFacts(f, previous).size, PartFacts(f, parts[k]).align))
    IN FoldLeft(place, <<>>, [k \in DOMAIN parts |-> k])

AggregateFacts(f, parts) ==
    LET align == Max({1} \cup {PartFacts(f, parts[k]).align : k \in DOMAIN parts})
        n     == Len(parts)
        end   == IF n = 0 THEN 0 ELSE Starts(f, parts)[n] + PartFacts(f, parts[n]).size
    IN [size |-> Max({1, RoundUp(end, align)}), align |-> align, counts |-> <<>>,
        empty |-> \A k \in DOMAIN parts :
                     parts[k].is = "static" \/ (parts[k].is = "base" /\ f[parts[k].of].empty),
        virtual |-> \E k \in DOMAIN parts :
                       parts[k].is = "virtual" \/ (parts[k].is = "base" /\ f[parts[k].of].virtual)]

\* Size and alignment of each type, whether it is empty, and has virtual bases.
TypeFacts(f, t) ==
    LET plain(size, align, counts) ==
            [size |-> size, align |-> align, empty |-> FALSE, virtual |-> FALSE, counts |-> counts]
    IN CASE t.is = "scalar" -> plain(t.size, t.size, <<>>)
         [] t.is = "pointer" -> plain(AddressSize, AddressSize, <<>>)
         [] t.is = "const" -> [f[t.of] EXCEPT !.counts = <<>>]
         [] t.is = "array" -> plain(FoldLeft(LAMBDA n, d : n * d, f[t.of].size, t.dims), f[t.of].align, t.dims)
         [] t.is = "aggregate" -> AggregateFacts(f, t.parts)

Facts(types) == FoldLeft(LAMBDA f, t : Append(f, TypeFacts(f, t)), <<>>, types)

-----------------------------------------------------------------------------
(* Units.  plan[u][j]: how type j is present in unit u.                    *)
Length(t, how) ==
    CASE how = "absent" -> 0
      [] how = "real" /\ t.is = "aggregate" -> 1 + Len(t.parts)
      [] how = "real" /\ t.is = "array" -> 1 + Len(t.dims)
      [] OTHER -> 1

Position(types, plan, u, j) == 2 + MapThenSumSet(LAMBDA k : Length(types[k], plan[u][k]), 1..(j - 1))

Ref(types, plan, direct, u, j) ==
    LET home == CHOOSE v \in DOMAIN plan : plan[v][j] = "real"
        real == IF plan[u][j] = "real" THEN u ELSE home
        there == [means |-> <<real, Position(types, plan, real, j)>>]
    IN there @@ (IF direct /\ types[j].is = "aggregate" THEN [form |-> "signature", to |-> j]
                 ELSE IF plan[u][j] # "absent" THEN [form |-> "unit", to |-> Position(types, plan, u, j)]
                 ELSE [form |-> "info", unit |-> home, to |-> Position(types, plan, home, j)])

PartEntry(part, start, ref, size, endian) ==
    LET location == [location |-> start]
        field == [tag |-> "member", depth |-> 2, type |-> ref]
        bits  == [bitSize |-> 2, bitOffset |-> IF endian = "big" THEN 3 ELSE size * 8 - 5]
    IN (CASE part.is = "vptr" -> [tag |-> "member", depth |-> 2, name |-> "_vptr", artificial |-> TRUE] @@ location
          [] part.is = "base" -> [tag |-> "inheritance", depth |-> 2, type |-> ref] @@ location
          [] part.is = "virtual" -> [tag |-> "inheritance", depth |-> 2, type |-> ref, virtual |-> TRUE]
          [] part.is = "static" -> [declaration |-> TRUE] @@ field
          [] part.is = "new" -> [bitSize |-> 2, dataBitOffset |-> start * 8 + 3] @@ field
          [] part.is = "old" -> bits @@ location @@ field @@ [byteSize |-> size]
          [] part.is = "older" -> bits @@ location @@ field
          [] OTHER -> location @@ field) @@ Plain

Dimension(k, n) ==
    (CASE k = 1 -> [count |-> n] [] k = 2 -> [upper |-> n - 1] [] OTHER -> [lower |-> 1, upper |-> n])
    @@ [tag |-> "subrange", depth |-> 2] @@ Plain

Emitted(types, f, plan, direct, endian, u, j) ==
    LET t == types[j]
        ref(of) == Ref(types, plan, direct, u, of)
        part(k) ==
            LET p == t.parts[k]
            IN PartEntry(p, Starts(f, t.parts)[k], IF p.is = "vptr" THEN None ELSE ref(p.of),
                         IF p.is = "vptr" THEN None ELSE f[p.of].size, endian)
        products == [k \in 1..Len(f[j].counts) |-> FoldLeft(LAMBDA n, d : n * d, 1, SubSeq(f[j].counts, 1, k))]
        type == [fact |-> [steps |-> j, products |-> products] @@ f[j]] @@ Plain
    IN CASE plan[u][j] = "absent" -> <<>>
         [] plan[u][j] = "stub" -> <<[tag |-> "structure", declaration |-> TRUE, signature |-> j] @@ Plain>>
         [] t.is = "scalar" -> <<[byteSize |-> t.size] @@ type>>
         [] t.is = "pointer" -> <<[tag |-> "pointer"] @@ type>>
         [] t.is = "const" -> <<[tag |-> "const", type |-> ref(t.of)] @@ type>>
         [] t.is = "array" -> <<[tag |-> "array", type |-> ref(t.of)] @@ type>>
                              \o [k \in DOMAIN t.dims |-> Dimension(k, t.dims[k])]
         [] OTHER -> <<[tag |-> "structure", name |-> Names[j], byteSize |-> f[j].size] @@ type>>
                     \o [k \in DOMAIN t.parts |-> part(k)]

\* Variables of each type, and others without an address, at none, defined elsewhere, or of
\* a type that is not there.
VariablesOf(types, plan, direct) ==
    LET variable(j) == [tag |-> "variable", address |-> 16 * j, type |-> Ref(types, plan, direct, 1, j)] @@ Plain
    IN [j \in DOMAIN types |-> variable(j)]
       \o <<[address |-> None] @@ variable(1), [address |-> 0] @@ variable(1),
            [declaration |-> TRUE] @@ variable(1),
            [type |-> [form |-> "unit", to |-> 99, means |-> None]] @@ variable(1)>>

PartTruth(f, starts, position, part, k) ==
    [at |-> position, offset |-> IF part.is = "virtual" THEN None
                           ELSE starts[k] * 8 + (IF part.is \in Bitfields THEN 3 ELSE 0),
     size |-> IF part.is = "vptr" THEN AddressSize * 8
              ELSE IF part.is \in Bitfields THEN 2 ELSE f[part.of].size * 8,
     bitfield |-> part.is \in Bitfields,
     align |-> IF part.is = "vptr" THEN AddressSize ELSE f[part.of].align,
     empty |-> part.is # "vptr" /\ f[part.of].empty]

Compiled(types, plan, direct, endian) ==
    LET f == Facts(types)
        n == Len(types)
        written(u) ==
            <<Root>> \o FlattenSeq([j \in 1..n |-> Emitted(types, f, plan, direct, endian, u, j)])
            \o IF u = 1 THEN VariablesOf(types, plan, direct) ELSE <<>>
        own(u) == {j \in 1..n : plan[u][j] = "real" /\ types[j].is = "aggregate"}
        signed(u) == u > 1 /\ \E j \in 1..n : plan[1][j] \in {"stub", "absent"} /\ own(u) = {j}
        the(u) == CHOOSE j \in own(u) : TRUE
        truth(u, j) ==
            LET parts == types[j].parts
            IN [virtualBases |-> f[j].virtual,
                entries |-> {PartTruth(f, Starts(f, parts), Position(types, plan, u, j) + k, parts[k], k) :
                                k \in {k \in DOMAIN parts : parts[k].is # "static"}}]
        dies == {<<u, j>> \in (DOMAIN plan) \X (1..n) : j \in own(u)}
        where(d) == <<d[1], Position(types, plan, d[1], d[2])>>
        after == Position(types, plan, 1, n + 1)
    IN Debug([u \in DOMAIN plan |->
                 IF signed(u) THEN Unit(written(u), the(u), Position(types, plan, u, the(u)))
                 ELSE Unit(written(u), None, None)],
             endian,
             [die \in {where(d) : d \in dies} |->
                 LET d == CHOOSE d \in dies : where(d) = die IN truth(d[1], d[2])],
             {<< <<1, after + j - 1>>, f[j].size>> : j \in 1..n})

Together(types) == <<[j \in DOMAIN types |-> "real"]>>

\* Link-time optimisation leaves references across units.
Apart(types) == [u \in 1..2 |-> [j \in DOMAIN types |-> IF j % 2 = u % 2 THEN "real" ELSE "absent"]]

\* Each aggregate in a type unit of its own, with all that it needs; stubs elsewhere.
TypeUnits(types) ==
    LET aggregates == SetToSortSeq({j \in DOMAIN types : types[j].is = "aggregate"}, <)
    IN [u \in 1..(1 + Len(aggregates)) |->
           [j \in DOMAIN types |->
               IF types[j].is # "aggregate" THEN "real"
               ELSE IF u > 1 /\ aggregates[u - 1] = j THEN "real" ELSE "stub"]]

Programs ==
    {<<first, second, third, fourth>> :
        first \in {Scalar(2), Pointer},
        second \in {Aggregate(<<>>, <<>>), Aggregate(<<>>, <<Part("static", 1)>>),
                    Const(1), ArrayOf(1, <<2, 3, 2>>)},
        third \in {Aggregate(<<>>, <<Part("plain", 2), Part(how, 1)>>) : how \in {"plain", "static"} \cup Bitfields}
                  \cup {Aggregate(<<>>, <<Part("static", 2)>>), Const(2)},
        fourth \in {Aggregate(<<>>, <<Part("plain", 1), Part("plain", 3)>>), ArrayOf(3, <<2>>)}}

\* The second and third type as bases, where they are aggregates.
Derived ==
    {<<Scalar(2), Aggregate(<<>>, fields), Aggregate(<<Part(first, 2)>>, more),
       Aggregate(<<Part(second, 3)>>, <<Part("plain", 1)>>), Aggregate(<<Part("base", 4)>>, <<Part("plain", 3)>>)>> :
        fields \in {<<>>, <<Part("plain", 1)>>}, more \in {<<>>, <<Part("static", 1)>>, <<Part("plain", 2)>>},
        first \in {"base", "virtual"}, second \in {"base", "virtual"}}

HasBitfields(types) ==
    \E j \in DOMAIN types : types[j].is = "aggregate"
        /\ \E k \in DOMAIN types[j].parts : types[j].parts[k].is \in Bitfields

WellFormed ==
    UNION {{Compiled(types, Together(types), FALSE, endian) :
               endian \in IF HasBitfields(types) THEN {"little", "big"} ELSE {"little"}}
           \cup {Compiled(types, Apart(types), FALSE, "little"),
                 Compiled(types, TypeUnits(types), FALSE, "little"),
                 Compiled(types, TypeUnits(types), TRUE, "little")} :
           types \in Programs \cup Derived}

-----------------------------------------------------------------------------
(* Scopes: three entries in every shape, of every kind, beside a unit with *)
(* a complete type of the same name.                                       *)
Shapes == {<<1, d2, d3>> : d2 \in 1..2, d3 \in 1..3} \ {<<1, 1, 3>>}

ScopeKinds ==
    {[tag |-> "namespace", name |-> "n"], [tag |-> "namespace"], [tag |-> "subprogram"],
     [tag |-> "structure", name |-> "T"], [tag |-> "class"],
     [tag |-> "structure", name |-> "T", declaration |-> TRUE]}

Scoped ==
    {Debug(<<Unit(<<Root>> \o [k \in 1..3 |-> kinds[k] @@ [depth |-> shape[k]] @@ Plain], None, None)>> \o more,
           "little", NoTruth, {}) :
        shape \in Shapes, kinds \in [1..3 -> ScopeKinds],
        more \in {<<>>, <<Unit(<<Root, [tag |-> "union", name |-> "T"] @@ Plain>>, None, None)>>}}

\* A nested type in a type unit, within a nameless stub of the type around it.
Nested ==
    {Debug(<<Unit(<<Root, [tag |-> "structure", declaration |-> TRUE, signature |-> signature] @@ Plain,
                    [tag |-> "structure", name |-> "T", depth |-> 2] @@ Plain>>, "inner", 3),
             Unit(<<Root, [tag |-> "structure", name |-> "Outer"] @@ Plain>>, "outer", 2)>>,
           "little", NoTruth, {}) : signature \in {"outer", "lost"}}

-----------------------------------------------------------------------------
(* Malformed units, and functions.                                         *)
To(p) == [form |-> "unit", to |-> p, means |-> <<1, p>>]
Nowhere == [form |-> "unit", to |-> 9, means |-> None]

\* What is known of a type that is made of itself.
Unknown(size, counts) ==
    [size |-> size, align |-> None, empty |-> FALSE, virtual |-> FALSE, steps |-> 0,
     counts |-> counts, products |-> counts]

Holder(rest) ==
    <<Root,
      [tag |-> "structure", name |-> "A", byteSize |-> 4, fact |-> [Unknown(4, <<>>) EXCEPT !.steps = 1]] @@ Plain,
      [tag |-> "member", depth |-> 2, location |-> 0,
       type |-> IF rest = <<>> THEN Nowhere ELSE To(4)] @@ Plain>> \o rest

\* A member of a type that is not there, that is a qualifier of itself, that goes in a
\* circle through an array, or that derives from itself.
Endless ==
    {Debug(<<Unit(Holder(rest), None, None)>>, "little",
           [die \in {<<1, 2>>} |->
               [virtualBases |-> FALSE,
                entries |-> {[at |-> 3, offset |-> 0, size |-> size, bitfield |-> FALSE, align |-> None,
                              empty |-> FALSE]}]], {}) :
        <<rest, size>> \in
            {<< <<>>, 0>>,
             << <<[tag |-> "const", type |-> To(4), fact |-> Unknown(None, <<>>)] @@ Plain>>, 0>>,
             << <<[tag |-> "array", type |-> To(6), fact |-> Unknown(None, <<2>>)] @@ Plain, Dimension(1, 2),
                  [tag |-> "typedef", type |-> To(4), fact |-> Unknown(None, <<>>)] @@ Plain>>, 0>>,
             << <<[tag |-> "structure", byteSize |-> 1, fact |-> Unknown(1, <<>>)] @@ Plain,
                  [tag |-> "inheritance", depth |-> 2, location |-> 0, type |-> To(4)] @@ Plain>>, 8>>}}

Broken ==
    {[Debug(<<Unit(Holder(<<>>), None, None), Unit(Holder(<<>>), None, None)>>, "little", NoTruth, {})
        EXCEPT !.units[u].broken = p, !.units[u].entries[p].fact = None] : u \in 1..2, p \in 1..3}

\* Pieces of functions: kept, up to the last address that is one; and discarded, with any of
\* the addresses that are none, behind which the end may wrap, or with both ends alike.
InImage(start, size) == [start |-> start, size |-> size, kept |-> TRUE, range |-> <<start, start + size>>]
Discarded(size, range) == [start |-> 4, size |-> size, kept |-> FALSE, range |-> range]

Pieces ==
    {InImage(4, 4), InImage(Word - 3, 2)}
    \cup {Discarded(5, <<start, (start + 5) % Word>>) : start \in {0, Word - 2, Word - 1}}
    \cup {Discarded(1, <<Word - 2, Word - 1>>)}
    \cup {Discarded(5, <<none, none>>) : none \in {0, 1, 4}}
    \cup {Discarded(5, <<8, 4>>)}

Function(pieces) ==
    [tag |-> "subprogram", ranges |-> [k \in DOMAIN pieces |-> pieces[k].range]] @@ Plain

WithFunctions ==
    {[Debug(<<Unit(<<Root, Function(<<first, second>>), [declaration |-> TRUE] @@ Function(<<first>>)>>, None, None),
              Unit(<<Root, Function(<<third>>)>>, None, None)>>,
            "little", NoTruth, {})
        EXCEPT !.finalAddresses = final,
               !.truthOfFunctions[<<1, 2>>] = <<first, second>>, !.truthOfFunctions[<<2, 2>>] = <<third>>] :
        first \in Pieces, second \in Pieces, third \in Pieces, final \in BOOLEAN}

MCDebugs == WellFormed \cup Scoped \cup Nested \cup Endless \cup Broken \cup WithFunctions

\* All of these are as a compiler writes them, or cannot be known.
MCInit == ReaderInit /\ Assert(Written, "not as a compiler writes them")

MCSpec == MCInit /\ [][Next]_vars
=============================================================================
