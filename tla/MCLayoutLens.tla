---------------------------- MODULE MCLayoutLens ----------------------------
(* Small types, as compilers lay them out and as readers may list them.    *)
EXTENDS LayoutLens

MCPowersOfTwo == {1, 2, 4, 8}

Field(offset_, size, align) ==
    [kind |-> "Field", offset |-> offset_, size |-> size, align |-> align, empty |-> FALSE]
Empty(offset_) ==
    [kind |-> "Field", offset |-> offset_, size |-> 8, align |-> 1, empty |-> TRUE]
Other(kind, offset_, size) ==
    [kind |-> kind, offset |-> offset_, size |-> size, align |-> None, empty |-> FALSE]

Struct(bytes, alignment, entries) ==
    [union |-> FALSE, bytes |-> bytes, alignment |-> alignment, virtualBases |-> FALSE,
     entries |-> entries]

-----------------------------------------------------------------------------
(* Structs of plain members as a compiler lays them out.  A type is its    *)
(* alignment and size in bytes: char, short, int, char[3], short[2].       *)
Types    == {<<1, 1>>, <<2, 2>>, <<4, 4>>, <<1, 3>>, <<2, 4>>}
Flexible == {<<4, 0>>, <<1, 0>>}

NaturalOffsets(types) ==
    LET at[k \in 1..(Len(types) + 1)] ==
            LET end == IF k = 1 THEN 0 ELSE at[k - 1] + types[k - 1][2]
            IN IF k > Len(types) THEN end ELSE RoundUp(end, types[k][1])
    IN at

Natural(types, alignment) ==
    LET at == NaturalOffsets(types)
        align == Larger(Max({t[1] : t \in {types[k] : k \in DOMAIN types}}),
                        IF alignment = None THEN 1 ELSE alignment)
    IN Struct(RoundUp(at[Len(types) + 1], align), alignment,
              [k \in DOMAIN types |-> Field(at[k] * 8, types[k][2] * 8, types[k][1])])

NaturalRaws ==
    LET plain == UNION {[1..n -> Types] : n \in 1..4}
        ended == UNION {[1..n -> Types] : n \in 1..2}
    IN {Natural(types, None) : types \in plain}
       \cup {Natural(types, 8) : types \in ended}
       \cup {Natural(Append(types, last), None) : types \in ended, last \in Flexible}

-----------------------------------------------------------------------------
(* What readers list for packed structs, flattened unions, bit-fields,     *)
(* bases, empty members, unknown alignments and damaged headers.           *)
Pool ==
    {Field(0, 8, 1), Field(0, 32, 4), Field(32, 16, 2), Field(8, 8, None), Field(24, 16, 2),
     Empty(0), Field(480, 64, 8), Field(40, 0, 4), Other("Bitfield", 0, 3),
     Other("Bitfield", 3, 5), Other("Bitfield", 6, 6), Other("Base", 0, 8),
     Other("VirtualBase", None, 32), Other("VtablePtr", 0, 32)}

ListedEntries ==
    UNION {{f \in [1..n -> Pool] : \A k, l \in 1..n : f[k] = f[l] => k = l} : n \in 0..3}

HasVirtualBase(entries) == \E k \in DOMAIN entries : entries[k].kind = "VirtualBase"

ListedRaws ==
    {[Struct(8, None, entries) EXCEPT !.virtualBases = HasVirtualBase(entries)] :
        entries \in ListedEntries}
    \cup {[Struct(4, None, entries) EXCEPT !.union = TRUE] :
             entries \in {e \in ListedEntries : Len(e) <= 2}}

\* A size that is no multiple of its alignment (no_suggestion_when_preconditions_fail),
\* a class without members (Empty in fixtures/src), and a member whose end saturates in a
\* type whose size does.
OddRaws == {Struct(24, None, <<Field(0, 8, 1), Field(64, 72, 8), Field(144, 16, 2)>>),
            Struct(1, None, <<>>), Struct(64, None, <<Field(504, 16, 1)>>)}

MCRaws == NaturalRaws \cup {r \in ListedRaws : r.entries # <<>>} \cup OddRaws

-----------------------------------------------------------------------------
(* struct { char tag; union { int a; int b; }; char c; int e; char d; },   *)
(* with the union's members listed as the struct's own.                    *)
FlattenedUnion ==
    {r \in NaturalRaws : Len(r.entries) <= 3}
    \cup {Struct(20, None, <<Field(0, 8, 1), Field(32, 32, 4), Field(32, 32, 4),
                             Field(64, 8, 1), Field(96, 32, 4), Field(128, 8, 1)>>)}
=============================================================================
