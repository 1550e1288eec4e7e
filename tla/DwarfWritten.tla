---------------------------- MODULE DwarfWritten ----------------------------
(***************************************************************************)
(* Units as a compiler writes them, entry by entry: what an entry that     *)
(* describes a type, a part of one, a function or a variable has to say    *)
(* about it, and in which of the ways that DWARF has for it.               *)
(*                                                                         *)
(* What the compiler knows stands beside what it writes and is read by no  *)
(* operator of the reader: in the entry of a complete type, fact is its    *)
(* [size, align, empty, virtual, steps, counts, products]; in a reference, *)
(* means is the entry of the type that is meant.  None stands for what     *)
(* cannot be known, because a reference leads nowhere or in a circle;      *)
(* what is known rests on fewer steps to other types than MaxDepth.        *)
(***************************************************************************)
EXTENDS DwarfReader

Types == {die \in AllDies : Entry(die).fact # None}
Fact(die) == Entry(die).fact
Meant(die) == IF Entry(die).type = None THEN None ELSE Entry(die).type.means

SizeOf(to) == IF to = None THEN None ELSE Fact(to).size
AlignOf(to) == IF to = None THEN None ELSE Fact(to).align
IsEmpty(to) == to # None /\ Fact(to).empty
IsVirtual(to) == to # None /\ Fact(to).virtual

Readable(die) == die \in AllDies /\ die[2] # debug.units[die[1]].broken

\* No two type units have one signature: linkers keep one of each.
SignedAs(signature, die) ==
    /\ debug.units[die[1]].signature = signature /\ debug.units[die[1]].typeEntry = die[2]
    /\ \A u \in DOMAIN debug.units : debug.units[u].signature = signature => u = die[1]

\* A reference is a position in this unit or in another one, at which there is the type
\* or a stub with its signature; or the signature itself.
ReferenceWritten(die) ==
    LET ref   == Entry(die).type
        there == <<IF ref.form = "unit" THEN die[1] ELSE ref.unit, ref.to>>
    IN  /\ Meant(die) \in Maybe(Types)
        /\ ref # None =>
              \/ ref.form # "signature" /\ there \notin AllDies /\ Meant(die) = None
              \/ ref.form # "signature" /\ Meant(die) # None /\ there = Meant(die)
              \/ /\ ref.form # "signature" /\ Readable(there) /\ Meant(die) # None
                 /\ Entry(there).declaration /\ Entry(there).signature # None
                 /\ SignedAs(Entry(there).signature, Meant(die))
              \/ ref.form = "signature" /\ Meant(die) # None /\ SignedAs(ref.to, Meant(die))

-----------------------------------------------------------------------------
(* Types.                                                                  *)

\* The parts that take room in an object.
Parts(die) == {c \in OfTag(Children(die), {"member", "inheritance"}) : ~Entry(c).declaration}
Bases(die) == OfTag(Parts(die), {"inheritance"})

\* The dimensions of an array, in their order, and the products of the first of them.
CountWritten(entry, count) ==
    \/ count # None /\ entry.count = count
    \/ /\ count \notin {None, 0} /\ entry.count = None /\ entry.upper # None
       /\ entry.upper + 1 = Or(entry.lower, 0) + count
    \/ count = None /\ entry.count = None /\ entry.upper = None

DimensionsWritten(die) ==
    LET ranges   == InOrder({c[2] : c \in OfTag(Children(die), {"subrange"})})
        counts   == Fact(die).counts
        products == Fact(die).products
    IN  /\ ranges # <<>> /\ DOMAIN counts = DOMAIN ranges /\ DOMAIN products = DOMAIN ranges
        /\ \A k \in DOMAIN ranges :
              /\ counts[k] \in Maybe(0..(Word - 1)) /\ products[k] \in Maybe(0..(Word - 1))
              /\ CountWritten(Entry(<<die[1], ranges[k]>>), counts[k])
              /\ products[k] = IF k = 1 THEN counts[1]
                               ELSE IF products[k - 1] = None \/ counts[k] = None THEN None
                               ELSE products[k - 1] * counts[k]

\* How many elements an array has.
Elements(die) == Fact(die).products[Len(Fact(die).products)]

PartAlign(c) == IF Entry(c).artificial THEN debug.addressSize ELSE AlignOf(Meant(c))

ScalarWritten(die) ==
    /\ Fact(die).size \in 1..16 /\ Entry(die).byteSize = Fact(die).size
    /\ Fact(die).align = Fact(die).size /\ ~Fact(die).empty /\ ~Fact(die).virtual

PointerWritten(die) ==
    /\ Entry(die).byteSize \in {None, debug.addressSize}
    /\ Fact(die).size = debug.addressSize /\ Fact(die).align = debug.addressSize
    /\ ~Fact(die).empty /\ ~Fact(die).virtual

QualifierWritten(die) ==
    /\ ReferenceWritten(die) /\ Entry(die).byteSize = None
    /\ Fact(die).size = SizeOf(Meant(die))
    /\ Entry(die).alignment = None => Fact(die).align = AlignOf(Meant(die))
    /\ Fact(die).empty = IsEmpty(Meant(die)) /\ Fact(die).virtual = IsVirtual(Meant(die))

ArrayWritten(die) ==
    /\ ReferenceWritten(die) /\ Entry(die).byteSize = None /\ DimensionsWritten(die)
    /\ Fact(die).size = IF SizeOf(Meant(die)) = None \/ Elements(die) = None THEN None
                        ELSE SizeOf(Meant(die)) * Elements(die)
    /\ Entry(die).alignment = None => Fact(die).align = AlignOf(Meant(die))
    /\ ~Fact(die).empty /\ ~Fact(die).virtual

\* A base is a class, of which a typedef hides whether it has virtual bases.
PartWritten(c) ==
    \/ Entry(c).tag = "member" /\ Entry(c).artificial /\ Entry(c).name = "_vptr"
    \/ Entry(c).tag = "member" /\ ~Entry(c).artificial /\ Entry(c).type # None /\ ReferenceWritten(c)
    \/ /\ Entry(c).tag = "inheritance" /\ ~Entry(c).artificial /\ Entry(c).type # None /\ ReferenceWritten(c)
       /\ IsVirtual(Meant(c)) => Entry(Meant(c)).tag \in AggregateTags

AggregateWritten(die) ==
    LET aligns == {PartAlign(c) : c \in Parts(die)}
    IN  /\ \A c \in Parts(die) : PartWritten(c)
        /\ \A c \in OfTag(Children(die), {"member"}) : Entry(c).declaration => IsStatic(Entry(c))
        /\ \A c \in OfTag(Children(die), {"inheritance"}) : ~Entry(c).declaration
        /\ Entry(die).byteSize # None /\ Fact(die).size = Entry(die).byteSize
        /\ Entry(die).alignment = None =>
              Fact(die).align = IF None \in aligns THEN None ELSE Max(aligns \cup {1})
        /\ Fact(die).empty = /\ Entry(die).tag # "union" /\ OfTag(Parts(die), {"member"}) = {}
                             /\ \A c \in Bases(die) : ~Entry(c).virtual /\ IsEmpty(Meant(c))
        /\ Fact(die).virtual = \E c \in Bases(die) : Entry(c).virtual \/ IsVirtual(Meant(c))

\* The types that a type is made of; what it points to is none of them.
MadeOf(die) ==
    (IF Entry(die).tag \in QualifierTags \cup {"array"} THEN {Meant(die)}
     ELSE IF Entry(die).tag \in AggregateTags THEN {Meant(c) : c \in {c \in Parts(die) : ~Entry(c).artificial}}
     ELSE {}) \ {None}

TypeWritten(die) ==
    /\ Readable(die) /\ ~Entry(die).declaration
    /\ Fact(die).steps \in 0..MaxDepth
    /\ Fact(die).size \in Maybe(0..(Word - 1)) /\ Fact(die).align \in Maybe(0..(Word - 1))
    /\ Entry(die).alignment # None => Fact(die).align = Entry(die).alignment
    /\ Entry(die).tag \notin AggregateTags => OfTag(Children(die), {"inheritance"}) = {}
    /\ \/ Entry(die).tag \in {"base", "enumeration"} /\ ScalarWritten(die)
       \/ Entry(die).tag \in PointerTags /\ PointerWritten(die)
       \/ Entry(die).tag \in QualifierTags /\ QualifierWritten(die)
       \/ Entry(die).tag = "array" /\ ArrayWritten(die)
       \/ Entry(die).tag \in AggregateTags /\ AggregateWritten(die)
    /\ \/ Entry(die).byteSize = None /\ Fact(die).size # None
       \/ Fact(die).align # None \/ Fact(die).empty \/ Fact(die).virtual
       => \A to \in MadeOf(die) : Fact(to).steps < Fact(die).steps

-----------------------------------------------------------------------------
(* Members, bases and bit-fields, variables and functions.                 *)
Storage(c) == Or(Entry(c).byteSize, Or(SizeOf(Meant(c)), 0))

\* The three encodings of a bit-field: where it starts, or, before DWARF 4, how far from
\* the highest bit of its storage unit, which is as large as its type if not said.
BitsWritten(c, real) ==
    LET entry == Entry(c)
        start == 8 * Or(entry.location, 0)
        end   == start + 8 * Storage(c)
        skip  == Or(entry.bitOffset, 0)
    IN  \/ entry.dataBitOffset # None /\ entry.dataBitOffset = real.offset
        \/ /\ entry.dataBitOffset = None
           /\ real.offset # None /\ end < Word /\ start + skip + real.size <= end
           /\ IF debug.endian = "big" THEN real.offset = start + skip
              ELSE real.offset + real.size + skip = end

PlacedAt(c, real) ==
    LET entry == Entry(c)
    IN  \/ /\ entry.artificial /\ ~real.bitfield
           /\ real.offset = 8 * Or(entry.location, 0) /\ real.size = 8 * debug.addressSize
        \/ /\ ~entry.artificial /\ ~real.bitfield /\ entry.bitSize = None
           /\ real.offset = IF entry.tag = "inheritance" /\ entry.location = None THEN None
                            ELSE 8 * Or(entry.location, 0)
           /\ real.size = 8 * Or(SizeOf(Meant(c)), 0)
           /\ entry.tag = "member" => real.align = AlignOf(Meant(c)) /\ real.empty = IsEmpty(Meant(c))
        \/ /\ ~entry.artificial /\ real.bitfield /\ entry.tag = "member"
           /\ entry.bitSize # None /\ entry.bitSize = real.size /\ BitsWritten(c, real)

LayoutWritten(die) ==
    LET truth == debug.truth[die]
    IN  /\ die \in Types /\ Entry(die).tag \in AggregateTags
        /\ truth.virtualBases = Fact(die).virtual
        /\ {real.at : real \in truth.entries} = {c[2] : c \in Parts(die)}
        /\ \A real \in truth.entries :
              /\ real.offset \in Maybe(0..(Word - 1)) /\ real.size \in 0..(Word - 1)
              /\ real.bitfield \in BOOLEAN
              /\ PlacedAt(<<die[1], real.at>>, real)

\* A variable in the image has an address there; one that was discarded has none, or 0.
VariablesWritten ==
    LET variables == OfTag(AllDies, {"variable"})
        placed    == {die \in variables : ~Entry(die).declaration /\ Entry(die).address \notin {None, 0}}
    IN  /\ \A die \in variables : ReferenceWritten(die)
        /\ placed # {} => debug.addressSize \in {4, 8}
        /\ debug.truthOfVariables =
              {<<die, SizeOf(Meant(die))>> : die \in {die \in placed : SizeOf(Meant(die)) # None}}

\* What the linker leaves of a piece: where it starts and ends in the image; or, if nothing
\* of it is there, an address that is none with the piece's length behind it, or ends that
\* enclose nothing, such as 1 for both.
PieceWritten(piece, range) ==
    \/ /\ piece.kept /\ piece.size > 0
       /\ piece.start \in 1..(Word - 3) /\ piece.start + piece.size < Word
       /\ range = <<piece.start, piece.start + piece.size>>
    \/ ~piece.kept /\ range[1] \in {0, Word - 2, Word - 1} /\ range[2] = Wrap(range[1] + piece.size)
    \/ ~piece.kept /\ range[2] <= range[1]

FunctionsWritten ==
    LET functions == {die \in OfTag(AllDies, {"subprogram"}) : ~Entry(die).declaration}
    IN  /\ DOMAIN debug.truthOfFunctions = functions
        /\ \A die \in functions :
              LET pieces == debug.truthOfFunctions[die]
              IN  /\ DOMAIN pieces = DOMAIN Entry(die).ranges
                  /\ \A k \in DOMAIN pieces :
                        /\ pieces[k].kept \in BOOLEAN /\ pieces[k].size \in Nat
                        /\ PieceWritten(pieces[k], Entry(die).ranges[k])

Written ==
    /\ \A die \in Types : TypeWritten(die)
    /\ \A die \in DOMAIN debug.truth : LayoutWritten(die)
    /\ VariablesWritten
    /\ FunctionsWritten
=============================================================================
