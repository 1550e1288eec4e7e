----------------------------- MODULE PdbWritten -----------------------------
(***************************************************************************)
(* Type records as a compiler writes them, record by record: what one that *)
(* describes a type, or a field within one, has to say about it.           *)
(*                                                                         *)
(* What the compiler knows stands beside what it writes and is read by no  *)
(* operator of the reader.  In the record of a type, fact is its [size,    *)
(* align, empty, virtual, hidden, raised, steps]: hidden if the records do *)
(* not tell its alignment, raised if a virtual base in it is aligned for   *)
(* more than a pointer, and steps how far the types are of which it is     *)
(* made.  In a field list, all is the fields of the list and its           *)
(* continuations, and pieces how many lists these are.                     *)
(***************************************************************************)
EXTENDS PdbReader

TypeKinds == {"primitive", "pointer", "modifier", "enum", "array", "bitfield", "class", "union"}
Types == {i \in DOMAIN pdb.types : Is(Data(i), TypeKinds)}

\* Of what is not there, cannot be parsed, or is no type with a size, nothing is told.
Unknown == [size |-> None, align |-> 1, empty |-> FALSE, virtual |-> FALSE, hidden |-> TRUE,
            raised |-> FALSE, steps |-> 0]
Fact(i) == IF i \in Types THEN Data(i).fact ELSE Unknown

FactFits(fact) ==
    /\ fact.size \in Nat \cup {None} /\ fact.align \in Nat /\ fact.steps \in 0..MaxDepth
    /\ {fact.empty, fact.virtual, fact.hidden, fact.raised} \subseteq BOOLEAN

\* Something is told of a type that rests on the types of which it is made.
Told(fact) == ~fact.hidden \/ fact.empty

-----------------------------------------------------------------------------
(* Types.                                                                  *)

\* A list goes on where it says, for as many pieces as are followed.
ListWritten(list) ==
    LET next == Data(list).next
    IN /\ Data(list).pieces \in 1..MaxLists
       /\ Len(Data(list).all) \in Nat /\ DOMAIN Data(list).all = 1..Len(Data(list).all)
       /\ \/ next = None /\ Data(list).all = Data(list).fields
          \/ /\ next \in DOMAIN pdb.types /\ Is(Data(next), {"fields"})
             /\ Data(next).pieces < Data(list).pieces
             /\ Data(list).all = Data(list).fields \o Data(next).all

\* The fields of an aggregate, and those of them that take room in an object.
AllFields(type) == IF type.list = None THEN <<>> ELSE Data(type.list).all
Fields(type) == Range(AllFields(type))
Parts(type) == {field \in Fields(type) : field.is \in {"member", "base"}}

FieldAlign(field) ==
    IF field.is \in {"member", "base"} THEN Fact(field.type).align
    ELSE IF field.is = "virtual" THEN Max({pdb.addressSize, Fact(field.type).align})
    ELSE IF field.is = "vfptr" THEN pdb.addressSize ELSE 1

\* Primitive types are as large as they are aligned; void has no size.
PrimitiveWritten(i) ==
    /\ ~Fact(i).empty /\ ~Fact(i).raised /\ Fact(i).size = Data(i).bytes
    /\ \/ Data(i).bytes = None /\ Fact(i).hidden
       \/ Data(i).bytes \in 1..16 /\ ~Fact(i).hidden /\ Fact(i).align = Data(i).bytes

PointerWritten(i) ==
    /\ ~Fact(i).empty /\ ~Fact(i).raised /\ ~Fact(i).hidden
    /\ Fact(i).size = pdb.addressSize /\ Fact(i).align = pdb.addressSize

\* A modifier, an enumeration or an array is aligned as the type it is made of.
AlignedAs(i, of) ==
    Fact(i).align = Fact(of).align /\ Fact(i).hidden = Fact(of).hidden /\ Fact(i).raised = Fact(of).raised

DerivedWritten(i) ==
    LET type == Data(i)
    IN /\ \/ /\ type.is = "array" /\ Fact(i).size = type.bytes /\ AlignedAs(i, type.of)
          \/ /\ type.is \in {"modifier", "enum"} /\ Fact(i).size = Fact(type.of).size /\ AlignedAs(i, type.of)
          \/ /\ type.is = "bitfield" /\ Fact(i).size = Fact(type.of).size /\ Fact(i).hidden
       /\ Fact(i).empty = (type.is = "modifier" /\ Fact(type.of).empty)
       /\ Told(Fact(i)) \/ (Fact(i).size # None /\ type.is # "array") => Fact(type.of).steps < Fact(i).steps

\* The first definition of a name is the one that is meant where the name is used.
Named(name, i) ==
    /\ i \in Aggregates(FALSE) /\ Data(i).name = name
    /\ \A d \in Aggregates(FALSE) : Data(d).name = name => i <= d

\* An aggregate without fields has no list.  A class lists the virtual bases of its bases too.
DefinitionWritten(i) ==
    LET type  == Data(i)
        parts == Parts(type)
    IN /\ type.list = None \/ (type.list \in DOMAIN pdb.types /\ Is(Data(type.list), {"fields"}))
       /\ type.bytes # None /\ Fact(i).size = type.bytes
       /\ Fact(i).align = Max({FieldAlign(field) : field \in Fields(type)} \cup {1})
       /\ Fact(i).hidden = (type.list = None \/ \E field \in parts : Fact(field.type).hidden)
       /\ Fact(i).raised = \/ \E field \in parts : Fact(field.type).raised
                           \/ \E field \in Fields(type) :
                                 field.is = "virtual" /\ Fact(field.type).align > pdb.addressSize
       /\ Fact(i).empty = /\ type.is = "class"
                          /\ \A field \in Fields(type) :
                                /\ field.is \notin {"member", "vfptr", "virtual"}
                                /\ field.is = "base" => Fact(field.type).empty
       /\ Fact(i).virtual = \E field \in Fields(type) : field.is = "virtual"
       /\ \A field \in Fields(type) : field.is = "base" =>
             /\ Fact(field.type).virtual => Fact(i).virtual
             /\ field.type \in Aggregates(FALSE) => Named(Data(field.type).name, field.type)
       /\ Told(Fact(i)) => \A field \in parts : Fact(field.type).steps + 2 <= Fact(i).steps

\* A name that is only declared tells nothing.
ForwardWritten(i) ==
    \/ \E d \in Aggregates(FALSE) : Named(Data(i).name, d) /\ Fact(i) = Fact(d) /\ Data(i).is = Data(d).is
    \/ (\A d \in Aggregates(FALSE) : Data(d).name # Data(i).name) /\ Fact(i) = Unknown

TypeWritten(i) ==
    /\ FactFits(Fact(i))
    /\ \/ Data(i).is = "primitive" /\ PrimitiveWritten(i)
       \/ Data(i).is = "pointer" /\ PointerWritten(i)
       \/ Data(i).is \in {"modifier", "enum", "array", "bitfield"} /\ DerivedWritten(i)
       \/ i \in Aggregates(FALSE) /\ DefinitionWritten(i)
       \/ i \in Aggregates(TRUE) /\ ForwardWritten(i)

-----------------------------------------------------------------------------
(* Layouts and variables.                                                  *)
PlacedAt(field, real) ==
    LET type == Data(field.type)
        size == 8 * Or(Fact(field.type).size, 0)
    IN \/ /\ field.is = "vfptr" /\ real.what = "vptr"
          /\ real.offset = 0 /\ real.size = 8 * pdb.addressSize
       \/ /\ field.is = "base" /\ real.what = "base" /\ field.offset \in Nat
          /\ real.offset = 8 * field.offset /\ real.size = size
       \/ /\ field.is = "virtual" /\ field.direct /\ real.what = "virtual base"
          /\ real.offset = None /\ real.size = size
       \/ /\ field.is = "member" /\ Is(type, {"bitfield"}) /\ real.what = "bitfield"
          /\ field.offset \in Nat /\ type.position \in Nat
          /\ real.offset = 8 * field.offset + type.position /\ real.size = type.length
       \/ /\ field.is = "member" /\ ~Is(type, {"bitfield"}) /\ real.what = "field" /\ field.offset \in Nat
          /\ real.offset = 8 * field.offset /\ real.size = size
          /\ real.align = Fact(field.type).align /\ real.empty = Fact(field.type).empty
          /\ real.hidden = Fact(field.type).hidden /\ real.raised = Fact(field.type).raised

LayoutWritten(i) ==
    LET truth  == pdb.truth[i]
        fields == AllFields(Data(i))
    IN /\ truth.bytes = Fact(i).size /\ truth.virtualBases = Fact(i).virtual
       /\ {real.at : real \in truth.entries} = {k \in DOMAIN fields : Shown(fields[k])}
       /\ \A real \in truth.entries :
             /\ real.offset \in Addresses \cup {None} /\ real.size \in Addresses
             /\ PlacedAt(fields[real.at], real)

DeclarationsWritten ==
    /\ \A name \in pdb.declared : \E i \in Aggregates(TRUE) : Data(i).name = name
    /\ \A i \in Aggregates(TRUE) : Data(i).name \in pdb.declared
          \/ \E d \in Aggregates(FALSE) : Data(d).name = Data(i).name
    /\ \A d \in Aggregates(FALSE) : Data(d).name \notin pdb.declared

\* A variable in the image whose type is complete, where the loader puts it.
VariablesWritten ==
    LET placed == {data \in Range(pdb.globals) :
                      data.is = "data" /\ pdb.rva[data.place] # None /\ Fact(data.type).size # None}
    IN /\ \A data \in placed : pdb.imageBase + pdb.rva[data.place] \in Addresses
       /\ pdb.truthOfVariables = {[name |-> data.name, address |-> pdb.imageBase + pdb.rva[data.place],
                                   size |-> Fact(data.type).size] : data \in placed}

Written ==
    /\ \A list \in DOMAIN pdb.types : Is(Data(list), {"fields"}) => ListWritten(list)
    /\ \A i \in Types : TypeWritten(i)
    /\ DOMAIN pdb.truth = Aggregates(FALSE)
    /\ \A i \in Aggregates(FALSE) : LayoutWritten(i)
    /\ DeclarationsWritten /\ VariablesWritten
=============================================================================
