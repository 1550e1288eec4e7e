------------------------------ MODULE PdbReader ------------------------------
(***************************************************************************)
(* A PDB reader: layouts and variables from the type records, and symbols  *)
(* as in PdbSymbols.  The parser is made anew for each query and nothing   *)
(* is kept between two.                                                    *)
(*                                                                         *)
(* A type refers to another by its position among the records, or, with a  *)
(* forward reference, by name.  Names of types, which are for display, and *)
(* source positions are left out.                                          *)
(***************************************************************************)
EXTENDS PdbSymbols, Functions

CONSTANTS MaxDepth, \* MAX_DEPTH
          MaxLists  \* how many continuations of a field list are followed

\* None is no number, and type records are a sequence.
ASSUME RecordAssumption ==
    /\ None \notin Nat /\ MaxDepth \in Nat /\ MaxLists \in Nat
    /\ \A file \in Pdbs :
          /\ Len(file.types) \in Nat /\ DOMAIN file.types = 1..Len(file.types)
          /\ file.addressSize \in Addresses

VARIABLES query, answer

pdbVars == <<symbolVars, query, answer>>

Or(value, default) == IF value = None THEN default ELSE value
Bits(bytes) == Wrap(bytes * 8)

-----------------------------------------------------------------------------
(* Type records; one that is not there or cannot be parsed is None.        *)
Data(index) == IF index \in DOMAIN pdb.types /\ pdb.types[index].is # "broken" THEN pdb.types[index] ELSE None

Is(type, kinds) == type # None /\ type.is \in kinds

Aggregates(forward) ==
    {i \in DOMAIN pdb.types : Is(Data(i), {"class", "union"}) /\ Data(i).forward = forward}

\* The first definition of a name is the one that forward references mean.
Definition(name) ==
    LET named == {i \in Aggregates(FALSE) : Data(i).name = name}
    IN IF named = {} THEN None ELSE Data(Min(named))

Complete(type) == IF type.forward THEN Definition(type.name) ELSE type

\* The fields of a list and of so many continuations.
FieldsWithin[left \in 0..MaxLists] ==
    [list \in DOMAIN pdb.types |->
        IF left = 0 \/ ~Is(Data(list), {"fields"}) THEN <<>>
        ELSE IF Data(list).next \notin DOMAIN pdb.types THEN Data(list).fields
        ELSE Data(list).fields \o FieldsWithin[left - 1][Data(list).next]]

\* Continuations are left out.
FaultyFieldsOf(type) == IF Is(Data(type.list), {"fields"}) THEN Data(type.list).fields ELSE <<>>

FieldsOf(type) == IF type.list \in DOMAIN pdb.types THEN FieldsWithin[MaxLists][type.list] ELSE <<>>

\* What has been found of a type.
OfType(found, index) == IF index \in DOMAIN pdb.types THEN found[index] ELSE None

\* The size of a type, with so many steps left to other types.
SizeWithin[left \in 0..MaxDepth] ==
    [index \in DOMAIN pdb.types |->
        LET type  == Data(index)
            inner == IF left = 0 THEN None ELSE OfType(SizeWithin[left - 1], type.of)
        IN IF type = None THEN None
           ELSE IF type.is = "pointer" THEN pdb.addressSize
           ELSE IF type.is \in {"primitive", "array"} THEN type.bytes
           ELSE IF type.is \in {"class", "union"}
           THEN IF Complete(type) = None THEN None ELSE Complete(type).bytes
           ELSE IF type.is \in {"enum", "modifier", "bitfield"} THEN inner ELSE None]

\* A forward reference is as large as its own record says.
FaultyTypeSize(index) ==
    IF Is(Data(index), {"class", "union"}) THEN Data(index).bytes ELSE OfType(SizeWithin[MaxDepth], index)

TypeSize(index) == OfType(SizeWithin[MaxDepth], index)

\* As derived from what is in the type; a PDB records no alignment.
AlignWithin[left \in 0..MaxDepth] ==
    [index \in DOMAIN pdb.types |->
        LET type == Data(index)
            inner(of, steps) == IF left < steps THEN None ELSE OfType(AlignWithin[left - steps], of)
            FieldAlign(field) ==
                IF field.is \in {"member", "base"} THEN inner(field.type, 2)
                ELSE IF field.is \in {"virtual", "vfptr"} THEN pdb.addressSize ELSE 1
            aligns == {FieldAlign(field) : field \in Range(FieldsOf(Complete(type)))}
        IN IF type = None THEN None
           ELSE IF type.is = "pointer" THEN pdb.addressSize
           ELSE IF type.is = "primitive"
           THEN IF type.bytes = None THEN None ELSE Max({1, Min({type.bytes, 16})})
           ELSE IF type.is \in {"enum", "modifier", "array"} THEN inner(type.of, 1)
           ELSE IF type.is \notin {"class", "union"} \/ Complete(type) = None THEN None
           ELSE IF Complete(type).list = None \/ None \in aligns THEN None
           ELSE Max(aligns \cup {1})]

TypeAlign(index) == OfType(AlignWithin[MaxDepth], index)

\* No data members, vtable pointer or virtual bases, and bases that are empty too.
EmptyWithin[left \in 0..MaxDepth] ==
    [index \in DOMAIN pdb.types |->
        LET type == Data(index)
            inner(of) == left > 0 /\ of \in DOMAIN pdb.types /\ EmptyWithin[left - 1][of]
        IN \/ Is(type, {"modifier"}) /\ inner(type.of)
           \/ /\ Is(type, {"class"}) /\ Complete(type) # None
              /\ \A field \in Range(FieldsOf(Complete(type))) :
                    /\ field.is \notin {"member", "vfptr", "virtual"}
                    /\ field.is = "base" => inner(field.type)]

TypeIsEmpty(index) == index \in DOMAIN pdb.types /\ EmptyWithin[MaxDepth][index]

-----------------------------------------------------------------------------
(* Answers.                                                                *)

\* Virtual bases of bases have no entry of their own.
Shown(field) == field.is \in {"member", "base", "vfptr"} \/ (field.is = "virtual" /\ field.direct)

LayoutEntry(field, k) ==
    LET size == Bits(Or(TypeSize(field.type), 0))
        type == Data(field.type)
    IN IF field.is = "vfptr" THEN [at |-> k, what |-> "vptr", offset |-> 0, size |-> Bits(pdb.addressSize)]
       ELSE IF field.is = "base" THEN [at |-> k, what |-> "base", offset |-> Bits(field.offset), size |-> size]
       ELSE IF field.is = "virtual" THEN [at |-> k, what |-> "virtual base", offset |-> None, size |-> size]
       ELSE IF Is(type, {"bitfield"})
       THEN [at |-> k, what |-> "bitfield", offset |-> Wrap(Bits(field.offset) + type.position), size |-> type.length]
       ELSE [at |-> k, what |-> "field", offset |-> Bits(field.offset), size |-> size,
             align |-> TypeAlign(field.type), empty |-> TypeIsEmpty(field.type)]

HasVirtual(fields) == \E field \in Range(fields) : field.is = "virtual"

\* The bases' own virtual bases are looked for under the names of the bases.
HasVirtualBases(fields) ==
    \/ HasVirtual(fields)
    \/ \E field \in Range(fields) :
          /\ field.is = "base" /\ Is(Data(field.type), {"class", "union"})
          /\ Definition(Data(field.type).name) # None
          /\ HasVirtual(FieldsOf(Definition(Data(field.type).name)))

Layout(i) ==
    LET fields == FieldsOf(Data(i))
    IN [type |-> i, name |-> Data(i).name, bytes |-> Data(i).bytes, declared |-> FALSE,
        virtualBases |-> HasVirtualBases(fields),
        entries |-> {LayoutEntry(fields[k], k) : k \in {k \in DOMAIN fields : Shown(fields[k])}}]

\* Names that are met in forward references only.
Declared == {name \in {Data(i).name : i \in Aggregates(TRUE)} : Definition(name) = None}

Declaration(name) ==
    [type |-> None, name |-> name, bytes |-> 0, declared |-> TRUE, virtualBases |-> FALSE, entries |-> {}]

\* Data in the image with a type whose size is known.
Variables ==
    {[name |-> data.name, address |-> Address(data.place), size |-> TypeSize(data.type)] :
        data \in {data \in Range(pdb.globals) :
                     data.is = "data" /\ Address(data.place) # None /\ TypeSize(data.type) # None}}

-----------------------------------------------------------------------------
(* Queries.                                                                *)
PdbInit ==
    /\ SymbolInit /\ answer = None
    /\ query \in {"open", "types", "variables", "units", "symbols", "functions"}

Answer(value) == answer = None /\ answer' = value /\ UNCHANGED <<symbolVars, query>>

Failure(status) == [status |-> status, found |-> {}]
Found(things) == [status |-> "ok", found |-> things]

\* Opening looks at the identity, so that a damaged file fails here and not at a query.
\* The age is that of the debug stream, if it has one.
OpenPdb ==
    /\ query = "open"
    /\ Answer(IF pdb.status # "ok" THEN Failure(pdb.status)
              ELSE Found([guid |-> pdb.guid, age |-> Or(pdb.debugAge, pdb.age)]))

Asked(what) == query = what /\ pdb.status = "ok"

FindTypes ==
    /\ Asked("types")
    /\ Answer(IF pdb.typesBroken THEN Failure("Malformed")
              ELSE Found({Layout(i) : i \in Aggregates(FALSE)} \cup {Declaration(name) : name \in Declared}))

FindVariables ==
    /\ Asked("variables")
    /\ Answer(IF pdb.typesBroken \/ \E record \in Range(pdb.globals) : record.is = "broken"
              THEN Failure("Malformed") ELSE Found(Variables))

FindUnits == Asked("units") /\ Answer(Found(DOMAIN pdb.modules))

\* Functions, inline sites, lines and discarded functions.
Unimplemented == Asked("functions") /\ Answer(Failure("Unimplemented"))

FindSymbols == Asked("symbols") /\ SymbolStep /\ UNCHANGED <<query, answer>>

Answered ==
    \/ answer # None /\ UNCHANGED pdbVars
    \/ query # "open" /\ pdb.status # "ok" /\ UNCHANGED pdbVars
    \/ query = "symbols" /\ SymbolsDone /\ UNCHANGED pdbVars

PdbNext ==
    OpenPdb \/ FindTypes \/ FindVariables \/ FindUnits \/ Unimplemented \/ FindSymbols \/ Answered

PdbSpec == PdbInit /\ [][PdbNext]_pdbVars

-----------------------------------------------------------------------------
(* What is checked.  pdb.truth says what the compiler that wrote the       *)
(* records knows of each aggregate and variable.  No operator above reads  *)
(* it.                                                                     *)

\* Every complete aggregate is answered, with its members, bases and bit-fields in their
\* order, where the compiler put them and as large as it made them, through forward
\* references, qualifiers and continued lists; whether a member's type is empty and the
\* aggregate has virtual bases at any distance is what the compiler knows.  A member's
\* alignment is unknown exactly where bit-fields or types without records hide it, and
\* otherwise the real one, except that a virtual base aligned for more than a pointer is
\* not seen, and then it may be larger.  What is only declared is answered as that.
LayoutsReadBack ==
    query = "types" /\ answer # None /\ answer.status = "ok" =>
        LET complete == {l \in answer.found : ~l.declared}
        IN /\ {l.name : l \in answer.found \ complete} = pdb.declared
           /\ {l.type : l \in complete} = DOMAIN pdb.truth
           /\ \A l \in complete :
                 LET real == pdb.truth[l.type]
                 IN /\ l.bytes = real.bytes /\ l.virtualBases = real.virtualBases
                    /\ {<<e.at, e.what, e.offset, e.size>> : e \in l.entries}
                         = {<<e.at, e.what, e.offset, e.size>> : e \in real.entries}
                    /\ \A e \in l.entries : \A r \in real.entries : e.what = "field" /\ e.at = r.at =>
                          /\ e.empty = r.empty
                          /\ IF r.hidden THEN e.align = None
                             ELSE IF r.raised THEN e.align # None /\ e.align <= r.align
                             ELSE e.align = r.align

\* A variable is answered, at its address and with its type's size, if and only if it is
\* in the image and its type is complete.
VariablesReadBack ==
    query = "variables" /\ answer # None /\ answer.status = "ok" => answer.found = pdb.truthOfVariables
=============================================================================
