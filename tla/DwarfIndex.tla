----------------------------- MODULE DwarfIndex -----------------------------
(***************************************************************************)
(* The type index of a DWARF reader (build_index): one walk over the       *)
(* entries of every unit, depth first, with a stack of enclosing scopes.   *)
(*                                                                         *)
(* A unit is the sequence of its entries in that order, each with its      *)
(* depth; an entry is known by its unit and its position in it.            *)
(***************************************************************************)
EXTENDS Naturals, Sequences, FiniteSets

CONSTANTS None,   \* an Option's None
          Debugs  \* [units, addressSize, endian, finalAddresses]; a unit is
                  \* [entries, broken, signature, typeEntry]: the entry that cannot be
                  \* parsed, and of a type unit its signature and its type's entry;
                  \* truth, truthOfFunctions and truthOfVariables are for the properties
                  \* of DwarfReader

AggregateTags == {"structure", "class", "union"}
ScopingTags == AggregateTags \cup {"namespace"}

\* Units and entries are sequences; an entry has a depth, a tag, an optional name, and
\* declares or defines.
ASSUME DebugAssumption ==
    \A d \in Debugs :
        /\ Len(d.units) \in Nat /\ DOMAIN d.units = 1..Len(d.units)
        /\ \A u \in DOMAIN d.units :
              /\ Len(d.units[u].entries) \in Nat
              /\ DOMAIN d.units[u].entries = 1..Len(d.units[u].entries)
              /\ \A p \in DOMAIN d.units[u].entries :
                    /\ d.units[u].entries[p].depth \in Nat
                    /\ d.units[u].entries[p].declaration \in BOOLEAN

VARIABLES debug,        \* sections and units, as loaded
          unit, at,     \* entry that the walk reads next
          scopes,       \* its stack: [depth, name] of enclosing namespaces and types
          definitions,  \* [path, unit, at] of complete named aggregates
          declarations, \* paths that were met as declarations
          phase         \* of the cell: "walk", "indexed" or "failed"

indexVars == <<debug, unit, at, scopes, definitions, declarations, phase>>

Entries(u) == debug.units[u].entries
Entry(die) == Entries(die[1])[die[2]]

-----------------------------------------------------------------------------
(* References from entry to entry.                                         *)

\* An entry that can be read.
EntryAt(u, p) ==
    IF u \in DOMAIN debug.units /\ p \in DOMAIN Entries(u) /\ p # debug.units[u].broken
    THEN <<u, p>> ELSE None

\* Where a signature leads: of two type units with one signature the later one counts.
Signed(signature) ==
    LET us == {u \in DOMAIN debug.units : debug.units[u].signature = signature}
    IN IF us = {} THEN None
       ELSE LET u == CHOOSE u \in us : \A v \in us : v <= u
            IN EntryAt(u, debug.units[u].typeEntry)

\* An offset into the section is taken for one into this unit.
FaultyResolveOnce(u, ref) ==
    IF ref.form = "signature" THEN Signed(ref.to) ELSE EntryAt(u, ref.to)

\* resolve_once: a position in this unit, one in another unit, or a signature.
ResolveOnce(u, ref) ==
    IF ref.form = "signature" THEN Signed(ref.to)
    ELSE EntryAt(IF ref.form = "unit" THEN u ELSE ref.unit, ref.to)

\* The name of an entry, or else of the one that its signature leads to.
ScopeName(u, p) ==
    LET entry == Entries(u)[p]
        there == Signed(entry.signature)
    IN IF entry.name # None \/ entry.signature = None \/ there = None THEN entry.name
       ELSE Entry(there).name

-----------------------------------------------------------------------------
(* The walk.                                                               *)
Init ==
    /\ debug \in Debugs
    /\ unit = 1 /\ at = 1 /\ scopes = <<>>
    /\ definitions = {} /\ declarations = {}
    /\ phase = "walk"

Reading ==
    /\ phase = "walk" /\ unit \in DOMAIN debug.units
    /\ at \in DOMAIN Entries(unit) /\ at # debug.units[unit].broken

\* A sibling of the scope on top counts as inside it.
FaultyLeft(depth) == scopes # <<>> /\ scopes[Len(scopes)].depth > depth

\* An entry of this depth is outside of the scope on top.
Left(depth) == scopes # <<>> /\ scopes[Len(scopes)].depth >= depth

\* Numbers in increasing order.
InOrder(S) == [k \in 1..Cardinality(S) |-> CHOOSE n \in S : Cardinality({m \in S : m < n}) = k - 1]

\* What a sequence holds at these positions.
Kept(seq, positions) ==
    LET order == InOrder(positions)
    IN [k \in DOMAIN order |-> seq[order[k]]]

\* Names of the scopes in the stack, unnamed ones left out, and the entry's own.
Path(stack, name) ==
    LET names == [k \in DOMAIN stack |-> stack[k].name]
    IN Append(Kept(names, {k \in DOMAIN names : names[k] # None}), name)

HasChildren(u, p) == p + 1 \in DOMAIN Entries(u) /\ Entries(u)[p + 1].depth > Entries(u)[p].depth

\* The scope that an entry opens for its children.
Scope(u, p) ==
    [depth |-> Entries(u)[p].depth,
     name |-> IF ScopeName(u, p) = None /\ Entries(u)[p].tag = "namespace"
              THEN "(anonymous namespace)" ELSE ScopeName(u, p)]

Pop ==
    /\ Reading /\ Left(Entries(unit)[at].depth)
    /\ scopes' = SubSeq(scopes, 1, Len(scopes) - 1)
    /\ UNCHANGED <<debug, unit, at, definitions, declarations, phase>>

Visit ==
    /\ Reading /\ ~Left(Entries(unit)[at].depth)
    /\ LET entry == Entries(unit)[at]
           named == entry.tag \in AggregateTags /\ ScopeName(unit, at) # None
           path  == Path(scopes, ScopeName(unit, at))
       IN /\ scopes' = IF entry.tag \in ScopingTags /\ HasChildren(unit, at)
                       THEN Append(scopes, Scope(unit, at)) ELSE scopes
          /\ definitions' = IF named /\ ~entry.declaration
                            THEN definitions \cup {[path |-> path, unit |-> unit, at |-> at]}
                            ELSE definitions
          /\ declarations' = IF named /\ entry.declaration THEN declarations \cup {path}
                             ELSE declarations
    /\ at' = at + 1
    /\ UNCHANGED <<debug, unit, phase>>

NextUnit ==
    /\ phase = "walk" /\ unit \in DOMAIN debug.units /\ at \notin DOMAIN Entries(unit)
    /\ unit' = unit + 1 /\ at' = 1 /\ scopes' = <<>>
    /\ UNCHANGED <<debug, definitions, declarations, phase>>

Indexed ==
    /\ phase = "walk" /\ unit \notin DOMAIN debug.units
    /\ phase' = "indexed"
    /\ UNCHANGED <<debug, unit, at, scopes, definitions, declarations>>

\* An entry that cannot be parsed fails the index as a whole, for good.
WalkFails ==
    /\ phase = "walk" /\ unit \in DOMAIN debug.units
    /\ at \in DOMAIN Entries(unit) /\ at = debug.units[unit].broken
    /\ phase' = "failed" /\ definitions' = {} /\ declarations' = {}
    /\ UNCHANGED <<debug, unit, at, scopes>>

Finished == phase # "walk" /\ UNCHANGED indexVars

IndexStep == Pop \/ Visit \/ NextUnit \/ Indexed \/ WalkFails

IndexSpec == Init /\ [][IndexStep \/ Finished]_indexVars

-----------------------------------------------------------------------------
(* What is checked.                                                        *)

\* The entries that enclose one.
Ancestors(u, p) ==
    {a \in 1..(p - 1) :
        \A k \in (a + 1)..p : Entries(u)[k].depth > Entries(u)[a].depth}

ScopingAncestors(u, p) == {a \in Ancestors(u, p) : Entries(u)[a].tag \in ScopingTags}

\* The stack holds these entries' scopes, outermost first, and nothing else.
Holds(stack, u, ancestors) ==
    /\ \A j, k \in DOMAIN stack : j < k => stack[j].depth < stack[k].depth
    /\ \A k \in DOMAIN stack : \E a \in ancestors : stack[k] = Scope(u, a)
    /\ \A a \in ancestors : \E k \in DOMAIN stack : stack[k] = Scope(u, a)

\* Whatever the walk has left behind, an entry is named after the namespaces and types
\* that really enclose it: none of a sibling, of another unit, or twice.
ScopesAreAncestors ==
    Reading /\ ~Left(Entries(unit)[at].depth) => Holds(scopes, unit, ScopingAncestors(unit, at))
=============================================================================
