------------------------- MODULE DwarfReaderProofs ------------------------
(***************************************************************************)
(* The walk over any units names its entries after what encloses them, and *)
(* what is answered of units that are as a compiler writes them is what    *)
(* the compiler knows.                                                     *)
(***************************************************************************)
EXTENDS DwarfWritten, Sums

\* Entries before position p, in the walk's unit, that opened a scope which no entry
\* before p has left.
Open(p) ==
    {a \in 1..(p - 1) :
        /\ Entries(unit)[a].tag \in ScopingTags /\ HasChildren(unit, a)
        /\ \A k \in (a + 1)..(p - 1) : Entries(unit)[k].depth > Entries(unit)[a].depth}

Outermost == \A j, k \in DOMAIN scopes : j < k => scopes[j].depth < scopes[k].depth

OnlyOpen == \A k \in DOMAIN scopes : \E a \in Open(at) : scopes[k] = Scope(unit, a)

\* An open scope that is not in the stack is one that the entry to come leaves.
AllOpen ==
    \A a \in Open(at) :
        \/ \E k \in DOMAIN scopes : scopes[k] = Scope(unit, a)
        \/ at \in DOMAIN Entries(unit) /\ Entries(unit)[a].depth >= Entries(unit)[at].depth

Walking == phase = "walk" /\ unit \in DOMAIN debug.units

\* The scopes that some entry opens.
Opened == UNION {{Scope(u, a) : a \in DOMAIN Entries(u)} : u \in DOMAIN debug.units}

WalkTypes ==
    /\ debug \in Debugs /\ unit \in 1..(Len(debug.units) + 1)
    /\ scopes \in Seq(Opened)
    /\ unit \in DOMAIN debug.units => at \in 1..(Len(Entries(unit)) + 1)

WalkInv == WalkTypes /\ (Walking => Outermost /\ OnlyOpen /\ AllOpen)

-----------------------------------------------------------------------------
\* What the assumption says of the unit that the walk is in.
LEMMA UnitShape ==
    ASSUME debug \in Debugs, NEW u \in DOMAIN debug.units
    PROVE  /\ Len(Entries(u)) \in Nat /\ DOMAIN Entries(u) = 1..Len(Entries(u))
           /\ \A p \in DOMAIN Entries(u) : Entries(u)[p].depth \in Nat
           /\ Len(debug.units) \in Nat /\ DOMAIN debug.units = 1..Len(debug.units)
BY DebugAssumption DEF Entries

LEMMA ScopeDepth == \A u, a : Scope(u, a).depth = Entries(u)[a].depth
BY DEF Scope

LEMMA OpenedDepths ==
    ASSUME debug \in Debugs
    PROVE  \A s \in Opened : s.depth \in Nat
BY UnitShape, ScopeDepth DEF Opened

\* The invariant gives the property: nothing is left to pop, so that the stack's depths
\* are all below the entry's.
LEMMA InvariantSuffices == WalkInv => ScopesAreAncestors
<1> SUFFICES ASSUME WalkInv, Reading, ~Left(Entries(unit)[at].depth)
             PROVE  Holds(scopes, unit, ScopingAncestors(unit, at))
    BY DEF ScopesAreAncestors
<1> DEFINE entries == Entries(unit)
<1>0. unit \in DOMAIN debug.units /\ at \in DOMAIN entries /\ Walking
    BY DEF Reading, Walking
<1>1. /\ Len(entries) \in Nat /\ DOMAIN entries = 1..Len(entries)
      /\ \A p \in DOMAIN entries : entries[p].depth \in Nat
    BY <1>0, UnitShape DEF WalkInv, WalkTypes
<1>2. scopes \in Seq(Opened) /\ \A s \in Opened : s.depth \in Nat
    BY OpenedDepths DEF WalkInv, WalkTypes
<1>3. Outermost /\ OnlyOpen /\ AllOpen
    BY <1>0 DEF WalkInv
<1>4. ASSUME NEW k \in DOMAIN scopes PROVE scopes[k].depth < entries[at].depth
    <2>1. Len(scopes) \in DOMAIN scopes /\ scopes # <<>> /\ k <= Len(scopes) /\ k \in Nat
        BY <1>2, <1>4
    <2>2. scopes[Len(scopes)].depth \in Nat /\ scopes[k].depth \in Nat
        BY <1>2, <1>4, <2>1
    <2>3. scopes[Len(scopes)].depth < entries[at].depth
        BY <1>0, <1>1, <2>1, <2>2 DEF Left
    <2>4. k = Len(scopes) \/ scopes[k].depth < scopes[Len(scopes)].depth
        BY <1>2, <1>3, <1>4, <2>1 DEF Outermost
    <2> QED BY <1>0, <1>1, <2>2, <2>3, <2>4
<1>5. ASSUME NEW k \in DOMAIN scopes
      PROVE  \E a \in ScopingAncestors(unit, at) : scopes[k] = Scope(unit, a)
    <2>1. PICK a \in Open(at) : scopes[k] = Scope(unit, a)
        BY <1>3, <1>5 DEF OnlyOpen
    <2>2. entries[a].depth < entries[at].depth
        BY <1>4, <1>5, <2>1, ScopeDepth
    <2>3. a \in ScopingAncestors(unit, at)
        <3>1. a \in 1..(at - 1) /\ entries[a].tag \in ScopingTags
              /\ \A m \in (a + 1)..(at - 1) : entries[m].depth > entries[a].depth
            BY <2>1 DEF Open
        <3>2. entries[at].depth > entries[a].depth
            BY <2>2, <1>0, <1>1, <3>1
        <3>3. \A m \in (a + 1)..at : m \in (a + 1)..(at - 1) \/ m = at
            BY <1>0, <1>1, <3>1
        <3> QED BY <3>1, <3>2, <3>3 DEF ScopingAncestors, Ancestors
    <2> QED BY <2>1, <2>3
<1>6. ASSUME NEW a \in ScopingAncestors(unit, at)
      PROVE  \E k \in DOMAIN scopes : scopes[k] = Scope(unit, a)
    <2>1. a \in 1..(at - 1) /\ entries[a].tag \in ScopingTags
          /\ \A m \in (a + 1)..at : entries[m].depth > entries[a].depth
        BY <1>6 DEF ScopingAncestors, Ancestors
    <2>2. a + 1 \in (a + 1)..at /\ a + 1 \in DOMAIN entries /\ at \in (a + 1)..at
        BY <1>0, <1>1, <2>1
    <2>3. HasChildren(unit, a)
        BY <2>1, <2>2 DEF HasChildren
    <2>4. a \in Open(at)
        BY <2>1, <2>3, <1>0, <1>1 DEF Open
    <2>5. ~(entries[a].depth >= entries[at].depth)
        BY <1>0, <1>1, <2>1, <2>2
    <2> QED BY <1>3, <2>4, <2>5 DEF AllOpen
<1> QED BY <1>3, <1>5, <1>6 DEF Holds, Outermost

-----------------------------------------------------------------------------
\* What a step that keeps the units keeps of their scopes.
LEMMA SameEntries ==
    ASSUME debug' = debug
    PROVE  /\ \A u : Entries(u)' = Entries(u)
           /\ \A u, a : ScopeName(u, a)' = ScopeName(u, a)
           /\ \A u, a : Scope(u, a)' = Scope(u, a)
           /\ Opened' = Opened
<1>1. \A u : Entries(u)' = Entries(u)
    BY DEF Entries
<1>2. \A u, p : EntryAt(u, p)' = EntryAt(u, p)
    BY <1>1 DEF EntryAt
<1>3. ASSUME NEW s PROVE Signed(s)' = Signed(s)
    <2> DEFINE us == {u \in DOMAIN debug.units : debug.units[u].signature = s}
    <2> DEFINE last == CHOOSE u \in us : \A v \in us : v <= u
    <2> DEFINE first == debug.units[last].typeEntry
    <2>1. us' = us
        OBVIOUS
    <2>2. last' = last
        <3> HIDE DEF us
        <3> QED BY <2>1, Zenon
    <2>3. first' = first
        <3> HIDE DEF last
        <3> QED BY <2>2
    <2>4. Signed(s) = IF us = {} THEN None ELSE EntryAt(last, first)
        BY DEF Signed
    <2>5. Signed(s)' = IF us' = {} THEN None ELSE EntryAt(last, first)'
        BY DEF Signed
    <2>6. EntryAt(last, first)' = EntryAt(last, first)
        <3> HIDE DEF last, first
        <3> QED BY <1>1, <2>2, <2>3 DEF EntryAt
    <2> HIDE DEF us, last, first
    <2> QED BY <2>1, <2>4, <2>5, <2>6
<1>4. \A u, a : ScopeName(u, a)' = ScopeName(u, a)
    BY <1>1, <1>3 DEF ScopeName, Entry
<1>5. \A u, a : Scope(u, a)' = Scope(u, a)
    BY <1>1, <1>4 DEF Scope
<1>6. Opened' = Opened
    BY <1>1, <1>5 DEF Opened
<1> QED BY <1>1, <1>4, <1>5, <1>6

LEMMA InitHolds == Init => WalkInv
<1> SUFFICES ASSUME Init PROVE WalkInv
    OBVIOUS
<1>1. debug \in Debugs /\ unit = 1 /\ at = 1 /\ scopes = <<>>
    BY DEF Init
<1>2. Walking => at \in 1..(Len(Entries(unit)) + 1)
    BY <1>1, UnitShape DEF Walking
<1>3. Open(at) = {}
    BY <1>1 DEF Open
<1> QED BY <1>1, <1>2, <1>3 DEF WalkInv, WalkTypes, Outermost, OnlyOpen, AllOpen

\* A scope that leaves the stack is one that the entry at hand leaves.
LEMMA PopKeeps == WalkInv /\ Pop => WalkInv'
<1> SUFFICES ASSUME WalkInv, Pop PROVE WalkInv'
    OBVIOUS
<1> DEFINE entries == Entries(unit)
<1> DEFINE n == Len(scopes)
<1>0. /\ debug' = debug /\ unit' = unit /\ at' = at /\ phase' = phase
      /\ scopes' = SubSeq(scopes, 1, n - 1)
      /\ Walking /\ at \in DOMAIN entries /\ scopes # <<>> /\ scopes[n].depth >= entries[at].depth
    BY DEF Pop, Reading, Left, Walking
<1>1. scopes \in Seq(Opened)
    BY DEF WalkInv, WalkTypes
<1>2. n \in Nat \ {0} /\ DOMAIN scopes = 1..n /\ DOMAIN scopes' = 1..(n - 1)
      /\ \A k \in 1..(n - 1) : scopes'[k] = scopes[k]
    BY <1>0, <1>1
<1>3. scopes' \in Seq(Opened)
    BY <1>0, <1>1, <1>2
<1>4. WalkTypes'
    BY <1>0, <1>3, SameEntries DEF WalkInv, WalkTypes, Walking, Entries
<1>5. Outermost /\ OnlyOpen /\ AllOpen
    BY <1>0 DEF WalkInv
<1>6. Outermost'
    BY <1>2, <1>5 DEF Outermost
<1>7. Open(at)' = Open(at) /\ \A a : Scope(unit, a)' = Scope(unit, a)
    BY <1>0, SameEntries DEF Open, HasChildren, Entries
<1>8. OnlyOpen'
    BY <1>2, <1>5, <1>7 DEF OnlyOpen
<1>9. AllOpen'
    <2> SUFFICES ASSUME NEW a \in Open(at), ~(entries[a].depth >= entries[at].depth)
                 PROVE  \E k \in DOMAIN scopes' : scopes'[k] = Scope(unit, a)
        BY <1>0, <1>7 DEF AllOpen, Entries
    <2>1. PICK k \in DOMAIN scopes : scopes[k] = Scope(unit, a)
        BY <1>5 DEF AllOpen
    <2>2. scopes[k].depth = entries[a].depth
        BY <2>1, ScopeDepth
    <2>3. k # n
        BY <1>0, <2>2
    <2>4. k \in 1..(n - 1)
        BY <1>2, <2>1, <2>3
    <2> QED BY <1>2, <2>1, <2>4
<1> QED BY <1>4, <1>6, <1>8, <1>9 DEF WalkInv

\* The entry at hand leaves none of the scopes that stay, and its own is added.
LEMMA VisitKeeps == WalkInv /\ Visit => WalkInv'
<1> SUFFICES ASSUME WalkInv, Visit PROVE WalkInv'
    OBVIOUS
<1> DEFINE entries == Entries(unit)
<1> DEFINE opens == entries[at].tag \in ScopingTags /\ HasChildren(unit, at)
<1>0. /\ debug' = debug /\ unit' = unit /\ at' = at + 1 /\ phase' = phase
      /\ scopes' = IF opens THEN Append(scopes, Scope(unit, at)) ELSE scopes
      /\ unit \in DOMAIN debug.units /\ at \in DOMAIN entries
    BY DEF Visit, Reading
<1>1. /\ Len(entries) \in Nat /\ DOMAIN entries = 1..Len(entries)
      /\ \A p \in DOMAIN entries : entries[p].depth \in Nat
    BY <1>0, UnitShape DEF WalkInv, WalkTypes
<1>2. scopes \in Seq(Opened) /\ Scope(unit, at) \in Opened
    BY <1>0 DEF WalkInv, WalkTypes, Opened
<1>3. /\ DOMAIN scopes = 1..Len(scopes) /\ Len(scopes) \in Nat
      /\ \A k \in DOMAIN scopes : k \in DOMAIN scopes' /\ scopes'[k] = scopes[k]
      /\ opens => /\ DOMAIN scopes' = 1..(Len(scopes) + 1)
                  /\ scopes'[Len(scopes) + 1] = Scope(unit, at)
      /\ ~opens => scopes' = scopes
    BY <1>0, <1>2
<1>4. WalkTypes'
    <2>1. scopes' \in Seq(Opened)
        BY <1>0, <1>2
    <2>2. at' \in 1..(Len(entries) + 1)
        BY <1>0, <1>1
    <2> QED BY <1>0, <2>1, <2>2, SameEntries DEF WalkInv, WalkTypes, Entries
<1>5. Holds(scopes, unit, ScopingAncestors(unit, at))
    BY InvariantSuffices DEF ScopesAreAncestors, Visit
<1>6. /\ \A k \in DOMAIN scopes : \E a \in ScopingAncestors(unit, at) : scopes[k] = Scope(unit, a)
      /\ \A a \in ScopingAncestors(unit, at) : \E k \in DOMAIN scopes : scopes[k] = Scope(unit, a)
      /\ Outermost
    BY <1>5 DEF Holds, Outermost
<1>7. /\ \A a \in Open(at + 1) : a \in ScopingAncestors(unit, at) \/ (a = at /\ opens)
      /\ \A a \in ScopingAncestors(unit, at) : a \in Open(at + 1)
      /\ opens => at \in Open(at + 1)
    <2>1. ASSUME NEW a \in Open(at + 1) PROVE a \in ScopingAncestors(unit, at) \/ (a = at /\ opens)
        <3>1. /\ a \in 1..((at + 1) - 1) /\ entries[a].tag \in ScopingTags /\ HasChildren(unit, a)
              /\ \A k \in (a + 1)..((at + 1) - 1) : entries[k].depth > entries[a].depth
            BY <2>1 DEF Open
        <3>2. (at + 1) - 1 = at /\ (a = at \/ a \in 1..(at - 1))
            BY <1>0, <1>1, <3>1
        <3>3. CASE a = at
            BY <3>1, <3>3
        <3>4. CASE a # at
            <4>1. a \in 1..(at - 1) /\ \A k \in (a + 1)..at : entries[k].depth > entries[a].depth
                BY <3>1, <3>2, <3>4
            <4> QED BY <3>1, <4>1, Zenon DEF ScopingAncestors, Ancestors
        <3> QED BY <3>3, <3>4
    <2>2. ASSUME NEW a \in ScopingAncestors(unit, at) PROVE a \in Open(at + 1)
        <3>1. a \in 1..(at - 1) /\ a + 1 \in (a + 1)..at /\ a + 1 \in DOMAIN entries
            BY <1>0, <1>1, <2>2 DEF ScopingAncestors, Ancestors
        <3>2. /\ entries[a].tag \in ScopingTags
              /\ \A k \in (a + 1)..at : entries[k].depth > entries[a].depth
            BY <2>2 DEF ScopingAncestors, Ancestors
        <3>3. HasChildren(unit, a)
            BY <3>1, <3>2 DEF HasChildren
        <3>4. (at + 1) - 1 = at /\ a \in 1..((at + 1) - 1)
            BY <1>0, <1>1, <3>1
        <3> QED BY <3>2, <3>3, <3>4 DEF Open
    <2>3. opens => at \in Open(at + 1)
        BY <1>0, <1>1 DEF Open
    <2> QED BY <2>1, <2>2, <2>3
<1>8. \A p : Open(p)' = Open(p)
    BY <1>0, SameEntries DEF Open, HasChildren, Entries
<1>9. Outermost'
    <2>1. \A k \in DOMAIN scopes : scopes[k].depth < entries[at].depth
        <3>1. ASSUME NEW a \in ScopingAncestors(unit, at) PROVE entries[a].depth < entries[at].depth
            <4>1. at \in (a + 1)..at
                BY <1>0, <1>1, <3>1 DEF ScopingAncestors, Ancestors
            <4> QED BY <3>1, <4>1, <1>0, <1>1 DEF ScopingAncestors, Ancestors
        <3> QED BY <1>6, <3>1, ScopeDepth
    <2>2. CASE opens
        BY <1>3, <1>6, <2>1, <2>2, ScopeDepth, SMTT(30) DEF Outermost
    <2>3. CASE ~opens
        BY <1>3, <1>6, <2>3 DEF Outermost
    <2> QED BY <2>2, <2>3
<1>10. OnlyOpen'
    <2> SUFFICES ASSUME NEW k \in DOMAIN scopes'
                 PROVE  \E a \in Open(at + 1) : scopes'[k] = Scope(unit, a)
        BY <1>0, <1>8, SameEntries DEF OnlyOpen
    <2>1. CASE k \in DOMAIN scopes
        BY <1>3, <1>6, <1>7, <2>1
    <2>2. CASE k \notin DOMAIN scopes
        BY <1>3, <1>7, <2>2
    <2> QED BY <2>1, <2>2
<1>11. AllOpen'
    <2> SUFFICES ASSUME NEW a \in Open(at + 1)
                 PROVE  \E k \in DOMAIN scopes' : scopes'[k] = Scope(unit, a)
        BY <1>0, <1>8, SameEntries DEF AllOpen
    <2>1. CASE a \in ScopingAncestors(unit, at)
        BY <1>3, <1>6, <2>1
    <2>2. CASE a = at /\ opens
        BY <1>3, <2>2
    <2> QED BY <1>7, <2>1, <2>2
<1> QED BY <1>4, <1>9, <1>10, <1>11 DEF WalkInv

\* A new unit starts with nothing open.
LEMMA NextUnitKeeps == WalkInv /\ NextUnit => WalkInv'
<1> SUFFICES ASSUME WalkInv, NextUnit PROVE WalkInv'
    OBVIOUS
<1>1. /\ debug' = debug /\ unit' = unit + 1 /\ at' = 1 /\ scopes' = <<>>
      /\ unit \in DOMAIN debug.units /\ debug \in Debugs
    BY DEF NextUnit, WalkInv, WalkTypes
<1>2. Walking' => at' \in 1..(Len(Entries(unit)') + 1)
    BY <1>1, UnitShape DEF Walking, Entries
<1>3. Open(at)' = {}
    BY <1>1 DEF Open
<1>4. unit' \in 1..(Len(debug.units) + 1)
    BY <1>1, UnitShape
<1>5. debug' \in Debugs /\ unit' \in 1..(Len(debug'.units) + 1)
    BY <1>1, <1>4
<1>6. scopes' \in Seq(Opened')
    BY <1>1
<1> QED BY <1>1, <1>2, <1>3, <1>5, <1>6 DEF WalkInv, WalkTypes, Outermost, OnlyOpen, AllOpen

\* Once the walk is over nothing is claimed of its stack.
LEMMA EndKeeps == WalkInv /\ (Indexed \/ WalkFails) => WalkInv'
<1> SUFFICES ASSUME WalkInv, Indexed \/ WalkFails PROVE WalkInv'
    OBVIOUS
<1>1. debug' = debug /\ unit' = unit /\ at' = at /\ scopes' = scopes /\ phase' # "walk"
    BY DEF Indexed, WalkFails
<1> QED BY <1>1, SameEntries DEF WalkInv, WalkTypes, Walking

LEMMA StutterKeeps == WalkInv /\ UNCHANGED indexVars => WalkInv'
<1> SUFFICES ASSUME WalkInv, UNCHANGED indexVars PROVE WalkInv'
    OBVIOUS
<1>1. /\ debug' = debug /\ unit' = unit /\ at' = at /\ scopes' = scopes /\ phase' = phase
    BY DEF indexVars
<1>2. Open(at)' = Open(at)
    BY <1>1, SameEntries DEF Open, HasChildren, Entries
<1>3. WalkTypes'
    BY <1>1, SameEntries DEF WalkInv, WalkTypes, Walking, Entries
<1>4. Walking' => OnlyOpen' /\ AllOpen' /\ Outermost'
    BY <1>1, <1>2, SameEntries DEF WalkInv, Walking, OnlyOpen, AllOpen, Outermost, Entries
<1> QED BY <1>3, <1>4 DEF WalkInv

-----------------------------------------------------------------------------
\* The walk keeps its invariant: its stack has the scopes that are open, in order.
THEOREM IndexInvariant == IndexSpec => []WalkInv
<1>1. WalkInv /\ [IndexStep \/ Finished]_indexVars => WalkInv'
    BY PopKeeps, VisitKeeps, NextUnitKeeps, EndKeeps, StutterKeeps DEF IndexStep, Finished
<1> QED BY InitHolds, <1>1, PTL DEF IndexSpec

\* Whatever the units hold, each entry is named after exactly the namespaces and types
\* that enclose it.
THEOREM IndexScopesAreAncestors == IndexSpec => []ScopesAreAncestors
BY IndexInvariant, InvariantSuffices, PTL

-----------------------------------------------------------------------------
(* Numbers in their order.                                                 *)
Below(S, s) == {m \in S : m < s}

LEMMA InOrderBelow ==
    \A S : InOrder(S) =
              [k \in 1..Cardinality(S) |-> CHOOSE n \in S : Cardinality(Below(S, n)) = k - 1]
BY DEF InOrder, Below

\* Each number of a finite set has a rank of its own, and each rank a number.
LEMMA Ranks ==
    ASSUME NEW S \in SUBSET Nat, IsFiniteSet(S)
    PROVE  /\ Cardinality(S) \in Nat
           /\ \A s \in S : Cardinality(Below(S, s)) \in 0..(Cardinality(S) - 1)
           /\ \A s, t \in S : s < t => Cardinality(Below(S, s)) < Cardinality(Below(S, t))
           /\ \A k \in 1..Cardinality(S) : \E s \in S : Cardinality(Below(S, s)) = k - 1
<1> DEFINE n == Cardinality(S)
<1>0. \A s \in S : s \in Nat
    BY Zenon
<1>1. n \in Nat
    BY FS_CardinalityType
<1>2. ASSUME NEW T \in SUBSET S, NEW s \in S, s \notin T
      PROVE  IsFiniteSet(T) /\ Cardinality(T) \in Nat /\ Cardinality(T) < n
    <2>1. IsFiniteSet(T) /\ Cardinality(T) <= n /\ (n = Cardinality(T) => S = T)
        BY FS_Subset
    <2>2. S # T
        BY <1>2
    <2>3. Cardinality(T) \in Nat
        BY <2>1, FS_CardinalityType
    <2> QED BY <1>1, <2>1, <2>2, <2>3
<1>3. ASSUME NEW s \in S
      PROVE  IsFiniteSet(Below(S, s)) /\ Cardinality(Below(S, s)) \in 0..(n - 1)
    <2>1. Below(S, s) \in SUBSET S /\ s \notin Below(S, s)
        BY <1>0 DEF Below
    <2>2. IsFiniteSet(Below(S, s)) /\ Cardinality(Below(S, s)) \in Nat /\ Cardinality(Below(S, s)) < n
        BY <1>2, <2>1
    <2> HIDE DEF n
    <2> QED BY <1>1, <2>2
<1>4. ASSUME NEW s \in S, NEW t \in S, s < t
      PROVE  Cardinality(Below(S, s)) < Cardinality(Below(S, t))
    <2>0. s \in Nat /\ t \in Nat /\ \A m \in S : m < s => m < t
        BY <1>0, <1>4
    <2>1. Below(S, s) \subseteq Below(S, t) /\ s \in Below(S, t) /\ s \notin Below(S, s)
        <3>1. ~(s < s)
            BY <2>0
        <3> QED BY <1>4, <2>0, <3>1 DEF Below
    <2>2. IsFiniteSet(Below(S, t)) /\ Cardinality(Below(S, t)) \in Nat /\ Cardinality(Below(S, s)) \in Nat
        BY <1>3
    <2>3. /\ Cardinality(Below(S, s)) <= Cardinality(Below(S, t))
          /\ Cardinality(Below(S, t)) = Cardinality(Below(S, s)) => Below(S, t) = Below(S, s)
        BY <2>1, <2>2, FS_Subset
    <2> QED BY <2>1, <2>2, <2>3
<1>5. ASSUME NEW k \in 1..n PROVE \E s \in S : Cardinality(Below(S, s)) = k - 1
    <2> DEFINE rank == [s \in S |-> Cardinality(Below(S, s)) + 1]
    <2>1. rank \in [S -> 1..n]
        BY <1>1, <1>3
    <2>2. \A s, t \in S : rank[s] = rank[t] => s = t
        <3> SUFFICES ASSUME NEW s \in S, NEW t \in S, rank[s] = rank[t], s # t PROVE FALSE
            OBVIOUS
        <3>1. s < t \/ t < s
            BY <1>0
        <3>2. Cardinality(Below(S, s)) = Cardinality(Below(S, t))
            BY <1>3
        <3> QED BY <1>3, <1>4, <3>1, <3>2
    <2>3. rank \in Injection(S, 1..n)
        <3> HIDE DEF rank
        <3> QED BY <2>1, <2>2 DEF Injection, IsInjective
    <2>4. IsFiniteSet(1..n) /\ Cardinality(1..n) = n
        BY <1>1, FS_Interval
    <2>5. rank \in Surjection(S, 1..n)
        <3> HIDE DEF rank
        <3> QED BY <2>3, <2>4, FS_Injection
    <2>6. PICK s \in S : rank[s] = k
        <3> HIDE DEF rank
        <3> QED BY <2>5 DEF Surjection
    <2> QED BY <1>3, <2>6
<1> QED BY <1>1, <1>3, <1>4, <1>5

\* InOrder lists the numbers of a finite set, each once, the lesser before the larger.
LEMMA InOrderLists ==
    ASSUME NEW S \in SUBSET Nat, IsFiniteSet(S)
    PROVE  /\ Cardinality(S) \in Nat
           /\ InOrder(S) \in [1..Cardinality(S) -> S]
           /\ \A j, k \in 1..Cardinality(S) : j < k => InOrder(S)[j] < InOrder(S)[k]
           /\ \A s \in S : \E k \in 1..Cardinality(S) : InOrder(S)[k] = s
<1> DEFINE n == Cardinality(S)
<1> DEFINE rank(s) == Cardinality(Below(S, s))
<1>0. \A s \in S : s \in Nat
    BY Zenon
<1>1. /\ n \in Nat
      /\ \A s \in S : rank(s) \in 0..(n - 1)
      /\ \A s, t \in S : s < t => rank(s) < rank(t)
      /\ \A k \in 1..n : \E s \in S : rank(s) = k - 1
    BY Ranks
<1>2. InOrder(S) = [k \in 1..n |-> CHOOSE s \in S : rank(s) = k - 1]
    BY InOrderBelow
<1> HIDE DEF n, rank
<1>3. \A k \in 1..n : InOrder(S)[k] \in S /\ rank(InOrder(S)[k]) = k - 1
    BY <1>1, <1>2
<1>4. InOrder(S) \in [1..n -> S]
    BY <1>2, <1>3
<1>5. ASSUME NEW j \in 1..n, NEW k \in 1..n, j < k PROVE InOrder(S)[j] < InOrder(S)[k]
    <2>1. /\ InOrder(S)[j] \in Nat /\ InOrder(S)[k] \in Nat
          /\ rank(InOrder(S)[j]) = j - 1 /\ rank(InOrder(S)[k]) = k - 1
        BY <1>0, <1>3
    <2>2. ~(InOrder(S)[k] < InOrder(S)[j]) /\ InOrder(S)[k] # InOrder(S)[j]
        BY <1>1, <1>3, <1>5, <2>1
    <2> QED BY <2>1, <2>2
<1>6. ASSUME NEW s \in S PROVE \E k \in 1..n : InOrder(S)[k] = s
    <2> DEFINE t == InOrder(S)[rank(s) + 1]
    <2>1. rank(s) + 1 \in 1..n /\ rank(s) \in Nat
        BY <1>1
    <2>2. t \in S /\ rank(t) = rank(s)
        BY <1>3, <2>1
    <2> HIDE DEF t
    <2>3. ~(t < s) /\ ~(s < t)
        <3>1. ~(rank(t) < rank(s)) /\ ~(rank(s) < rank(t))
            BY <2>1, <2>2
        <3> QED BY <1>1, <2>2, <3>1
    <2>4. t = s
        <3>1. t \in Nat /\ s \in Nat
            BY <1>0, <2>2
        <3> QED BY <2>3, <3>1
    <2> QED BY <2>1, <2>4 DEF t
<1> QED BY <1>1, <1>4, <1>5, <1>6 DEF n

\* There is one such list.
LEMMA InOrderUnique ==
    ASSUME NEW S \in SUBSET Nat, NEW n \in Nat, NEW f \in [1..n -> S],
           \A j, k \in 1..n : j < k => f[j] < f[k],
           \A s \in S : \E k \in 1..n : f[k] = s
    PROVE  IsFiniteSet(S) /\ Cardinality(S) = n /\ InOrder(S) = f
<1>0. \A s \in S : s \in Nat
    BY Zenon
<1>1. \A j, k \in 1..n : f[j] = f[k] => j = k
    <2> SUFFICES ASSUME NEW j \in 1..n, NEW k \in 1..n, f[j] = f[k], j # k PROVE FALSE
        OBVIOUS
    <2>1. f[j] \in Nat
        BY <1>0
    <2>2. ~(f[j] < f[j])
        BY <2>1
    <2>3. j < k \/ k < j
        OBVIOUS
    <2> QED BY <2>2, <2>3
<1>2. ASSUME NEW k \in 0..n, NEW T, T = {f[j] : j \in 1..k}
      PROVE  IsFiniteSet(T) /\ Cardinality(T) = k
    <2> DEFINE g == [j \in 1..k |-> f[j]]
    <2>1. g \in [1..k -> T] /\ (\A t \in T : \E j \in 1..k : g[j] = t)
          /\ \A i, j \in 1..k : g[i] = g[j] => i = j
        BY <1>1, <1>2
    <2>2. ExistsBijection(1..k, T)
        <3> HIDE DEF g
        <3> QED BY <2>1 DEF ExistsBijection, Bijection, Injection, IsInjective, Surjection
    <2>3. IsFiniteSet(1..k) /\ Cardinality(1..k) = k
        BY FS_Interval
    <2> QED BY <2>2, <2>3, FS_Bijection
<1>3. IsFiniteSet(S) /\ Cardinality(S) = n
    <2>1. S = {f[j] : j \in 1..n}
        OBVIOUS
    <2>2. n \in 0..n
        OBVIOUS
    <2> QED BY <1>2, <2>1, <2>2, Zenon
<1>4. ASSUME NEW k \in 1..n PROVE Cardinality(Below(S, f[k])) = k - 1
    <2>1. Below(S, f[k]) = {f[j] : j \in 1..(k - 1)}
        <3>1. ASSUME NEW s \in Below(S, f[k]) PROVE \E j \in 1..(k - 1) : f[j] = s
            <4>1. PICK j \in 1..n : f[j] = s
                BY <3>1 DEF Below
            <4>2. f[j] < f[k] /\ f[j] \in Nat /\ f[k] \in Nat
                BY <1>0, <3>1, <4>1 DEF Below
            <4>3. j < k
                BY <4>2
            <4> QED BY <4>1, <4>3
        <3>2. ASSUME NEW j \in 1..(k - 1) PROVE f[j] \in Below(S, f[k])
            BY DEF Below
        <3> QED BY <3>1, <3>2
    <2> QED BY <1>2, <2>1
<1>5. ASSUME NEW k \in 1..n PROVE InOrder(S)[k] = f[k]
    <2>1. InOrder(S)[k] = CHOOSE s \in S : Cardinality(Below(S, s)) = k - 1
        BY <1>3, InOrderBelow
    <2>2. ASSUME NEW s \in S, Cardinality(Below(S, s)) = k - 1 PROVE s = f[k]
        <3>1. PICK j \in 1..n : f[j] = s
            OBVIOUS
        <3>2. Cardinality(Below(S, s)) = j - 1
            BY <1>4, <3>1
        <3> QED BY <2>2, <3>1, <3>2
    <2> QED BY <1>4, <2>1, <2>2
<1>6. InOrder(S) = f
    <2>1. InOrder(S) = [k \in 1..n |-> InOrder(S)[k]]
        BY <1>3, InOrderBelow
    <2> QED BY <1>5, <2>1
<1> QED BY <1>3, <1>6

-----------------------------------------------------------------------------
(* Names.                                                                  *)

\* A stack with the scopes of the entries that enclose one gives it its name.
LEMMA StackNames ==
    ASSUME debug \in Debugs, NEW u \in DOMAIN debug.units, NEW p \in DOMAIN Entries(u),
           NEW stack, NEW n \in Nat, DOMAIN stack = 1..n,
           Holds(stack, u, ScopingAncestors(u, p))
    PROVE  Path(stack, ScopeName(u, p)) = QualifiedName(u, p)
<1> DEFINE A == ScopingAncestors(u, p)
<1> DEFINE h == [k \in 1..n |-> CHOOSE a \in A : stack[k] = Scope(u, a)]
<1> DEFINE K == {k \in 1..n : stack[k].name # None}
<1> DEFINE N == {a \in A : Scope(u, a).name # None}
<1>0. /\ Len(Entries(u)) \in Nat /\ DOMAIN Entries(u) = 1..Len(Entries(u))
      /\ \A q \in DOMAIN Entries(u) : Entries(u)[q].depth \in Nat
    BY UnitShape
<1>1. /\ \A j, k \in 1..n : j < k => stack[j].depth < stack[k].depth
      /\ \A k \in 1..n : \E a \in A : stack[k] = Scope(u, a)
      /\ \A a \in A : \E k \in 1..n : stack[k] = Scope(u, a)
    BY DEF Holds
<1>2. \A a \in A : a \in Nat /\ a \in DOMAIN Entries(u) /\ Entries(u)[a].depth \in Nat
    BY <1>0 DEF ScopingAncestors, Ancestors
<1>3. ASSUME NEW a \in A, NEW b \in A, a < b PROVE Entries(u)[a].depth < Entries(u)[b].depth
    <2>1. b \in (a + 1)..p
        BY <1>0, <1>2, <1>3 DEF ScopingAncestors, Ancestors
    <2> QED BY <1>2, <2>1 DEF ScopingAncestors, Ancestors
<1> HIDE DEF A
<1>4. \A k \in 1..n : h[k] \in A /\ stack[k] = Scope(u, h[k])
    BY <1>1
<1> HIDE DEF h
<1>5. ASSUME NEW j \in 1..n, NEW k \in 1..n, j < k PROVE h[j] < h[k]
    <2>1. Entries(u)[h[j]].depth < Entries(u)[h[k]].depth
        <3>1. stack[j].depth < stack[k].depth
            BY <1>1, <1>5
        <3>2. stack[j].depth = Entries(u)[h[j]].depth /\ stack[k].depth = Entries(u)[h[k]].depth
            BY <1>4, ScopeDepth
        <3> QED BY <3>1, <3>2
    <2>2. h[j] \in Nat /\ h[k] \in Nat /\ h[j] \in A /\ h[k] \in A
        BY <1>2, <1>4
    <2>3. Entries(u)[h[j]].depth \in Nat /\ Entries(u)[h[k]].depth \in Nat
        BY <1>2, <2>2
    <2>4. ~(h[k] < h[j]) /\ h[j] # h[k]
        BY <1>3, <2>1, <2>2, <2>3
    <2> QED BY <2>2, <2>4
<1>6. ASSUME NEW a \in A PROVE \E k \in 1..n : h[k] = a
    <2>1. PICK k \in 1..n : stack[k] = Scope(u, a)
        BY <1>1
    <2>2. h[k] \in A /\ h[k] \in Nat /\ a \in Nat /\ Entries(u)[h[k]].depth = Entries(u)[a].depth
        BY <1>2, <1>4, <2>1, ScopeDepth
    <2>3. Entries(u)[a].depth \in Nat
        BY <1>2
    <2>4. ~(h[k] < a) /\ ~(a < h[k])
        BY <1>3, <2>2, <2>3
    <2> QED BY <2>2, <2>4
<1>7. IsFiniteSet(K) /\ K \in SUBSET Nat
    <2>1. IsFiniteSet(1..n) /\ K \in SUBSET (1..n)
        BY FS_Interval
    <2>2. IsFiniteSet(K)
        BY <2>1, FS_Subset
    <2> QED BY <2>2
<1> DEFINE o == InOrder(K)
<1> DEFINE c == Cardinality(K)
<1> DEFINE f == [i \in 1..c |-> h[o[i]]]
<1>8. /\ c \in Nat /\ o \in [1..c -> K]
      /\ \A i, j \in 1..c : i < j => o[i] < o[j]
      /\ \A k \in K : \E i \in 1..c : o[i] = k
    <2> HIDE DEF K
    <2> QED BY <1>7, InOrderLists
<1> HIDE DEF o, c
<1>9. \A i \in 1..c : /\ o[i] \in 1..n /\ h[o[i]] \in N
                       /\ stack[o[i]] = Scope(u, h[o[i]])
    BY <1>4, <1>8
<1>10. InOrder(N) = f
    <2>1. N \in SUBSET Nat
        BY <1>2
    <2>2. f \in [1..c -> N]
        BY <1>9
    <2>3. \A i, j \in 1..c : i < j => f[i] < f[j]
        BY <1>5, <1>8, <1>9
    <2>4. ASSUME NEW a \in N PROVE \E i \in 1..c : f[i] = a
        <3>1. PICK k \in 1..n : h[k] = a
            BY <1>6
        <3>2. k \in K
            BY <1>4, <3>1
        <3> QED BY <1>8, <3>1, <3>2
    <2>5. c \in Nat
        BY <1>8
    <2> HIDE DEF f, N
    <2> QED BY <2>1, <2>2, <2>3, <2>4, <2>5, InOrderUnique
<1> DEFINE names == [k \in DOMAIN stack |-> stack[k].name]
<1> DEFINE kept == [i \in 1..c |-> Scope(u, h[o[i]]).name]
<1>11. Kept(names, {k \in DOMAIN names : names[k] # None}) = kept
    <2>1. {k \in DOMAIN names : names[k] # None} = K
        OBVIOUS
    <2>2. Kept(names, K) = [i \in DOMAIN o |-> names[o[i]]]
        BY DEF Kept, o
    <2>3. DOMAIN o = 1..c /\ \A i \in 1..c : names[o[i]] = Scope(u, h[o[i]]).name
        BY <1>8, <1>9
    <2>4. Kept(names, K) = kept
        <3> HIDE DEF K, names
        <3> QED BY <2>2, <2>3
    <2> QED BY <2>1, <2>4, Zenon
<1>12. QualifiedName(u, p) = kept \o <<ScopeName(u, p)>>
    <2>1. QualifiedName(u, p) = [k \in DOMAIN InOrder(N) |-> Scope(u, InOrder(N)[k]).name] \o <<ScopeName(u, p)>>
        BY DEF QualifiedName, A
    <2>2. [k \in DOMAIN InOrder(N) |-> Scope(u, InOrder(N)[k]).name] = kept
        <3> HIDE DEF N
        <3> QED BY <1>10
    <2> QED BY <2>1, <2>2, Zenon
<1>13. Path(stack, ScopeName(u, p)) = Append(kept, ScopeName(u, p))
    BY <1>11, Zenon DEF Path
<1>14. Append(kept, ScopeName(u, p)) = kept \o <<ScopeName(u, p)>>
    <2> DEFINE V == {kept[i] : i \in 1..c} \cup {ScopeName(u, p)}
    <2>1. kept \in Seq(V) /\ ScopeName(u, p) \in V
        <3>1. kept \in [1..c -> V] /\ ScopeName(u, p) \in V
            OBVIOUS
        <3>2. c \in Nat
            BY <1>8
        <3> HIDE DEF kept, V
        <3> QED BY <3>1, <3>2
    <2> HIDE DEF kept, V
    <2> QED BY <2>1
<1> QED BY <1>12, <1>13, <1>14

-----------------------------------------------------------------------------
(* What the walk has gathered.                                             *)
LEMMA AggregateIs ==
    ASSUME NEW declared, NEW die
    PROVE  die \in Aggregates(declared) <=>
              /\ die = <<die[1], die[2]>>
              /\ die[1] \in DOMAIN debug.units /\ die[2] \in DOMAIN Entries(die[1])
              /\ Entry(die).tag \in AggregateTags /\ ScopeName(die[1], die[2]) # None
              /\ Entry(die).declaration = declared
BY DEF Aggregates, AllDies, Dies

Passed(die) == die[1] < unit \/ (die[1] = unit /\ die[2] < at)

Gathered(declared) == {die \in Aggregates(declared) : Passed(die)}

Definition(die) == [path |-> QualifiedName(die[1], die[2]), unit |-> die[1], at |-> die[2]]

\* The index has the definitions and declarations that the walk has come to, under the
\* names of the scopes around them.
GatheredInv ==
    phase # "failed" =>
        /\ definitions = {Definition(die) : die \in Gathered(FALSE)}
        /\ declarations = {QualifiedName(die[1], die[2]) : die \in Gathered(TRUE)}

\* The walk is over when the last unit is.
PhaseInv ==
    /\ phase \in {"walk", "indexed", "failed"}
    /\ phase = "indexed" => unit \notin DOMAIN debug.units
    /\ phase = "failed" => definitions = {}

IndexInv == WalkInv /\ GatheredInv /\ PhaseInv

LEMMA SameNames ==
    ASSUME debug' = debug
    PROVE  /\ \A u, p : QualifiedName(u, p)' = QualifiedName(u, p)
           /\ \A declared : Aggregates(declared)' = Aggregates(declared)
<1>1. ASSUME NEW u, NEW p PROVE QualifiedName(u, p)' = QualifiedName(u, p)
    <2> DEFINE N == {a \in ScopingAncestors(u, p) : Scope(u, a).name # None}
    <2> DEFINE order == InOrder(N)
    <2>1. ScopingAncestors(u, p)' = ScopingAncestors(u, p)
        BY SameEntries DEF ScopingAncestors, Ancestors
    <2>2. N' = N
        BY <2>1, SameEntries
    <2>3. order' = order
        <3> HIDE DEF N
        <3> QED BY <2>2
    <2>4. ScopeName(u, p)' = ScopeName(u, p) /\ \A a : Scope(u, a)' = Scope(u, a)
        BY SameEntries
    <2> DEFINE names == [k \in DOMAIN order |-> Scope(u, order[k]).name]
    <2>5. names' = names
        <3> HIDE DEF order
        <3> QED BY <2>3, <2>4
    <2>6. QualifiedName(u, p) = names \o <<ScopeName(u, p)>>
        BY DEF QualifiedName
    <2>7. QualifiedName(u, p)' = names' \o <<ScopeName(u, p)'>>
        BY DEF QualifiedName
    <2> HIDE DEF names
    <2> QED BY <2>4, <2>5, <2>6, <2>7
<1>2. ASSUME NEW declared PROVE Aggregates(declared)' = Aggregates(declared)
    BY SameEntries DEF Aggregates, AllDies, Dies, Entry
<1> QED BY <1>1, <1>2

\* The entry that the walk visits joins those gathered, under its own name.
LEMMA VisitGathers == IndexInv /\ Visit => GatheredInv' /\ PhaseInv'
<1> SUFFICES ASSUME IndexInv, Visit PROVE GatheredInv' /\ PhaseInv'
    OBVIOUS
<1> DEFINE here == <<unit, at>>
<1> DEFINE named == Entry(here).tag \in AggregateTags /\ ScopeName(unit, at) # None
<1> DEFINE path == Path(scopes, ScopeName(unit, at))
<1>1. /\ debug' = debug /\ unit' = unit /\ at' = at + 1 /\ phase' = phase /\ phase = "walk"
      /\ unit \in DOMAIN debug.units /\ at \in DOMAIN Entries(unit)
      /\ definitions' = IF named /\ ~Entry(here).declaration
                        THEN definitions \cup {[path |-> path, unit |-> unit, at |-> at]} ELSE definitions
      /\ declarations' = IF named /\ Entry(here).declaration THEN declarations \cup {path} ELSE declarations
    BY DEF Visit, Reading, Entry
<1>2. /\ DOMAIN Entries(unit) \subseteq Nat /\ DOMAIN debug.units \subseteq Nat
      /\ \A u \in DOMAIN debug.units : DOMAIN Entries(u) \subseteq Nat
      /\ debug \in Debugs /\ scopes \in Seq(Opened)
    <2>1. debug \in Debugs /\ scopes \in Seq(Opened)
        BY DEF IndexInv, WalkInv, WalkTypes
    <2>2. \A u \in DOMAIN debug.units :
              Len(Entries(u)) \in Nat /\ DOMAIN Entries(u) = 1..Len(Entries(u))
              /\ Len(debug.units) \in Nat /\ DOMAIN debug.units = 1..Len(debug.units)
        BY <2>1, UnitShape
    <2> QED BY <1>1, <2>1, <2>2
<1>3. path = QualifiedName(unit, at)
    <2>1. Holds(scopes, unit, ScopingAncestors(unit, at))
        BY InvariantSuffices DEF ScopesAreAncestors, Visit, IndexInv
    <2>2. Len(scopes) \in Nat /\ DOMAIN scopes = 1..Len(scopes)
        BY <1>2
    <2> QED BY <1>1, <1>2, <2>1, <2>2, StackNames
<1>4. ASSUME NEW declared \in BOOLEAN
      PROVE  Gathered(declared)' = IF named /\ Entry(here).declaration = declared
                                   THEN Gathered(declared) \cup {here} ELSE Gathered(declared)
    <2>1. Aggregates(declared)' = Aggregates(declared)
        BY <1>1, SameNames
    <2>2. ASSUME NEW die \in Aggregates(declared)
          PROVE  Passed(die)' <=> Passed(die) \/ die = here
        <3>1. die = <<die[1], die[2]>> /\ die[1] \in Nat /\ die[2] \in Nat
            BY <1>2, <2>2, AggregateIs
        <3>2. unit \in Nat /\ at \in Nat
            BY <1>1, <1>2
        <3> QED BY <1>1, <3>1, <3>2 DEF Passed
    <2>3. here \in Aggregates(declared) <=> named /\ Entry(here).declaration = declared
        BY <1>1, AggregateIs
    <2>4. Gathered(declared)' = {die \in Aggregates(declared) : Passed(die)'}
        BY <2>1 DEF Gathered
    <2> HIDE DEF here, named
    <2> QED BY <2>2, <2>3, <2>4 DEF Gathered
<1>5. Entry(here).declaration \in BOOLEAN
    BY <1>1, <1>2, DebugAssumption DEF Entry, Entries
<1>6. /\ definitions = {Definition(die) : die \in Gathered(FALSE)}
      /\ declarations = {QualifiedName(die[1], die[2]) : die \in Gathered(TRUE)}
    BY <1>1 DEF IndexInv, GatheredInv
<1>7. \A die : Definition(die)' = Definition(die)
    BY <1>1, SameNames DEF Definition
<1>8. Definition(here) = [path |-> path, unit |-> unit, at |-> at]
    BY <1>3 DEF Definition
<1>9. definitions' = {Definition(die) : die \in Gathered(FALSE)'}
    <2> HIDE DEF here, named, path
    <2>1. CASE named /\ ~Entry(here).declaration
        BY <1>1, <1>4, <1>5, <1>6, <1>8, <2>1
    <2>2. CASE ~(named /\ ~Entry(here).declaration)
        BY <1>1, <1>4, <1>5, <1>6, <2>2
    <2> QED BY <2>1, <2>2
<1>10. declarations' = {QualifiedName(die[1], die[2]) : die \in Gathered(TRUE)'}
    <2>1. QualifiedName(here[1], here[2]) = path
        BY <1>3
    <2> HIDE DEF here, named, path
    <2>2. CASE named /\ Entry(here).declaration
        BY <1>1, <1>4, <1>5, <1>6, <2>1, <2>2
    <2>3. CASE ~(named /\ Entry(here).declaration)
        BY <1>1, <1>4, <1>5, <1>6, <2>3
    <2> QED BY <2>2, <2>3
<1>11. GatheredInv'
    <2>1. {Definition(die)' : die \in Gathered(FALSE)'} = {Definition(die) : die \in Gathered(FALSE)'}
        BY <1>7
    <2>2. {QualifiedName(die[1], die[2])' : die \in Gathered(TRUE)'}
            = {QualifiedName(die[1], die[2]) : die \in Gathered(TRUE)'}
        BY <1>1, SameNames
    <2> QED BY <1>9, <1>10, <2>1, <2>2 DEF GatheredInv
<1> QED BY <1>1, <1>11 DEF PhaseInv

\* What has been passed stays so, and nothing joins, when the walk turns to the next unit,
\* pops a scope, ends or stutters.
LEMMA GatheredKept ==
    ASSUME IndexInv, debug' = debug, definitions' = definitions, declarations' = declarations,
           \A declared : \A die \in Aggregates(declared) : Passed(die)' <=> Passed(die),
           phase # "failed"
    PROVE  GatheredInv'
<1>1. \A declared : Gathered(declared)' = Gathered(declared)
    BY SameNames DEF Gathered
<1>2. \A die : /\ Definition(die)' = Definition(die)
               /\ QualifiedName(die[1], die[2])' = QualifiedName(die[1], die[2])
    BY SameNames DEF Definition
<1>3. /\ definitions = {Definition(die) : die \in Gathered(FALSE)}
      /\ declarations = {QualifiedName(die[1], die[2]) : die \in Gathered(TRUE)}
    BY DEF IndexInv, GatheredInv
<1> QED BY <1>1, <1>2, <1>3 DEF GatheredInv

LEMMA OthersGather ==
    ASSUME IndexInv, Pop \/ NextUnit \/ Indexed \/ WalkFails \/ UNCHANGED indexVars
    PROVE  GatheredInv' /\ PhaseInv'
<1>1. CASE NextUnit
    <2>1. /\ debug' = debug /\ definitions' = definitions /\ declarations' = declarations
          /\ unit' = unit + 1 /\ at' = 1 /\ phase' = phase /\ phase = "walk"
          /\ unit \in DOMAIN debug.units /\ at \notin DOMAIN Entries(unit)
        BY <1>1 DEF NextUnit
    <2>2. /\ debug \in Debugs /\ at \in 1..(Len(Entries(unit)) + 1)
          /\ DOMAIN debug.units = 1..Len(debug.units) /\ Len(debug.units) \in Nat
          /\ \A u \in DOMAIN debug.units : Len(Entries(u)) \in Nat /\ DOMAIN Entries(u) = 1..Len(Entries(u))
        BY <2>1, UnitShape DEF IndexInv, WalkInv, WalkTypes, Walking
    <2>3. at = Len(Entries(unit)) + 1
        BY <2>1, <2>2
    <2>4. ASSUME NEW declared, NEW die \in Aggregates(declared) PROVE Passed(die)' <=> Passed(die)
        <3>1. die[1] \in DOMAIN debug.units /\ die[2] \in DOMAIN Entries(die[1])
            BY <2>4, AggregateIs
        <3>2. die[1] \in Nat /\ die[2] \in Nat \ {0} /\ (die[1] = unit => die[2] < at) /\ unit \in Nat
            BY <2>1, <2>2, <2>3, <3>1
        <3> QED BY <2>1, <3>2 DEF Passed
    <2>5. GatheredInv'
        BY <2>1, <2>4, GatheredKept
    <2> QED BY <2>1, <2>5 DEF PhaseInv
<1>2. CASE Pop \/ Indexed
    <2>1. /\ debug' = debug /\ definitions' = definitions /\ declarations' = declarations
          /\ unit' = unit /\ at' = at /\ phase = "walk"
        BY <1>2 DEF Pop, Reading, Indexed
    <2>2. GatheredInv'
        BY <2>1, GatheredKept DEF Passed
    <2>3. PhaseInv'
        BY <1>2, <2>1 DEF PhaseInv, Pop, Reading, Indexed
    <2> QED BY <2>2, <2>3
<1>3. CASE WalkFails
    BY <1>3 DEF WalkFails, GatheredInv, PhaseInv
<1>4. CASE UNCHANGED indexVars
    <2>1. /\ debug' = debug /\ definitions' = definitions /\ declarations' = declarations
          /\ unit' = unit /\ at' = at /\ phase' = phase
        BY <1>4 DEF indexVars
    <2>2. CASE phase = "failed"
        BY <2>1, <2>2 DEF IndexInv, GatheredInv, PhaseInv
    <2>3. CASE phase # "failed"
        <3>1. GatheredInv'
            BY <2>1, <2>3, GatheredKept DEF Passed
        <3> QED BY <2>1, <3>1 DEF PhaseInv, IndexInv
    <2> QED BY <2>1, <2>2, <2>3 DEF IndexInv, PhaseInv
<1> QED BY <1>1, <1>2, <1>3, <1>4

LEMMA IndexKeeps == IndexInv /\ (IndexStep \/ UNCHANGED indexVars) => IndexInv'
<1> SUFFICES ASSUME IndexInv, IndexStep \/ UNCHANGED indexVars PROVE IndexInv'
    OBVIOUS
<1>1. WalkInv'
    BY PopKeeps, VisitKeeps, NextUnitKeeps, EndKeeps, StutterKeeps DEF IndexStep, IndexInv
<1>2. GatheredInv' /\ PhaseInv'
    BY VisitGathers, OthersGather DEF IndexStep
<1> QED BY <1>1, <1>2 DEF IndexInv

LEMMA IndexInit == Init => IndexInv
<1> SUFFICES ASSUME Init PROVE IndexInv
    OBVIOUS
<1>1. /\ debug \in Debugs /\ unit = 1 /\ at = 1 /\ definitions = {} /\ declarations = {} /\ phase = "walk"
    BY DEF Init
<1>2. ASSUME NEW declared PROVE Gathered(declared) = {}
    <2> SUFFICES ASSUME NEW die \in Aggregates(declared), Passed(die) PROVE FALSE
        BY DEF Gathered
    <2>1. die[1] \in DOMAIN debug.units /\ die[2] \in DOMAIN Entries(die[1])
        BY AggregateIs
    <2>2. die[1] \in Nat \ {0} /\ die[2] \in Nat \ {0}
        BY <1>1, <2>1, UnitShape
    <2> QED BY <1>1, <2>2 DEF Passed
<1> QED BY <1>1, <1>2, InitHolds DEF IndexInv, GatheredInv, PhaseInv

-----------------------------------------------------------------------------
(* What a type query answers.                                              *)

\* Layouts are those of the definitions, whatever else they say.
LayoutsOf(f) ==
    \A d \in definitions : f[d].path = d.path /\ f[d].die = <<d.unit, d.at>> /\ ~f[d].declared

AnswerInv ==
    query = "types" /\ answer # None /\ answer.status = "ok" =>
        /\ phase = "indexed"
        /\ \E f : /\ LayoutsOf(f)
                  /\ answer.found = {f[d] : d \in definitions} \cup {Declaration(path) : path \in Declared}

ReaderInv == IndexInv /\ AnswerInv

LEMMA ReaderInitHolds == ReaderInit => ReaderInv
BY IndexInit DEF ReaderInit, ReaderInv, AnswerInv

LEMMA SameAnswer ==
    ASSUME AnswerInv, UNCHANGED <<indexVars, query, answer>>
    PROVE  AnswerInv'
<1>1. /\ definitions' = definitions /\ declarations' = declarations /\ phase' = phase
      /\ query' = query /\ answer' = answer
    BY DEF indexVars
<1>2. Declared' = Declared /\ \A path : Declaration(path)' = Declaration(path)
    BY <1>1 DEF Declared, Declaration
<1>3. \A f : LayoutsOf(f)' <=> LayoutsOf(f)
    BY <1>1 DEF LayoutsOf
<1> QED BY <1>1, <1>2, <1>3 DEF AnswerInv

LEMMA FindTypesAnswers == IndexInv /\ FindTypes => AnswerInv'
<1> SUFFICES ASSUME IndexInv, FindTypes PROVE AnswerInv'
    OBVIOUS
<1>1. /\ definitions' = definitions /\ declarations' = declarations /\ phase' = phase /\ query' = query
      /\ answer' = IF phase = "failed" THEN Failure("Malformed")
                   ELSE Found({Layout(d) : d \in definitions} \cup {Declaration(p) : p \in Declared})
      /\ phase # "walk"
    BY DEF FindTypes, Answer, indexVars
<1>2. CASE phase = "failed"
    BY <1>1, <1>2 DEF AnswerInv, Failure
<1>3. CASE phase # "failed"
    <2>1. phase = "indexed"
        BY <1>1, <1>3 DEF IndexInv, PhaseInv
    <2>2. PICK f : f = [d \in definitions |-> Layout(d)]
        OBVIOUS
    <2>3. \A d \in definitions :
              f[d].path = d.path /\ f[d].die = <<d.unit, d.at>> /\ ~f[d].declared
        BY <2>2 DEF Layout
    <2>4. answer'.found = {f[d] : d \in definitions} \cup {Declaration(p) : p \in Declared}
        BY <1>1, <1>3, <2>2 DEF Found
    <2>5. Declared' = Declared /\ \A path : Declaration(path)' = Declaration(path)
        BY <1>1 DEF Declared, Declaration
    <2>6. LayoutsOf(f)'
        BY <1>1, <2>3 DEF LayoutsOf
    <2> HIDE <2>2
    <2> QED BY <1>1, <2>1, <2>4, <2>5, <2>6 DEF AnswerInv
<1> QED BY <1>2, <1>3

LEMMA ReaderKeeps == ReaderInv /\ [Next]_vars => ReaderInv'
<1> SUFFICES ASSUME ReaderInv, [Next]_vars PROVE ReaderInv'
    OBVIOUS
<1>1. CASE Index
    <2>1. IndexStep /\ query' = query /\ answer' = answer
        BY <1>1 DEF Index
    <2>2. IndexInv'
        BY <2>1, IndexKeeps DEF ReaderInv
    <2>3. phase = "walk"
        BY <2>1 DEF IndexStep, Pop, Visit, Reading, NextUnit, Indexed, WalkFails
    <2>4. AnswerInv'
        BY <2>1, <2>3 DEF ReaderInv, AnswerInv
    <2> QED BY <2>2, <2>4 DEF ReaderInv
<1>2. CASE FindTypes
    <2>1. UNCHANGED indexVars
        BY <1>2 DEF FindTypes, Answer
    <2> QED BY <1>2, <2>1, IndexKeeps, FindTypesAnswers DEF ReaderInv
<1>3. CASE (\E u \in 1..(Len(debug.units) + 1) : FindFunctions(u)) \/ FindVariables
    <2>1. UNCHANGED indexVars /\ query' = query /\ query # "types"
        BY <1>3 DEF FindFunctions, FindVariables, Answer
    <2> QED BY <2>1, IndexKeeps DEF ReaderInv, AnswerInv
<1>4. CASE Answered \/ UNCHANGED vars
    <2>1. UNCHANGED <<indexVars, query, answer>> /\ UNCHANGED indexVars
        BY <1>4 DEF Answered, vars
    <2> QED BY <2>1, IndexKeeps, SameAnswer DEF ReaderInv
<1> QED BY <1>1, <1>2, <1>3, <1>4 DEF Next

LEMMA FiniteAggregates ==
    ASSUME debug \in Debugs, NEW declared
    PROVE  IsFiniteSet(Aggregates(declared))
<1>1. /\ Len(debug.units) \in Nat /\ DOMAIN debug.units = 1..Len(debug.units)
      /\ \A u \in DOMAIN debug.units : Len(Entries(u)) \in Nat /\ DOMAIN Entries(u) = 1..Len(Entries(u))
    BY DebugAssumption DEF Entries
<1>2. ASSUME NEW u \in DOMAIN debug.units PROVE IsFiniteSet(Dies(u))
    <2>1. IsFiniteSet({u}) /\ IsFiniteSet(1..Len(Entries(u)))
        <3>1. Len(Entries(u)) \in Int /\ 1 \in Int
            BY <1>1
        <3>2. IsFiniteSet(1..Len(Entries(u)))
            BY <3>1, FS_Interval
        <3>3. IsFiniteSet({u})
            BY FS_Singleton
        <3> QED BY <3>2, <3>3
    <2>2. IsFiniteSet({u} \X (1..Len(Entries(u))))
        BY <2>1, FS_Product
    <2>3. Dies(u) \in SUBSET ({u} \X (1..Len(Entries(u))))
        BY <1>1 DEF Dies
    <2> QED BY <2>2, <2>3, FS_Subset
<1> DEFINE dies == [u \in DOMAIN debug.units |-> Dies(u)]
<1> DEFINE all == {Dies(u) : u \in DOMAIN debug.units}
<1>3. IsFiniteSet(all)
    <2>1. dies \in [DOMAIN debug.units -> all] /\ \A T \in all : \E u \in DOMAIN debug.units : dies[u] = T
        OBVIOUS
    <2>2. IsFiniteSet(DOMAIN debug.units)
        BY <1>1, FS_Interval
    <2> HIDE DEF dies, all
    <2>3. dies \in Surjection(DOMAIN debug.units, all)
        BY <2>1 DEF Surjection
    <2> QED BY <2>2, <2>3, FS_Surjection
<1>4. IsFiniteSet(UNION all)
    <2>1. \A T \in all : IsFiniteSet(T)
        BY <1>2
    <2> HIDE DEF all
    <2> QED BY <1>3, <2>1, FS_UNION
<1>5. Aggregates(declared) \in SUBSET (UNION all)
    BY DEF Aggregates, AllDies
<1> HIDE DEF all
<1> QED BY <1>4, <1>5, FS_Subset

\* Once the walk is over it has passed all entries, and the answer is what it gathered.
LEMMA AnswerNamesAll == ReaderInv => EveryTypeNamed
<1> SUFFICES ASSUME ReaderInv, query = "types", answer # None, answer.status = "ok"
             PROVE  LET Name(die)    == QualifiedName(die[1], die[2])
                        complete     == {l \in answer.found : ~l.declared}
                        declared     == answer.found \ complete
                        onlyDeclared == {Name(die) : die \in Aggregates(TRUE)} \ {Name(die) : die \in Aggregates(FALSE)}
                    IN /\ {<<l.path, l.die>> : l \in complete} = {<<Name(die), die>> : die \in Aggregates(FALSE)}
                       /\ Cardinality(complete) = Cardinality(Aggregates(FALSE))
                       /\ {l.path : l \in declared} = onlyDeclared
                       /\ Cardinality(declared) = Cardinality(onlyDeclared)
    BY DEF EveryTypeNamed
<1> DEFINE Name(die)    == QualifiedName(die[1], die[2])
<1> DEFINE complete     == {l \in answer.found : ~l.declared}
<1> DEFINE declared     == answer.found \ complete
<1> DEFINE onlyDeclared == {Name(die) : die \in Aggregates(TRUE)} \ {Name(die) : die \in Aggregates(FALSE)}
<1>1. PICK f : /\ LayoutsOf(f) /\ phase = "indexed"
               /\ answer.found = {f[d] : d \in definitions} \cup {Declaration(path) : path \in Declared}
    BY DEF ReaderInv, AnswerInv
<1>2. debug \in Debugs /\ unit \in 1..(Len(debug.units) + 1) /\ unit \notin DOMAIN debug.units
    BY <1>1 DEF ReaderInv, IndexInv, WalkInv, WalkTypes, PhaseInv
<1>3. ASSUME NEW d PROVE Gathered(d) = Aggregates(d)
    <2> SUFFICES ASSUME NEW die \in Aggregates(d) PROVE Passed(die)
        BY DEF Gathered
    <2>1. die[1] \in DOMAIN debug.units
        BY AggregateIs
    <2>2. Len(debug.units) \in Nat /\ DOMAIN debug.units = 1..Len(debug.units)
        BY <1>2, DebugAssumption
    <2> QED BY <1>2, <2>1, <2>2 DEF Passed
<1>4. /\ definitions = {Definition(die) : die \in Aggregates(FALSE)}
      /\ declarations = {Name(die) : die \in Aggregates(TRUE)}
    BY <1>1, <1>3 DEF ReaderInv, IndexInv, GatheredInv
<1>5. \A die \in Aggregates(FALSE) :
          /\ Definition(die) \in definitions
          /\ f[Definition(die)].path = Name(die) /\ f[Definition(die)].die = die /\ ~f[Definition(die)].declared
    <2> SUFFICES ASSUME NEW die \in Aggregates(FALSE)
                 PROVE  /\ Definition(die) \in definitions
                        /\ f[Definition(die)].path = Name(die) /\ f[Definition(die)].die = die
                        /\ ~f[Definition(die)].declared
        OBVIOUS
    <2>1. Definition(die) \in definitions
        BY <1>4
    <2>2. die = <<die[1], die[2]>>
        BY AggregateIs
    <2>3. Definition(die).path = Name(die) /\ <<Definition(die).unit, Definition(die).at>> = die
        BY <2>2 DEF Definition
    <2> QED BY <1>1, <2>1, <2>3 DEF LayoutsOf
<1>13. /\ \A path : Declaration(path).declared
      /\ \A d \in definitions : ~f[d].declared /\ \E die \in Aggregates(FALSE) : d = Definition(die)
    BY <1>1, <1>4 DEF Declaration, LayoutsOf
<1>6. complete = {f[Definition(die)] : die \in Aggregates(FALSE)}
    <2>1. complete = {f[d] : d \in definitions}
        BY <1>1, <1>13
    <2>2. \A d \in definitions : \E die \in Aggregates(FALSE) : f[d] = f[Definition(die)]
        BY <1>13
    <2>3. \A die \in Aggregates(FALSE) : Definition(die) \in definitions
        BY <1>5
    <2> HIDE DEF complete
    <2> QED BY <2>1, <2>2, <2>3
<1>7. declared = {Declaration(path) : path \in Declared}
    BY <1>1, <1>13
<1>8. Declared = onlyDeclared
    <2>1. \A die : Definition(die).path = Name(die)
        BY DEF Definition
    <2> HIDE DEF Name
    <2>2. \A path : (\A d \in definitions : d.path # path) <=> path \notin {Name(die) : die \in Aggregates(FALSE)}
        BY <1>4, <2>1
    <2> QED BY <1>4, <2>2 DEF Declared
<1>9. {<<l.path, l.die>> : l \in complete} = {<<Name(die), die>> : die \in Aggregates(FALSE)}
    <2>1. ASSUME NEW l \in complete
          PROVE  \E die \in Aggregates(FALSE) : l.path = Name(die) /\ l.die = die
        <3> HIDE DEF complete, Name
        <3>1. PICK die \in Aggregates(FALSE) : l = f[Definition(die)]
            BY <1>6
        <3> QED BY <1>5, <3>1
    <2>2. \A die \in Aggregates(FALSE) : \E l \in complete : l.path = Name(die) /\ l.die = die
        <3> HIDE DEF complete, Name
        <3> QED BY <1>5, <1>6
    <2> HIDE DEF complete, Name
    <2> QED BY <2>1, <2>2
<1>10. Cardinality(complete) = Cardinality(Aggregates(FALSE))
    <2> DEFINE g == [die \in Aggregates(FALSE) |-> f[Definition(die)]]
    <2>1. IsFiniteSet(Aggregates(FALSE))
        BY <1>2, FiniteAggregates
    <2>2. /\ g \in [Aggregates(FALSE) -> complete]
          /\ \A c, d \in Aggregates(FALSE) : g[c] = g[d] => c = d
          /\ \A l \in complete : \E die \in Aggregates(FALSE) : g[die] = l
        <3> HIDE DEF complete, Name
        <3> QED BY <1>5, <1>6
    <2>3. ExistsBijection(Aggregates(FALSE), complete)
        <3> HIDE DEF g, complete
        <3> QED BY <2>2 DEF ExistsBijection, Bijection, Injection, IsInjective, Surjection
    <2> HIDE DEF complete
    <2> QED BY <2>1, <2>3, FS_Bijection
<1>11. {l.path : l \in declared} = onlyDeclared
    <2>1. \A path : Declaration(path).path = path
        BY DEF Declaration
    <2> HIDE DEF declared, onlyDeclared
    <2> QED BY <1>7, <1>8, <2>1
<1>12. Cardinality(declared) = Cardinality(onlyDeclared)
    <2> DEFINE names == [die \in Aggregates(TRUE) |-> Name(die)]
    <2> DEFINE all == {Name(die) : die \in Aggregates(TRUE)}
    <2>1. IsFiniteSet(all)
        <3>1. names \in [Aggregates(TRUE) -> all] /\ \A n \in all : \E die \in Aggregates(TRUE) : names[die] = n
            <4> HIDE DEF Name
            <4> QED OBVIOUS
        <3>2. IsFiniteSet(Aggregates(TRUE))
            BY <1>2, FiniteAggregates
        <3> HIDE DEF names, all
        <3>3. names \in Surjection(Aggregates(TRUE), all)
            BY <3>1 DEF Surjection
        <3> QED BY <3>2, <3>3, FS_Surjection
    <2>2. IsFiniteSet(onlyDeclared)
        <3>1. onlyDeclared \in SUBSET all
            OBVIOUS
        <3> HIDE DEF onlyDeclared, all
        <3> QED BY <2>1, <3>1, FS_Subset
    <2> DEFINE g == [path \in onlyDeclared |-> Declaration(path)]
    <2>3. \A path : Declaration(path).path = path
        BY DEF Declaration
    <2> HIDE DEF onlyDeclared, declared
    <2>4. /\ g \in [onlyDeclared -> declared]
          /\ \A c, d \in onlyDeclared : g[c] = g[d] => c = d
          /\ \A l \in declared : \E path \in onlyDeclared : g[path] = l
        BY <1>7, <1>8, <2>3
    <2>5. ExistsBijection(onlyDeclared, declared)
        <3> HIDE DEF g
        <3> QED BY <2>4 DEF ExistsBijection, Bijection, Injection, IsInjective, Surjection
    <2> QED BY <2>2, <2>5, FS_Bijection
<1> QED BY <1>9, <1>10, <1>11, <1>12

\* The reader keeps its invariant whatever it is asked.
THEOREM ReaderInvariant == Spec => []ReaderInv
BY ReaderInitHolds, ReaderKeeps, PTL DEF Spec

\* Every complete aggregate of every unit is answered once, under the names of the scopes
\* around it, and a name that is only declared by one declaration, whatever the units hold.
THEOREM ReaderNamesEveryType == Spec => []EveryTypeNamed
BY ReaderInvariant, AnswerNamesAll, PTL

-----------------------------------------------------------------------------
(* Sizes.                                                                  *)

\* A reference leads to an entry of the units, if it leads anywhere.
LEMMA TypeOfIsEntry == \A die : TypeOf(die) \in Maybe(AllDies)
<1>1. \A u, p : EntryAt(u, p) \in Maybe(AllDies)
    BY DEF EntryAt, Maybe, AllDies, Dies
<1>2. \A s : Signed(s) \in Maybe(AllDies)
    BY <1>1 DEF Signed, Maybe
<1>3. \A u, ref : ResolveOnce(u, ref) \in Maybe(AllDies)
    BY <1>1, <1>2 DEF ResolveOnce
<1>4. \A u, ref : Resolve(u, ref) \in Maybe(AllDies)
    BY <1>2, <1>3 DEF Resolve, Maybe
<1> QED BY <1>4 DEF TypeOf

Numbers(entry) ==
    {entry.byteSize, entry.lower, entry.upper, entry.count, entry.alignment, entry.location,
     entry.bitSize, entry.bitOffset, entry.dataBitOffset, entry.address}

\* What the assumption says of an entry's numbers.
LEMMA EntryNumbers ==
    ASSUME debug \in Debugs, NEW die \in AllDies
    PROVE  /\ die = <<die[1], die[2]>> /\ die[1] \in DOMAIN debug.units /\ die[2] \in DOMAIN Entries(die[1])
           /\ \A n \in Numbers(Entry(die)) : n \in Maybe(0..(Word - 1))
           /\ Len(Entry(die).ranges) \in Nat /\ DOMAIN Entry(die).ranges = 1..Len(Entry(die).ranges)
           /\ \A k \in DOMAIN Entry(die).ranges : \A end \in 1..2 : Entry(die).ranges[k][end] \in 0..(Word - 1)
           /\ debug.addressSize \in 0..(Word - 1)
<1>1. /\ die = <<die[1], die[2]>> /\ die[1] \in DOMAIN debug.units /\ die[2] \in DOMAIN Entries(die[1])
    BY DEF AllDies, Dies
<1>2. /\ Entry(die) = debug.units[die[1]].entries[die[2]]
      /\ die[2] \in DOMAIN debug.units[die[1]].entries
    BY <1>1 DEF Entry, Entries
<1>3. debug.addressSize \in 0..(Word - 1)
    BY ReaderAssumption
<1>4. \A u \in DOMAIN debug.units : \A p \in DOMAIN debug.units[u].entries :
          LET entry == debug.units[u].entries[p]
          IN  /\ Numbers(entry) \subseteq Maybe(0..(Word - 1))
              /\ Len(entry.ranges) \in Nat /\ DOMAIN entry.ranges = 1..Len(entry.ranges)
              /\ \A k \in DOMAIN entry.ranges : \A end \in 1..2 : entry.ranges[k][end] \in 0..(Word - 1)
    BY ReaderAssumption, Zenon DEF Numbers
<1> DEFINE entry == debug.units[die[1]].entries[die[2]]
<1>5. Numbers(entry) \subseteq Maybe(0..(Word - 1))
    BY <1>1, <1>2, <1>4, Zenon
<1>6. /\ Len(entry.ranges) \in Nat /\ DOMAIN entry.ranges = 1..Len(entry.ranges)
      /\ \A k \in DOMAIN entry.ranges : \A end \in 1..2 : entry.ranges[k][end] \in 0..(Word - 1)
    BY <1>1, <1>2, <1>4, Zenon
<1>7. Entry(die) = entry
    BY <1>2
<1> QED BY <1>1, <1>3, <1>5, <1>6, <1>7

LEMMA SubrangeCounts ==
    ASSUME debug \in Debugs, NEW die \in AllDies
    PROVE  SubrangeCount(Entry(die)) \in Maybe(Nat)
<1>1. Word \in Nat
    BY ReaderAssumption
<1>2. /\ Entry(die).lower \in Maybe(0..(Word - 1)) /\ Entry(die).upper \in Maybe(0..(Word - 1))
      /\ Entry(die).count \in Maybe(0..(Word - 1))
    BY EntryNumbers DEF Numbers
<1> QED BY <1>1, <1>2 DEF SubrangeCount, Maybe

Dimensions(die) == InOrder({c[2] : c \in OfTag(Children(die), {"subrange"})})
CountAt(die, k) == SubrangeCount(Entry(<<die[1], Dimensions(die)[k]>>))
Times(v, n) == IF v = None \/ n = None \/ v * n >= Word THEN None ELSE v * n

\* These are the products of the first dimensions of an array, and the last is what is found.
Multiplies(total, die) ==
    /\ total[0] = 1
    /\ \A k \in 0..Len(Dimensions(die)) : total[k] \in Maybe(Nat)
    /\ \A k \in 1..Len(Dimensions(die)) : total[k] = Times(total[k - 1], CountAt(die, k))
    /\ ArrayElements(die) = IF Dimensions(die) = <<>> THEN None ELSE total[Len(Dimensions(die))]

LEMMA ArrayElementsAre ==
    ASSUME debug \in Debugs, NEW die \in AllDies
    PROVE  /\ Len(Dimensions(die)) \in Nat /\ DOMAIN Dimensions(die) = 1..Len(Dimensions(die))
           /\ \A k \in DOMAIN Dimensions(die) : <<die[1], Dimensions(die)[k]>> \in AllDies
           /\ \E total : Multiplies(total, die)
<1> DEFINE S == {c[2] : c \in OfTag(Children(die), {"subrange"})}
<1> DEFINE ranges == InOrder(S)
<1> DEFINE count(k) == SubrangeCount(Entry(<<die[1], ranges[k]>>))
<1> DEFINE step(k, v) == IF v = None \/ count(k) = None \/ v * count(k) >= Word THEN None ELSE v * count(k)
<1> DEFINE V == Maybe(Nat)
<1>1. die[1] \in DOMAIN debug.units /\ Len(Entries(die[1])) \in Nat
      /\ DOMAIN Entries(die[1]) = 1..Len(Entries(die[1]))
    BY EntryNumbers, UnitShape
<1>2. \A s \in S : s \in DOMAIN Entries(die[1])
    <2>1. \A c \in OfTag(Children(die), {"subrange"}) : c[2] \in DOMAIN Entries(die[1])
        <3> SUFFICES ASSUME NEW c \in Children(die) PROVE c[2] \in DOMAIN Entries(die[1])
            BY DEF OfTag
        <3>1. PICK p \in DOMAIN Entries(die[1]) : c = <<die[1], p>>
            BY DEF Children
        <3> QED BY <3>1
    <2> QED BY <2>1
<1>3. S \in SUBSET Nat /\ IsFiniteSet(S)
    <2> HIDE DEF S
    <2>1. S \in SUBSET (1..Len(Entries(die[1])))
        BY <1>1, <1>2
    <2>2. IsFiniteSet(1..Len(Entries(die[1])))
        BY <1>1, FS_Interval
    <2>3. \A s \in S : s \in Nat
        BY <1>1, <1>2
    <2> QED BY <2>1, <2>2, <2>3, FS_Subset, Zenon
<1> DEFINE n == Cardinality(S)
<1>4. n \in Nat /\ ranges \in [1..n -> S] /\ DOMAIN ranges = 1..n
    <2>1. n \in Nat /\ ranges \in [1..n -> S]
        <3> HIDE DEF S
        <3> QED BY <1>3, InOrderLists
    <2> HIDE DEF ranges
    <2> QED BY <2>1
<1>5. Len(ranges) = n
    <2> HIDE DEF ranges, n
    <2> QED BY <1>4
<1>6. \A k \in 1..n : count(k) \in V /\ <<die[1], ranges[k]>> \in AllDies
    <2> SUFFICES ASSUME NEW k \in 1..n PROVE count(k) \in V /\ <<die[1], ranges[k]>> \in AllDies
        OBVIOUS
    <2>1. ranges[k] \in DOMAIN Entries(die[1])
        <3> HIDE DEF S, ranges, n
        <3> QED BY <1>2, <1>4
    <2>2. <<die[1], ranges[k]>> \in AllDies
        <3> HIDE DEF ranges
        <3> QED BY <1>1, <2>1 DEF AllDies, Dies
    <2> HIDE DEF ranges
    <2> QED BY <2>2, SubrangeCounts
<1>7. \A k \in 1..n : \A v \in V : step(k, v) \in V
    <2> SUFFICES ASSUME NEW k \in 1..n, NEW v \in V PROVE step(k, v) \in V
        OBVIOUS
    <2>1. count(k) \in Maybe(Nat) /\ v \in Maybe(Nat)
        BY <1>6
    <2> HIDE DEF count
    <2> QED BY <2>1 DEF Maybe
<1> DEFINE F == [p \in (1..n) \X V |-> step(p[1], p[2])]
<1> DEFINE Total(g) ==
        g = [k \in 0..Len(ranges) |-> IF k = 0 THEN 1 ELSE step(k, g[k - 1])]
<1>8. \E g : Total(g)
    <2>1. \A k \in 1..n : \A v \in V : F[<<k, v>>] = step(k, v) /\ F[<<k, v>>] \in V
        <3> HIDE DEF step, V, n
        <3> QED BY <1>7
    <2>2. 1 \in V
        BY DEF Maybe
    <2>3. PICK g : History(g, F, 1, n, V)
        <3>1. StepsWithin(F, n, V)
            <4> HIDE DEF F, V, n
            <4> QED BY <2>1 DEF StepsWithin
        <3> HIDE DEF F, V, n
        <3> QED BY <1>4, <2>2, <3>1, StepByStep
    <2>7. g \in [0..n -> V] /\ g[0] = 1 /\ \A k \in 1..n : g[k] = F[<<k, g[k - 1]>>]
        <3> HIDE DEF F, V, n
        <3> QED BY <2>3 DEF History
    <2>4. \A k \in 1..n : g[k] = step(k, g[k - 1])
        <3> SUFFICES ASSUME NEW k \in 1..n PROVE g[k] = step(k, g[k - 1])
            OBVIOUS
        <3>1. k - 1 \in 0..n
            <4> HIDE DEF n
            <4> QED BY <1>4
        <3> HIDE DEF F, V, step, n
        <3> QED BY <2>1, <2>7, <3>1
    <2>5. \A k \in 0..n : g[k] = IF k = 0 THEN 1 ELSE step(k, g[k - 1])
        <3> SUFFICES ASSUME NEW k \in 0..n PROVE g[k] = IF k = 0 THEN 1 ELSE step(k, g[k - 1])
            OBVIOUS
        <3>1. k # 0 => k \in 1..n
            <4> HIDE DEF n
            <4> QED BY <1>4
        <3> HIDE DEF step, n, V
        <3> QED BY <2>7, <2>4, <3>1
    <2>6. Total(g)
        <3> HIDE DEF step, n, V, ranges
        <3> QED BY <1>5, <2>7, <2>5
    <2> HIDE DEF Total
    <2> QED BY <2>6
<1> DEFINE total == CHOOSE g : Total(g)
<1>9. Total(total)
    <2> HIDE DEF Total
    <2> QED BY <1>8
<1>12. total = [k \in 0..n |-> IF k = 0 THEN 1 ELSE step(k, total[k - 1])]
    <2> HIDE DEF total, step, n, ranges
    <2> QED BY <1>5, <1>9
<1>10. total[0] = 1 /\ (\A k \in 1..n : total[k] = step(k, total[k - 1]))
    <2> HIDE DEF total, step, n
    <2> QED BY <1>4, <1>12
<1>13. \A k \in 0..n : total[k] \in V
    <2> HIDE DEF total
    <2>1. total[0] \in V
        BY <1>10 DEF Maybe
    <2>3. \A k \in 1..n : total[k - 1] \in V => total[k] \in V
        <3> HIDE DEF step, n, V
        <3> QED BY <1>7, <1>10
    <2> HIDE DEF V, n
    <2> QED BY <1>4, <2>1, <2>3, HoldsThroughout
<1>11. ArrayElements(die) = IF ranges = <<>> THEN None ELSE total[Len(ranges)]
    BY Zenon DEF ArrayElements
<1>14. Dimensions(die) = ranges
    BY Zenon DEF Dimensions
<1>15. \A k \in 1..n : step(k, total[k - 1]) = Times(total[k - 1], CountAt(die, k))
    <2>1. \A k : count(k) = CountAt(die, k)
        BY <1>14, Zenon DEF CountAt
    <2> HIDE DEF total, count, n
    <2> QED BY <2>1 DEF Times
<1>16. Multiplies(total, die)
    <2> HIDE DEF total, ranges, n, step
    <2> QED BY <1>5, <1>10, <1>11, <1>13, <1>14, <1>15 DEF Multiplies
<1> HIDE DEF total, ranges, n
<1> QED BY <1>4, <1>5, <1>6, <1>14, <1>16

\* The number of elements of an array, if known.
LEMMA ArrayElementsType ==
    ASSUME debug \in Debugs, NEW die \in AllDies
    PROVE  ArrayElements(die) \in Maybe(Nat)
<1>1. PICK total : Multiplies(total, die)
    BY ArrayElementsAre
<1>2. Len(Dimensions(die)) \in 0..Len(Dimensions(die))
    <2>1. Len(Dimensions(die)) \in Nat
        BY ArrayElementsAre
    <2> QED BY <2>1
<1> QED BY <1>1, <1>2 DEF Multiplies, Maybe

Sizes == [AllDies -> Maybe(0..(Word - 1))]

\* The size of an entry, given the one of the type that it refers to.
SizeFrom(inner, die) ==
    LET entry    == Entry(die)
        elements == ArrayElements(die)
    IN IF entry.byteSize # None THEN entry.byteSize
       ELSE IF entry.tag \in PointerTags THEN debug.addressSize
       ELSE IF entry.tag # "array" THEN inner
       ELSE IF inner = None \/ elements = None THEN None ELSE Wrap(inner * elements)

Wraps == \A n \in Nat : Wrap(n) \in 0..(Word - 1)

LEMMA DepthAndWord == MaxDepth \in Nat /\ Word \in Nat /\ Word > 1
BY ReaderAssumption

LEMMA WrapFits == Wraps
BY DepthAndWord DEF Wrap, Wraps

LEMMA SizeFits ==
    ASSUME debug \in Debugs, NEW die \in AllDies, NEW inner \in Maybe(0..(Word - 1))
    PROVE  SizeFrom(inner, die) \in Maybe(0..(Word - 1))
<1>1. Entry(die).byteSize \in Maybe(0..(Word - 1)) /\ debug.addressSize \in Maybe(0..(Word - 1))
    BY EntryNumbers DEF Maybe, Numbers
<1>2. ArrayElements(die) \in Maybe(Nat)
    BY ArrayElementsType
<1>3. ASSUME inner # None, ArrayElements(die) # None
      PROVE  Wrap(inner * ArrayElements(die)) \in Maybe(0..(Word - 1))
    <2>1. inner \in Nat /\ ArrayElements(die) \in Nat
        BY <1>2, <1>3 DEF Maybe
    <2>2. inner * ArrayElements(die) \in Nat
        <3> DEFINE elements == ArrayElements(die)
        <3>1. elements \in Nat
            BY <2>1
        <3> HIDE DEF elements
        <3>2. inner * elements \in Nat
            BY <2>1, <3>1
        <3> QED BY <3>2 DEF elements
    <2> QED BY <2>2, WrapFits DEF Wraps, Maybe
<1> QED BY <1>1, <1>2, <1>3 DEF SizeFrom, Maybe

\* The values found within any number of steps exist, each from those of one step less,
\* and they fit.
LEMMA SizeWithinIs ==
    ASSUME debug \in Debugs
    PROVE  /\ \A left \in 0..MaxDepth : SizeWithin[left] \in Sizes
           /\ \A left \in 0..MaxDepth : \A die \in AllDies :
                 SizeWithin[left][die]
                     = SizeFrom(IF left = 0 THEN None ELSE OfType(SizeWithin[left - 1], die), die)
<1> DEFINE inner(left, prev, die) == IF left = 0 THEN None ELSE OfType(prev, die)
<1> DEFINE step(left, prev) == [die \in AllDies |-> SizeFrom(inner(left, prev, die), die)]
<1>1. MaxDepth \in Nat
    BY DepthAndWord
<1>2. \A left : \A prev \in Sizes : step(left, prev) \in Sizes
    <2> SUFFICES ASSUME NEW left, NEW prev \in Sizes, NEW die \in AllDies
                 PROVE  SizeFrom(inner(left, prev, die), die) \in Maybe(0..(Word - 1))
        BY DEF Sizes
    <2>1. OfType(prev, die) \in Maybe(0..(Word - 1))
        <3>1. TypeOf(die) = None \/ TypeOf(die) \in AllDies
            BY TypeOfIsEntry DEF Maybe
        <3> QED BY <3>1 DEF OfType, Sizes, Maybe
    <2>2. inner(left, prev, die) \in Maybe(0..(Word - 1))
        BY <2>1 DEF Maybe
    <2> HIDE DEF inner
    <2> QED BY <2>2, SizeFits
<1> DEFINE first == step(0, None)
<1>3. first \in Sizes
    <2>1. ASSUME NEW die \in AllDies PROVE SizeFrom(None, die) \in Maybe(0..(Word - 1))
        BY SizeFits DEF Maybe
    <2> QED BY <2>1 DEF Sizes
<1> DEFINE F == [p \in (1..MaxDepth) \X Sizes |-> step(p[1], p[2])]
<1> DEFINE Solves(g) == g = [left \in 0..MaxDepth |-> step(left, g[left - 1])]
<1>4. \A prev : step(0, prev) = first
    OBVIOUS
<1>5. PICK g : History(g, F, first, MaxDepth, Sizes)
    <2>1. StepsWithin(F, MaxDepth, Sizes)
        <3> HIDE DEF step
        <3> QED BY <1>2 DEF StepsWithin
    <2> HIDE DEF F, first
    <2> QED BY <1>1, <1>3, <2>1, StepByStep
<1>6. Solves(g)
    <2>1. g \in [0..MaxDepth -> Sizes] /\ g[0] = first
          /\ \A left \in 1..MaxDepth : g[left] = F[<<left, g[left - 1]>>]
        <3> HIDE DEF F, first
        <3> QED BY <1>5 DEF History
    <2>2. ASSUME NEW left \in 1..MaxDepth PROVE g[left] = step(left, g[left - 1])
        <3>1. left - 1 \in 0..MaxDepth
            BY <1>1
        <3>2. g[left - 1] \in Sizes
            <4> HIDE DEF F, first
            <4> QED BY <2>1, <3>1
        <3>3. F[<<left, g[left - 1]>>] = step(left, g[left - 1])
            <4> HIDE DEF step
            <4> QED BY <3>2
        <3> HIDE DEF F, first, step
        <3> QED BY <2>1, <3>3
    <2>3. g[0] = step(0, g[0 - 1])
        <3> HIDE DEF first, step, F
        <3> QED BY <1>4, <2>1
    <2>4. \A left \in 0..MaxDepth : g[left] = step(left, g[left - 1])
        <3> HIDE DEF first, step, F
        <3> QED BY <1>1, <2>2, <2>3
    <2> HIDE DEF first, step, F
    <2> QED BY <2>1, <2>4
<1>7. SizeWithin = CHOOSE h : Solves(h)
    BY Zenon DEF SizeWithin, SizeFrom
<1>8. Solves(SizeWithin)
    <2> HIDE DEF Solves
    <2> QED BY <1>6, <1>7
<1>9. SizeWithin[0] \in Sizes
    <2>1. SizeWithin[0] = first
        <3>1. 0 \in 0..MaxDepth
            BY <1>1
        <3> HIDE DEF step, first
        <3> QED BY <1>4, <1>8, <3>1
    <2> QED BY <1>3, <2>1
<1>10. \A left \in 1..MaxDepth : SizeWithin[left - 1] \in Sizes => SizeWithin[left] \in Sizes
    <2> SUFFICES ASSUME NEW left \in 1..MaxDepth, SizeWithin[left - 1] \in Sizes
                 PROVE  SizeWithin[left] \in Sizes
        OBVIOUS
    <2>1. left \in 0..MaxDepth
        BY <1>1
    <2>2. SizeWithin[left] = step(left, SizeWithin[left - 1])
        <3> HIDE DEF step
        <3> QED BY <1>8, <2>1
    <2> HIDE DEF step, Solves
    <2> QED BY <1>2, <2>2
<1>11. \A left \in 0..MaxDepth : SizeWithin[left] \in Sizes
    <2> HIDE DEF step, Solves
    <2> QED BY <1>1, <1>9, <1>10, HoldsThroughout
<1>12. ASSUME NEW left \in 0..MaxDepth, NEW die \in AllDies
       PROVE  SizeWithin[left][die]
                  = SizeFrom(IF left = 0 THEN None ELSE OfType(SizeWithin[left - 1], die), die)
    <2>1. SizeWithin[left] = step(left, SizeWithin[left - 1])
        <3> HIDE DEF step
        <3> QED BY <1>8
    <2>2. SizeWithin[left][die] = SizeFrom(inner(left, SizeWithin[left - 1], die), die)
        <3> HIDE DEF inner, Solves
        <3> QED BY <2>1
    <2> QED BY <2>2, Zenon
<1> QED BY <1>11, <1>12

LEMMA TypeSizeFits ==
    ASSUME debug \in Debugs, NEW die \in AllDies
    PROVE  TypeSize(die) \in Maybe(0..(Word - 1))
<1>1. SizeWithin[MaxDepth] \in Sizes
    <2>1. MaxDepth \in 0..MaxDepth
        BY DepthAndWord
    <2> QED BY <2>1, SizeWithinIs
<1>2. TypeOf(die) = None \/ TypeOf(die) \in AllDies
    BY TypeOfIsEntry DEF Maybe
<1> QED BY <1>1, <1>2 DEF TypeSize, OfType, Sizes, Maybe

-----------------------------------------------------------------------------
\* The reader's walk names entries after what encloses them, as the index alone does.
THEOREM ReaderScopesAreAncestors == Spec => []ScopesAreAncestors
<1>1. ReaderInv => WalkInv
    BY DEF ReaderInv, IndexInv
<1> QED BY <1>1, ReaderInvariant, InvariantSuffices, PTL

-----------------------------------------------------------------------------
(* Units that are written as DwarfWritten says: what a reference leads to. *)

\* None is no number.
LEMMA NoneIsNoNumber == None \notin Nat
BY ReaderAssumption

\* None is no entry, and entries are pairs.
LEMMA NoneIsNoEntry ==
    ASSUME debug \in Debugs
    PROVE  None \notin AllDies
<1> SUFFICES ASSUME None \in AllDies PROVE FALSE
    OBVIOUS
<1>1. /\ None = <<None[1], None[2]>> /\ None[1] \in DOMAIN debug.units
      /\ None[2] \in DOMAIN Entries(None[1])
    BY EntryNumbers
<1>2. None[1] \in Nat /\ None[2] \in Nat
    BY <1>1, UnitShape
<1>3. None \in Nat \X Nat
    BY <1>1, <1>2
<1> QED BY <1>3, ReaderAssumption

LEMMA TypeIs ==
    ASSUME Written, NEW die \in Types
    PROVE  /\ TypeWritten(die) /\ Readable(die) /\ die \in AllDies /\ ~Entry(die).declaration
           /\ Fact(die) # None
BY DEF Written, TypeWritten, Types, Fact

LEMMA ReadableEntry ==
    ASSUME debug \in Debugs, NEW die, Readable(die)
    PROVE  EntryAt(die[1], die[2]) = die
<1>1. die[1] \in DOMAIN debug.units /\ die[2] \in DOMAIN Entries(die[1]) /\ die = <<die[1], die[2]>>
    BY EntryNumbers DEF Readable
<1> QED BY <1>1 DEF Readable, EntryAt

LEMMA SignatureLeads ==
    ASSUME debug \in Debugs, NEW die, Readable(die), NEW signature, SignedAs(signature, die)
    PROVE  Signed(signature) = die
<1> DEFINE us == {u \in DOMAIN debug.units : debug.units[u].signature = signature}
<1>1. die[1] \in DOMAIN debug.units /\ die[1] \in Nat
    BY EntryNumbers, UnitShape DEF Readable
<1>2. us = {die[1]}
    BY <1>1 DEF SignedAs
<1>3. (CHOOSE u \in us : \A v \in us : v <= u) = die[1]
    <2>1. die[1] \in us /\ \A v \in us : v <= die[1]
        BY <1>1, <1>2
    <2> QED BY <1>2, <2>1
<1>4. debug.units[die[1]].typeEntry = die[2]
    BY DEF SignedAs
<1>5. us # {}
    BY <1>2
<1>6. Signed(signature) = IF us = {} THEN None
                          ELSE EntryAt(CHOOSE u \in us : \A v \in us : v <= u,
                                       debug.units[CHOOSE u \in us : \A v \in us : v <= u].typeEntry)
    BY Zenon DEF Signed
<1> HIDE DEF us
<1> QED BY <1>3, <1>4, <1>5, <1>6, ReadableEntry

\* A reference leads to the type that is meant.
LEMMA ReferenceLeads ==
    ASSUME debug \in Debugs, Written, NEW die \in AllDies, ReferenceWritten(die)
    PROVE  TypeOf(die) = Meant(die) /\ Meant(die) \in Maybe(Types)
<1> DEFINE ref == Entry(die).type
<1> DEFINE u == IF ref.form = "unit" THEN die[1] ELSE ref.unit
<1> DEFINE there == <<u, ref.to>>
<1>1. Meant(die) \in Maybe(Types)
    BY Zenon DEF ReferenceWritten
<1>2. CASE ref = None
    <2>1. Meant(die) = None
        BY <1>2 DEF Meant
    <2>2. TypeOf(die) = None
        BY <1>2 DEF TypeOf, Resolve
    <2> QED BY <1>1, <2>1, <2>2
<1>3. CASE ref # None
    <2>1. \/ ref.form # "signature" /\ there \notin AllDies /\ Meant(die) = None
          \/ ref.form # "signature" /\ Meant(die) # None /\ there = Meant(die)
          \/ /\ ref.form # "signature" /\ Readable(there) /\ Meant(die) # None
             /\ Entry(there).declaration /\ Entry(there).signature # None
             /\ SignedAs(Entry(there).signature, Meant(die))
          \/ ref.form = "signature" /\ Meant(die) # None /\ SignedAs(ref.to, Meant(die))
        BY <1>3, Zenon DEF ReferenceWritten
    <2>2. ResolveOnce(die[1], ref) = IF ref.form = "signature" THEN Signed(ref.to) ELSE EntryAt(u, ref.to)
        BY DEF ResolveOnce
    <2> DEFINE once == ResolveOnce(die[1], ref)
    <2>3. TypeOf(die) = LET to == IF once # None /\ Entry(once).declaration /\ Entry(once).signature # None
                                  THEN Signed(Entry(once).signature) ELSE None
                        IN  IF to # None THEN to ELSE once
        BY <1>3, Zenon DEF TypeOf, Resolve
    <2>4. Meant(die) # None => Readable(Meant(die)) /\ Meant(die) \in AllDies /\ ~Entry(Meant(die)).declaration
        BY <1>1, TypeIs DEF Maybe
    <2>5. Readable(there) => EntryAt(u, ref.to) = there
        <3> HIDE DEF u
        <3> SUFFICES ASSUME Readable(there) PROVE EntryAt(u, ref.to) = there
            OBVIOUS
        <3>1. EntryAt(there[1], there[2]) = there
            BY ReadableEntry
        <3> QED BY <3>1
    <2>6. None \notin AllDies
        BY NoneIsNoEntry
    <2> HIDE DEF once, ref, u
    <2>7. CASE ref.form # "signature" /\ there \notin AllDies /\ Meant(die) = None
        <3>1. EntryAt(u, ref.to) = None
            BY <2>7 DEF EntryAt, AllDies, Dies
        <3>2. once = None
            BY <2>2, <2>7, <3>1 DEF once
        <3> QED BY <1>1, <2>3, <2>7, <3>2
    <2>8. CASE ref.form # "signature" /\ Meant(die) # None /\ there = Meant(die)
        <3>1. once = Meant(die)
            BY <2>2, <2>4, <2>5, <2>8 DEF once
        <3> QED BY <1>1, <2>3, <2>4, <2>8, <3>1
    <2>9. CASE /\ ref.form # "signature" /\ Readable(there) /\ Meant(die) # None
               /\ Entry(there).declaration /\ Entry(there).signature # None
               /\ SignedAs(Entry(there).signature, Meant(die))
        <3>1. once = there /\ there # None
            BY <2>2, <2>5, <2>6, <2>9 DEF once, Readable
        <3>2. Signed(Entry(there).signature) = Meant(die)
            <4> HIDE DEF there
            <4> QED BY <2>4, <2>9, SignatureLeads
        <3> HIDE DEF there
        <3> QED BY <1>1, <2>3, <2>9, <3>1, <3>2
    <2>10. CASE ref.form = "signature" /\ Meant(die) # None /\ SignedAs(ref.to, Meant(die))
        <3>1. once = Meant(die)
            BY <2>2, <2>4, <2>10, SignatureLeads DEF once
        <3> QED BY <1>1, <2>3, <2>4, <2>10, <3>1
    <2> QED BY <2>1, <2>7, <2>8, <2>9, <2>10
<1> QED BY <1>2, <1>3

-----------------------------------------------------------------------------
(* Sizes that are written.                                                 *)

LEMMA CountRead ==
    ASSUME debug \in Debugs, NEW die \in AllDies, NEW count \in Maybe(0..(Word - 1)),
           CountWritten(Entry(die), count)
    PROVE  SubrangeCount(Entry(die)) = count
<1> DEFINE entry == Entry(die)
<1>1. entry.lower \in Maybe(0..(Word - 1)) /\ entry.upper \in Maybe(0..(Word - 1)) /\ None \notin Nat
    BY EntryNumbers, ReaderAssumption DEF Numbers
<1>2. CASE count # None /\ entry.count = count
    BY <1>2 DEF SubrangeCount
<1>3. CASE /\ count \notin {None, 0} /\ entry.count = None /\ entry.upper # None
           /\ entry.upper + 1 = Or(entry.lower, 0) + count
    <2> DEFINE lower == Or(entry.lower, 0)
    <2>1. /\ lower \in Nat /\ entry.upper \in Nat /\ count \in 1..(Word - 1)
          /\ entry.upper + 1 = lower + count
        BY <1>1, <1>3, DepthAndWord DEF Or, Maybe
    <2>2. SubrangeCount(entry) = IF entry.upper < lower \/ entry.upper - lower + 1 >= Word
                                 THEN None ELSE entry.upper - lower + 1
        BY <1>3 DEF SubrangeCount, Or
    <2> HIDE DEF lower, entry
    <2>3. SubrangeCount(entry) = count
        BY <2>1, <2>2, DepthAndWord
    <2> QED BY <2>3 DEF entry
<1>4. CASE count = None /\ entry.count = None /\ entry.upper = None
    BY <1>4 DEF SubrangeCount
<1> QED BY <1>2, <1>3, <1>4 DEF CountWritten

\* The product of an array's dimensions is found, if they are all known.
LEMMA ElementsRead ==
    ASSUME debug \in Debugs, NEW die \in AllDies, DimensionsWritten(die)
    PROVE  ArrayElements(die) = Elements(die) /\ Elements(die) \in Maybe(0..(Word - 1))
<1> DEFINE ranges == Dimensions(die)
<1> DEFINE counts == Fact(die).counts
<1> DEFINE products == Fact(die).products
<1> DEFINE n == Len(ranges)
<1>1. /\ ranges # <<>> /\ DOMAIN counts = DOMAIN ranges /\ DOMAIN products = DOMAIN ranges
      /\ \A k \in DOMAIN ranges :
            /\ counts[k] \in Maybe(0..(Word - 1)) /\ products[k] \in Maybe(0..(Word - 1))
            /\ CountWritten(Entry(<<die[1], ranges[k]>>), counts[k])
            /\ products[k] = IF k = 1 THEN counts[1]
                             ELSE IF products[k - 1] = None \/ counts[k] = None THEN None
                             ELSE products[k - 1] * counts[k]
    BY Zenon DEF DimensionsWritten, Dimensions
<1>2. /\ n \in Nat /\ DOMAIN ranges = 1..n
      /\ \A k \in 1..n : <<die[1], ranges[k]>> \in AllDies
    <2>1. Len(ranges) \in Nat /\ DOMAIN ranges = 1..Len(ranges)
          /\ \A k \in DOMAIN ranges : <<die[1], ranges[k]>> \in AllDies
        BY ArrayElementsAre
    <2> HIDE DEF ranges
    <2> QED BY <2>1
<1>3. PICK total : Multiplies(total, die)
    BY ArrayElementsAre
<1>4. /\ total[0] = 1 /\ \A k \in 1..n : total[k] = Times(total[k - 1], CountAt(die, k))
      /\ ArrayElements(die) = total[n]
    BY <1>1, <1>3 DEF Multiplies
<1>5. \A k \in 1..n : CountAt(die, k) = counts[k]
    <2> SUFFICES ASSUME NEW k \in 1..n PROVE CountAt(die, k) = counts[k]
        OBVIOUS
    <2>1. <<die[1], ranges[k]>> \in AllDies /\ counts[k] \in Maybe(0..(Word - 1))
          /\ CountWritten(Entry(<<die[1], ranges[k]>>), counts[k])
        <3> HIDE DEF ranges, n, counts, products
        <3> QED BY <1>1, <1>2
    <2> HIDE DEF counts, ranges
    <2> QED BY <2>1, CountRead DEF CountAt, ranges
<1>6. Word \in Nat /\ None \notin Nat /\ Word # 0
    BY DepthAndWord, ReaderAssumption
<1> HIDE DEF ranges, counts, products, n
<1>7. n >= 1
    <2>1. n # 0
        <3> SUFFICES ASSUME n = 0 PROVE FALSE
            OBVIOUS
        <3>1. ArrayElements(die) = 1 /\ Len(Dimensions(die)) = 0
            BY <1>4 DEF n, ranges
        <3>5. PICK S : ranges = InOrder(S)
            BY DEF ranges, Dimensions
        <3>2. ranges = [k \in 1..Cardinality(S) |-> CHOOSE m \in S : Cardinality({j \in S : j < m}) = k - 1]
            BY <3>5 DEF InOrder
        <3>3. DOMAIN ranges = {}
            BY <1>2
        <3>4. ranges \in [{} -> {}]
            BY <3>2, <3>3
        <3>7. ranges = <<>>
            BY <3>4
        <3> QED BY <1>1, <3>7
    <2> QED BY <1>2, <2>1
<1> DEFINE P == {0} \cup {k \in 1..n : total[k] = products[k]}
<1>8. \A k \in 1..n : k - 1 \in P => k \in P
    <2> SUFFICES ASSUME NEW k \in 1..n, k - 1 \in P PROVE total[k] = products[k]
        OBVIOUS
    <2>1. /\ counts[k] \in Maybe(0..(Word - 1)) /\ products[k] \in Maybe(0..(Word - 1))
          /\ products[k] = IF k = 1 THEN counts[1]
                           ELSE IF products[k - 1] = None \/ counts[k] = None THEN None
                           ELSE products[k - 1] * counts[k]
        BY <1>1, <1>2
    <2>2. total[k] = Times(total[k - 1], counts[k])
        BY <1>4, <1>5
    <2>3. CASE k = 1
        <3>1. total[k - 1] = 1
            BY <1>4, <2>3
        <3>2. 1 # None /\ products[k] = counts[k]
            BY <1>6, <2>1, <2>3
        <3>3. CASE counts[k] = None
            BY <2>2, <3>2, <3>3 DEF Times
        <3>4. CASE counts[k] \in 0..(Word - 1)
            <4>1. counts[k] # None /\ 1 * counts[k] = counts[k] /\ ~(counts[k] >= Word)
                BY <1>6, <3>4
            <4> QED BY <2>2, <3>1, <3>2, <4>1 DEF Times
        <3> QED BY <2>1, <3>3, <3>4 DEF Maybe
    <2>4. CASE k # 1
        <3>1. k - 1 \in 1..n /\ k - 1 # 0
            BY <1>2, <2>4
        <3>2. total[k - 1] = products[k - 1]
            BY <3>1
        <3>3. products[k - 1] \in Maybe(0..(Word - 1))
            BY <1>1, <1>2, <3>1
        <3>4. CASE products[k - 1] = None \/ counts[k] = None
            BY <2>1, <2>2, <2>4, <3>2, <3>4 DEF Times
        <3>5. CASE products[k - 1] # None /\ counts[k] # None
            <4>1. products[k - 1] \in Nat /\ counts[k] \in Nat
                BY <2>1, <3>3, <3>5 DEF Maybe
            <4>2. products[k] = products[k - 1] * counts[k]
                BY <2>1, <2>4, <3>5
            <4> DEFINE a == products[k - 1]
            <4> DEFINE b == counts[k]
            <4>3. a \in Nat /\ b \in Nat
                BY <4>1
            <4> HIDE DEF a, b
            <4>4. a * b \in Nat
                BY <4>3
            <4>5. a * b \in Maybe(0..(Word - 1))
                BY <2>1, <4>2 DEF a, b
            <4>6. a * b \in 0..(Word - 1)
                BY <1>6, <4>4, <4>5 DEF Maybe
            <4> DEFINE ab == a * b
            <4>7. ~(ab >= Word)
                <5>1. ab \in 0..(Word - 1)
                    BY <4>6
                <5> HIDE DEF ab
                <5> QED BY <1>6, <5>1
            <4> QED BY <2>2, <3>2, <3>5, <4>2, <4>7 DEF Times, a, b
        <3> QED BY <3>4, <3>5
    <2> QED BY <2>3, <2>4
<1>9. \A k \in 0..n : k \in P
    <2> HIDE DEF P
    <2>1. 0 \in P
        BY DEF P
    <2> QED BY <1>2, <1>8, <2>1, CountingUp
<1>10. total[n] = products[n]
    <2>1. n \in 0..n /\ n # 0
        BY <1>2, <1>7
    <2> QED BY <1>9, <2>1
<1>11. Elements(die) = products[n]
    <2>1. Len(products) = n
        <3>1. DOMAIN products = 1..n
            BY <1>1, <1>2
        <3> QED BY <1>2, <3>1
    <2> QED BY <2>1 DEF Elements, products
<1>12. products[n] \in Maybe(0..(Word - 1))
    <2>1. n \in DOMAIN ranges
        BY <1>2, <1>7
    <2> QED BY <1>1, <2>1
<1> QED BY <1>4, <1>10, <1>11, <1>12

\* What is found is what is known; nothing is found where nothing can be known.
Agrees(value, fact, near) == (fact = None => value = None) /\ (fact # None /\ near => value = fact)

Near(die, left) == Fact(die).steps <= left

SizesAgree(left) == \A die \in Types : Agrees(SizeWithin[left][die], Fact(die).size, Near(die, left))

InnerSize(left, die) == IF left = 0 THEN None ELSE OfType(SizeWithin[left - 1], die)

LEMMA StepsAreNatural ==
    ASSUME Written, NEW die \in Types
    PROVE  Fact(die).steps \in 0..MaxDepth /\ Fact(die).size \in Maybe(0..(Word - 1))
           /\ Fact(die).align \in Maybe(0..(Word - 1))
BY TypeIs DEF TypeWritten

LEMMA InnerSizeAgrees ==
    ASSUME debug \in Debugs, Written, NEW left \in 0..MaxDepth, left = 0 \/ SizesAgree(left - 1),
           NEW die \in AllDies, ReferenceWritten(die), NEW near,
           near /\ Meant(die) # None => Fact(Meant(die)).steps < left
    PROVE  Agrees(InnerSize(left, die), SizeOf(Meant(die)), near)
<1>1. TypeOf(die) = Meant(die) /\ Meant(die) \in Maybe(Types)
    BY ReferenceLeads
<1>2. CASE Meant(die) = None
    BY <1>1, <1>2 DEF InnerSize, OfType, SizeOf, Agrees
<1>3. CASE Meant(die) # None
    <2> DEFINE to == Meant(die)
    <2>1. to \in Types /\ Fact(to).steps \in Nat /\ left \in Nat
        <3>1. to \in Types
            BY <1>1, <1>3 DEF Maybe
        <3>2. Fact(to).steps \in 0..MaxDepth
            BY <3>1, StepsAreNatural
        <3> QED BY <3>1, <3>2, DepthAndWord
    <2>2. SizeOf(to) = Fact(to).size
        BY <1>3 DEF SizeOf
    <2>3. CASE left = 0
        <3>1. ~near
            <4> SUFFICES ASSUME near PROVE FALSE
                OBVIOUS
            <4>1. Fact(to).steps < 0
                BY <1>3, <2>3
            <4> QED BY <2>1, <4>1
        <3> QED BY <2>3, <3>1 DEF InnerSize, Agrees
    <2>4. CASE left # 0
        <3>1. InnerSize(left, die) = SizeWithin[left - 1][to]
            BY <1>1, <1>3, <2>4 DEF InnerSize, OfType
        <3>2. Agrees(SizeWithin[left - 1][to], Fact(to).size, Near(to, left - 1))
            BY <2>1, <2>4 DEF SizesAgree
        <3>3. near => Near(to, left - 1)
            <4> SUFFICES ASSUME near PROVE Near(to, left - 1)
                OBVIOUS
            <4>1. Fact(to).steps < left
                BY <1>3
            <4> QED BY <2>1, <4>1 DEF Near
        <3> HIDE DEF to
        <3>4. Agrees(InnerSize(left, die), SizeOf(to), near)
            BY <2>2, <3>1, <3>2, <3>3 DEF Agrees
        <3> QED BY <3>4 DEF to
    <2> QED BY <2>3, <2>4
<1> QED BY <1>2, <1>3

\* A type's size that is known is found if there are enough steps to the types within it.
LEMMA SizeAgrees ==
    ASSUME debug \in Debugs, Written, NEW left \in 0..MaxDepth, left = 0 \/ SizesAgree(left - 1),
           NEW die \in Types
    PROVE  Agrees(SizeWithin[left][die], Fact(die).size, Near(die, left))
<1> DEFINE entry == Entry(die)
<1> DEFINE size == Fact(die).size
<1> DEFINE inner == InnerSize(left, die)
<1> DEFINE near == size # None /\ Near(die, left)
<1>1. TypeWritten(die) /\ die \in AllDies
    BY TypeIs
<1>2. SizeWithin[left][die] = SizeFrom(inner, die)
    BY <1>1, SizeWithinIs DEF InnerSize
<1>3. CASE entry.byteSize # None
    <2>1. size = entry.byteSize
        <3>1. entry.tag \in {"base", "enumeration"} => size = entry.byteSize
            BY <1>1 DEF TypeWritten, ScalarWritten, PointerTags, QualifierTags, AggregateTags
        <3>2. entry.tag \in PointerTags => size = entry.byteSize
            BY <1>1, <1>3 DEF TypeWritten, PointerWritten, PointerTags, QualifierTags, AggregateTags
        <3>3. entry.tag \in AggregateTags => size = entry.byteSize
            BY <1>1 DEF TypeWritten, AggregateWritten, PointerTags, QualifierTags, AggregateTags
        <3>4. entry.tag \notin QualifierTags /\ entry.tag # "array"
            BY <1>1, <1>3 DEF TypeWritten, QualifierWritten, ArrayWritten, PointerTags, QualifierTags, AggregateTags
        <3>5. entry.tag \in {"base", "enumeration"} \/ entry.tag \in PointerTags \/ entry.tag \in AggregateTags
            BY <1>1, <3>4 DEF TypeWritten
        <3> QED BY <3>1, <3>2, <3>3, <3>5
    <2> QED BY <1>2, <1>3, <2>1 DEF SizeFrom, Agrees
<1>4. CASE entry.byteSize = None
    <2>1. entry.tag \in PointerTags \/ entry.tag \in QualifierTags \/ entry.tag = "array"
        <3>1. entry.tag \notin AggregateTags
            BY <1>1, <1>4 DEF TypeWritten, AggregateWritten, PointerTags, QualifierTags, AggregateTags
        <3>2. entry.tag \notin {"base", "enumeration"}
            <4> SUFFICES ASSUME entry.tag \in {"base", "enumeration"} PROVE FALSE
                OBVIOUS
            <4>1. size \in 1..16 /\ entry.byteSize = size
                BY <1>1 DEF TypeWritten, ScalarWritten, PointerTags, QualifierTags, AggregateTags
            <4> QED BY <1>4, <4>1, NoneIsNoNumber
        <3> QED BY <1>1, <3>1, <3>2 DEF TypeWritten
    <2>2. CASE entry.tag \in PointerTags
        <3>1. size = debug.addressSize
            BY <1>1, <2>2 DEF TypeWritten, PointerWritten, PointerTags, QualifierTags, AggregateTags
        <3> QED BY <1>2, <1>4, <2>2, <3>1 DEF SizeFrom, Agrees
    <2>3. CASE entry.tag \in QualifierTags \/ entry.tag = "array"
        <3>1. ReferenceWritten(die)
            BY <1>1, <2>3 DEF TypeWritten, QualifierWritten, ArrayWritten, PointerTags, QualifierTags, AggregateTags
        <3>2. size # None /\ Meant(die) # None => Fact(Meant(die)).steps < Fact(die).steps
            <4> SUFFICES ASSUME size # None, Meant(die) # None PROVE Fact(Meant(die)).steps < Fact(die).steps
                OBVIOUS
            <4>1. Meant(die) \in MadeOf(die)
                BY <2>3 DEF MadeOf
            <4>2. \A to \in MadeOf(die) : Fact(to).steps < Fact(die).steps
                BY <1>1, <1>4, Zenon DEF TypeWritten
            <4> QED BY <4>1, <4>2
        <3>3. near /\ Meant(die) # None => Fact(Meant(die)).steps < left
            <4> SUFFICES ASSUME near, Meant(die) # None PROVE Fact(Meant(die)).steps < left
                OBVIOUS
            <4>1. Meant(die) \in Types
                BY <1>1, <3>1, ReferenceLeads DEF Maybe
            <4>2. Fact(Meant(die)).steps \in Nat /\ Fact(die).steps \in Nat /\ left \in Nat
                BY <4>1, StepsAreNatural, DepthAndWord
            <4> QED BY <3>2, <4>2 DEF Near
        <3>4. Agrees(inner, SizeOf(Meant(die)), near)
            <4> HIDE DEF near
            <4> QED BY <1>1, <3>1, <3>3, InnerSizeAgrees
        <3> HIDE DEF inner
        <3>5. CASE entry.tag \in QualifierTags
            <4>1. size = SizeOf(Meant(die))
                BY <1>1, <3>5 DEF TypeWritten, QualifierWritten, PointerTags, QualifierTags, AggregateTags
            <4>2. entry.tag \notin PointerTags /\ entry.tag # "array"
                BY <3>5 DEF PointerTags, QualifierTags
            <4>3. SizeFrom(inner, die) = inner
                BY <1>4, <4>2 DEF SizeFrom
            <4> QED BY <1>2, <3>4, <4>1, <4>3 DEF Agrees
        <3>6. CASE entry.tag = "array"
            <4>1. /\ DimensionsWritten(die)
                  /\ size = IF SizeOf(Meant(die)) = None \/ Elements(die) = None THEN None
                            ELSE SizeOf(Meant(die)) * Elements(die)
                BY <1>1, <3>6 DEF TypeWritten, ArrayWritten, PointerTags, QualifierTags, AggregateTags
            <4>2. ArrayElements(die) = Elements(die) /\ Elements(die) \in Maybe(0..(Word - 1))
                BY <1>1, <4>1, ElementsRead
            <4>3. SizeFrom(inner, die) = IF inner = None \/ Elements(die) = None THEN None
                                         ELSE Wrap(inner * Elements(die))
                BY <1>4, <3>6, <4>2 DEF SizeFrom, PointerTags
            <4>4. CASE size = None
                <5>1. SizeOf(Meant(die)) = None \/ Elements(die) = None
                    <6> SUFFICES ASSUME SizeOf(Meant(die)) # None, Elements(die) # None PROVE FALSE
                        OBVIOUS
                    <6>1. Meant(die) \in Types /\ SizeOf(Meant(die)) = Fact(Meant(die)).size
                        BY <1>1, <3>1, ReferenceLeads DEF Maybe, SizeOf
                    <6>2. SizeOf(Meant(die)) \in Nat /\ Elements(die) \in Nat
                        BY <4>2, <6>1, StepsAreNatural DEF Maybe
                    <6> DEFINE a == SizeOf(Meant(die))
                    <6> DEFINE b == Elements(die)
                    <6>3. a \in Nat /\ b \in Nat /\ size = a * b
                        BY <4>1, <6>2
                    <6> HIDE DEF a, b
                    <6>4. a * b \in Nat
                        BY <6>3
                    <6> QED BY <4>4, <6>3, <6>4, ReaderAssumption
                <5>2. SizeFrom(inner, die) = None
                    BY <3>4, <4>3, <5>1 DEF Agrees
                <5> QED BY <1>2, <4>4, <5>2 DEF Agrees
            <4>5. CASE size # None /\ Near(die, left)
                <5>1. SizeOf(Meant(die)) # None /\ Elements(die) # None /\ size = SizeOf(Meant(die)) * Elements(die)
                    BY <4>1, <4>5
                <5>2. inner = SizeOf(Meant(die))
                    BY <3>4, <4>5, <5>1 DEF Agrees
                <5>3. size \in 0..(Word - 1)
                    BY <4>5, StepsAreNatural DEF Maybe
                <5>4. Wrap(size) = size
                    BY <5>3, DepthAndWord DEF Wrap
                <5> QED BY <1>2, <4>3, <5>1, <5>2, <5>4 DEF Agrees
            <4> QED BY <4>4, <4>5 DEF Agrees
        <3> QED BY <2>3, <3>5, <3>6
    <2> QED BY <2>1, <2>2, <2>3
<1> QED BY <1>3, <1>4

\* A reference to a type is answered with the type's size, and only if that is known.
LEMMA SizesRead ==
    ASSUME debug \in Debugs, Written
    PROVE  \A die \in AllDies : ReferenceWritten(die) =>
              TypeSize(die) = SizeOf(Meant(die)) /\ SizeOf(Meant(die)) \in Maybe(0..(Word - 1))
<1> DEFINE P == {left \in 0..MaxDepth : SizesAgree(left)}
<1>1. MaxDepth \in Nat
    BY DepthAndWord
<1>2. 0 \in P
    BY <1>1, SizeAgrees DEF SizesAgree
<1>3. ASSUME NEW left \in 1..MaxDepth, left - 1 \in P PROVE left \in P
    <2>1. SizesAgree(left - 1) /\ left \in 0..MaxDepth
        BY <1>1, <1>3
    <2> QED BY <2>1, SizeAgrees DEF SizesAgree
<1>4. MaxDepth \in P
    <2>1. MaxDepth \in 0..MaxDepth
        BY <1>1
    <2> HIDE DEF P
    <2> QED BY <1>1, <1>2, <1>3, <2>1, CountingUp
<1>5. SizesAgree(MaxDepth)
    BY <1>4
<1> SUFFICES ASSUME NEW die \in AllDies, ReferenceWritten(die)
             PROVE  TypeSize(die) = SizeOf(Meant(die)) /\ SizeOf(Meant(die)) \in Maybe(0..(Word - 1))
    OBVIOUS
<1>6. TypeOf(die) = Meant(die) /\ Meant(die) \in Maybe(Types)
    BY ReferenceLeads
<1>7. CASE Meant(die) = None
    BY <1>6, <1>7 DEF TypeSize, OfType, SizeOf, Maybe
<1>8. CASE Meant(die) # None
    <2> DEFINE to == Meant(die)
    <2>1. to \in Types
        BY <1>6, <1>8 DEF Maybe
    <2>2. Fact(to).steps \in 0..MaxDepth /\ Fact(to).size \in Maybe(0..(Word - 1))
        BY <2>1, StepsAreNatural
    <2>3. Near(to, MaxDepth)
        BY <1>1, <2>2 DEF Near
    <2>4. Agrees(SizeWithin[MaxDepth][to], Fact(to).size, Near(to, MaxDepth))
        BY <1>5, <2>1 DEF SizesAgree
    <2>5. SizeWithin[MaxDepth][to] = Fact(to).size
        BY <2>3, <2>4 DEF Agrees
    <2> QED BY <1>6, <1>8, <2>2, <2>5 DEF TypeSize, OfType, SizeOf
<1> QED BY <1>7, <1>8

-----------------------------------------------------------------------------
(* Alignments, and what is empty or has virtual bases: found step by step. *)

LEMMA LargestIs ==
    ASSUME NEW n \in Nat, NEW S, S \subseteq 0..n, S # {}
    PROVE  Max(S) \in S
BY GreatestNat DEF Max

Aligns == [AllDies -> Maybe(0..(Word - 1))]

\* The alignment of an entry, given those found before it with one step less.
AlignFrom(left, prev, die) ==
    LET entry    == Entry(die)
        inner(c) == IF left = 0 THEN None ELSE OfType(prev, c)
        parts    == {IF Entry(c).artificial THEN debug.addressSize ELSE inner(c) : c \in Aligned(die)}
    IN IF entry.alignment # None THEN entry.alignment
       ELSE IF entry.tag \in {"base", "enumeration"}
       THEN IF entry.byteSize = None THEN None ELSE Max({1, Min({entry.byteSize, 16})})
       ELSE IF entry.tag \in PointerTags THEN debug.addressSize
       ELSE IF entry.tag \notin AggregateTags THEN inner(die)
       ELSE IF None \in parts THEN None ELSE Max(parts \cup {1})

EmptyFrom(left, prev, die) ==
    LET inner(c) == left > 0 /\ TypeOf(c) # None /\ prev[TypeOf(c)]
    IN \/ Entry(die).tag \in QualifierTags /\ inner(die)
       \/ /\ Entry(die).tag \in {"structure", "class"} /\ ~Entry(die).declaration
          /\ \A c \in OfTag(Children(die), {"member"}) : Entry(c).declaration
          /\ \A c \in OfTag(Children(die), {"inheritance"}) : ~Entry(c).virtual /\ inner(c)

VirtualBasesFrom(left, prev, die) ==
    \E c \in OfTag(Children(die), {"inheritance"}) :
        \/ Entry(c).virtual
        \/ left > 0 /\ TypeOf(c) # None /\ prev[TypeOf(c)]

Flags == [AllDies -> BOOLEAN]

LEMMA AlignFits ==
    ASSUME debug \in Debugs, NEW die \in AllDies
    PROVE  /\ \A left \in 1..MaxDepth : \A prev \in Aligns : AlignFrom(left, prev, die) \in Maybe(0..(Word - 1))
           /\ \A prev : AlignFrom(0, prev, die) = AlignFrom(0, None, die)
           /\ AlignFrom(0, None, die) \in Maybe(0..(Word - 1))
<1> DEFINE entry == Entry(die)
<1> DEFINE inner(left, prev, c) == IF left = 0 THEN None ELSE OfType(prev, c)
<1> DEFINE parts(left, prev) ==
        {IF Entry(c).artificial THEN debug.addressSize ELSE inner(left, prev, c) : c \in Aligned(die)}
<1> DEFINE from(left, prev) ==
        IF entry.alignment # None THEN entry.alignment
        ELSE IF entry.tag \in {"base", "enumeration"}
        THEN IF entry.byteSize = None THEN None ELSE Max({1, Min({entry.byteSize, 16})})
        ELSE IF entry.tag \in PointerTags THEN debug.addressSize
        ELSE IF entry.tag \notin AggregateTags THEN inner(left, prev, die)
        ELSE IF None \in parts(left, prev) THEN None ELSE Max(parts(left, prev) \cup {1})
<1>1. \A left, prev : AlignFrom(left, prev, die) = from(left, prev)
    BY Zenon DEF AlignFrom
<1>2. \A prev : from(0, prev) = from(0, None)
    <2>1. \A prev, c : inner(0, prev, c) = None
        OBVIOUS
    <2>2. \A prev : parts(0, prev) = parts(0, None)
        <3> HIDE DEF inner
        <3> QED BY <2>1
    <2> HIDE DEF inner, parts, entry
    <2> QED BY <2>1, <2>2
<1>3. /\ entry.alignment \in Maybe(0..(Word - 1)) /\ entry.byteSize \in Maybe(0..(Word - 1))
      /\ debug.addressSize \in 0..(Word - 1) /\ Word \in Nat /\ Word > 1
    BY EntryNumbers, DepthAndWord DEF Numbers
<1>4. entry.byteSize # None => Max({1, Min({entry.byteSize, 16})}) \in 0..(Word - 1)
    <2> SUFFICES ASSUME entry.byteSize # None PROVE Max({1, Min({entry.byteSize, 16})}) \in 0..(Word - 1)
        OBVIOUS
    <2> DEFINE size == entry.byteSize
    <2>1. size \in 0..(Word - 1) /\ 1 \in 0..(Word - 1) /\ Word - 1 \in Nat
        BY <1>3 DEF Maybe
    <2> HIDE DEF size
    <2>2. \E x \in {size, 16} : \A y \in {size, 16} : x <= y
        BY <2>1
    <2>3. Min({size, 16}) \in {size, 16} /\ Min({size, 16}) <= size
        BY <2>2 DEF Min
    <2>4. {1, Min({size, 16})} \subseteq 0..(Word - 1)
        BY <2>1, <2>3
    <2>5. Max({1, Min({size, 16})}) \in {1, Min({size, 16})}
        BY <2>1, <2>4, LargestIs
    <2>6. Max({1, Min({size, 16})}) \in 0..(Word - 1)
        BY <2>4, <2>5
    <2> QED BY <2>6 DEF size
<1>5. ASSUME NEW left, NEW prev, \A c : inner(left, prev, c) \in Maybe(0..(Word - 1))
      PROVE  from(left, prev) \in Maybe(0..(Word - 1))
    <2>1. None \notin parts(left, prev) => Max(parts(left, prev) \cup {1}) \in 0..(Word - 1)
        <3> SUFFICES ASSUME None \notin parts(left, prev)
                     PROVE  Max(parts(left, prev) \cup {1}) \in 0..(Word - 1)
            OBVIOUS
        <3>1. \A a \in parts(left, prev) : a \in 0..(Word - 1)
            <4>1. debug.addressSize \in 0..(Word - 1)
                BY <1>3
            <4>2. \A a \in parts(left, prev) : a \in Maybe(0..(Word - 1))
                <5> HIDE DEF inner
                <5> QED BY <1>5, <4>1 DEF Maybe
            <4> HIDE DEF parts
            <4> QED BY <4>2 DEF Maybe
        <3> DEFINE S == parts(left, prev) \cup {1}
        <3>2. S \subseteq 0..(Word - 1) /\ S # {} /\ Word - 1 \in Nat
            <4> HIDE DEF parts
            <4> QED BY <1>3, <3>1
        <3> HIDE DEF S
        <3>3. Max(S) \in 0..(Word - 1)
            BY <3>2, LargestIs
        <3> QED BY <3>3, Zenon DEF S
    <2>2. inner(left, prev, die) \in Maybe(0..(Word - 1))
        BY <1>5
    <2> HIDE DEF inner, parts
    <2> QED BY <1>3, <1>4, <2>1, <2>2 DEF Maybe
<1>6. ASSUME NEW left, NEW prev \in Aligns PROVE from(left, prev) \in Maybe(0..(Word - 1))
    <2>1. \A c : inner(left, prev, c) \in Maybe(0..(Word - 1))
        <3> SUFFICES ASSUME NEW c PROVE inner(left, prev, c) \in Maybe(0..(Word - 1))
            OBVIOUS
        <3>1. TypeOf(c) = None \/ TypeOf(c) \in AllDies
            BY TypeOfIsEntry DEF Maybe
        <3> QED BY <3>1 DEF OfType, Aligns, Maybe
    <2> HIDE DEF inner, from
    <2> QED BY <1>5, <2>1
<1>7. from(0, None) \in Maybe(0..(Word - 1))
    <2>1. \A c : inner(0, None, c) \in Maybe(0..(Word - 1))
        BY DEF Maybe
    <2> HIDE DEF inner, from
    <2> QED BY <1>5, <2>1
<1> HIDE DEF from
<1> QED BY <1>1, <1>2, <1>6, <1>7

LEMMA EmptyFits ==
    ASSUME NEW die \in AllDies
    PROVE  /\ \A left \in 1..MaxDepth : \A prev \in Flags : EmptyFrom(left, prev, die) \in BOOLEAN
           /\ \A prev : EmptyFrom(0, prev, die) = EmptyFrom(0, None, die)
           /\ EmptyFrom(0, None, die) \in BOOLEAN
BY DEF EmptyFrom

LEMMA VirtualBasesFits ==
    ASSUME NEW die \in AllDies
    PROVE  /\ \A left \in 1..MaxDepth : \A prev \in Flags : VirtualBasesFrom(left, prev, die) \in BOOLEAN
           /\ \A prev : VirtualBasesFrom(0, prev, die) = VirtualBasesFrom(0, None, die)
           /\ VirtualBasesFrom(0, None, die) \in BOOLEAN
BY DEF VirtualBasesFrom

LEMMA AlignWithinIs ==
    ASSUME debug \in Debugs
    PROVE  /\ \A left \in 0..MaxDepth : AlignWithin[left] \in Aligns
           /\ \A left \in 0..MaxDepth : \A die \in AllDies :
                 AlignWithin[left][die] = AlignFrom(left, AlignWithin[left - 1], die)
<1> DEFINE step(left, prev) == [die \in AllDies |-> AlignFrom(left, prev, die)]
<1> DEFINE first == step(0, None)
<1> DEFINE F == [p \in (1..MaxDepth) \X Aligns |-> step(p[1], p[2])]
<1> DEFINE Solves(g) == g = [left \in 0..MaxDepth |-> step(left, g[left - 1])]
<1>1. MaxDepth \in Nat
    BY DepthAndWord
<1>2. \A left \in 1..MaxDepth : \A prev \in Aligns : step(left, prev) \in Aligns
    BY AlignFits DEF Aligns
<1>3. first \in Aligns /\ \A prev : step(0, prev) = first
    BY AlignFits DEF Aligns
<1>4. PICK g : History(g, F, first, MaxDepth, Aligns)
    <2>1. StepsWithin(F, MaxDepth, Aligns)
        <3> HIDE DEF step
        <3> QED BY <1>2 DEF StepsWithin
    <2> HIDE DEF F, first
    <2> QED BY <1>1, <1>3, <2>1, StepByStep
<1>5. Solves(g)
    <2>1. g \in [0..MaxDepth -> Aligns] /\ g[0] = first
          /\ \A left \in 1..MaxDepth : g[left] = F[<<left, g[left - 1]>>]
        <3> HIDE DEF F, first
        <3> QED BY <1>4 DEF History
    <2>2. ASSUME NEW left \in 1..MaxDepth PROVE g[left] = step(left, g[left - 1])
        <3>1. left - 1 \in 0..MaxDepth
            BY <1>1
        <3>2. g[left - 1] \in Aligns
            <4> HIDE DEF F, first
            <4> QED BY <2>1, <3>1
        <3>3. F[<<left, g[left - 1]>>] = step(left, g[left - 1])
            <4> HIDE DEF step
            <4> QED BY <3>2
        <3> HIDE DEF F, first, step
        <3> QED BY <2>1, <3>3
    <2>3. g[0] = step(0, g[0 - 1])
        <3> HIDE DEF first, step, F
        <3> QED BY <1>3, <2>1
    <2>4. \A left \in 0..MaxDepth : g[left] = step(left, g[left - 1])
        <3> HIDE DEF first, step, F
        <3> QED BY <1>1, <2>2, <2>3
    <2> HIDE DEF first, step, F
    <2> QED BY <2>1, <2>4
<1>6. Solves(AlignWithin)
    <2>1. AlignWithin = CHOOSE h : Solves(h)
        BY Zenon DEF AlignWithin, AlignFrom
    <2> HIDE DEF Solves
    <2> QED BY <1>5, <2>1
<1>7. \A left \in 0..MaxDepth : AlignWithin[left] = step(left, AlignWithin[left - 1])
    <2> HIDE DEF step
    <2> QED BY <1>6
<1>8. \A left \in 0..MaxDepth : AlignWithin[left] \in Aligns
    <2>1. AlignWithin[0] \in Aligns
        <3>1. 0 \in 0..MaxDepth
            BY <1>1
        <3> HIDE DEF step, first, Solves
        <3> QED BY <1>3, <1>7, <3>1
    <2>2. \A left \in 1..MaxDepth : AlignWithin[left - 1] \in Aligns => AlignWithin[left] \in Aligns
        <3>1. \A left \in 1..MaxDepth : left \in 0..MaxDepth
            BY <1>1
        <3> HIDE DEF step, Solves
        <3> QED BY <1>2, <1>7, <3>1
    <2> HIDE DEF Solves
    <2> QED BY <1>1, <2>1, <2>2, HoldsThroughout
<1>9. ASSUME NEW left \in 0..MaxDepth, NEW die \in AllDies
      PROVE  AlignWithin[left][die] = AlignFrom(left, AlignWithin[left - 1], die)
    <2>1. AlignWithin[left] = [d \in AllDies |-> AlignFrom(left, AlignWithin[left - 1], d)]
        BY <1>7
    <2> QED BY <2>1
<1> HIDE DEF Solves
<1> QED BY <1>8, <1>9

LEMMA EmptyWithinIs ==
    ASSUME debug \in Debugs
    PROVE  /\ \A left \in 0..MaxDepth : EmptyWithin[left] \in Flags
           /\ \A left \in 0..MaxDepth : \A die \in AllDies :
                 EmptyWithin[left][die] = EmptyFrom(left, EmptyWithin[left - 1], die)
<1> DEFINE step(left, prev) == [die \in AllDies |-> EmptyFrom(left, prev, die)]
<1> DEFINE first == step(0, None)
<1> DEFINE F == [p \in (1..MaxDepth) \X Flags |-> step(p[1], p[2])]
<1> DEFINE Solves(g) == g = [left \in 0..MaxDepth |-> step(left, g[left - 1])]
<1>1. MaxDepth \in Nat
    BY DepthAndWord
<1>2. \A left \in 1..MaxDepth : \A prev \in Flags : step(left, prev) \in Flags
    BY EmptyFits DEF Flags
<1>3. first \in Flags /\ \A prev : step(0, prev) = first
    BY EmptyFits DEF Flags
<1>4. PICK g : History(g, F, first, MaxDepth, Flags)
    <2>1. StepsWithin(F, MaxDepth, Flags)
        <3> HIDE DEF step
        <3> QED BY <1>2 DEF StepsWithin
    <2> HIDE DEF F, first
    <2> QED BY <1>1, <1>3, <2>1, StepByStep
<1>5. Solves(g)
    <2>1. g \in [0..MaxDepth -> Flags] /\ g[0] = first
          /\ \A left \in 1..MaxDepth : g[left] = F[<<left, g[left - 1]>>]
        <3> HIDE DEF F, first
        <3> QED BY <1>4 DEF History
    <2>2. ASSUME NEW left \in 1..MaxDepth PROVE g[left] = step(left, g[left - 1])
        <3>1. left - 1 \in 0..MaxDepth
            BY <1>1
        <3>2. g[left - 1] \in Flags
            <4> HIDE DEF F, first
            <4> QED BY <2>1, <3>1
        <3>3. F[<<left, g[left - 1]>>] = step(left, g[left - 1])
            <4> HIDE DEF step
            <4> QED BY <3>2
        <3> HIDE DEF F, first, step
        <3> QED BY <2>1, <3>3
    <2>3. g[0] = step(0, g[0 - 1])
        <3> HIDE DEF first, step, F
        <3> QED BY <1>3, <2>1
    <2>4. \A left \in 0..MaxDepth : g[left] = step(left, g[left - 1])
        <3> HIDE DEF first, step, F
        <3> QED BY <1>1, <2>2, <2>3
    <2> HIDE DEF first, step, F
    <2> QED BY <2>1, <2>4
<1>6. Solves(EmptyWithin)
    <2>1. EmptyWithin = CHOOSE h : Solves(h)
        BY Zenon DEF EmptyWithin, EmptyFrom
    <2> HIDE DEF Solves
    <2> QED BY <1>5, <2>1
<1>7. \A left \in 0..MaxDepth : EmptyWithin[left] = step(left, EmptyWithin[left - 1])
    <2> HIDE DEF step
    <2> QED BY <1>6
<1>8. \A left \in 0..MaxDepth : EmptyWithin[left] \in Flags
    <2>1. EmptyWithin[0] \in Flags
        <3>1. 0 \in 0..MaxDepth
            BY <1>1
        <3> HIDE DEF step, first, Solves
        <3> QED BY <1>3, <1>7, <3>1
    <2>2. \A left \in 1..MaxDepth : EmptyWithin[left - 1] \in Flags => EmptyWithin[left] \in Flags
        <3>1. \A left \in 1..MaxDepth : left \in 0..MaxDepth
            BY <1>1
        <3> HIDE DEF step, Solves
        <3> QED BY <1>2, <1>7, <3>1
    <2> HIDE DEF Solves
    <2> QED BY <1>1, <2>1, <2>2, HoldsThroughout
<1>9. ASSUME NEW left \in 0..MaxDepth, NEW die \in AllDies
      PROVE  EmptyWithin[left][die] = EmptyFrom(left, EmptyWithin[left - 1], die)
    <2>1. EmptyWithin[left] = [d \in AllDies |-> EmptyFrom(left, EmptyWithin[left - 1], d)]
        BY <1>7
    <2> QED BY <2>1
<1> HIDE DEF Solves
<1> QED BY <1>8, <1>9

LEMMA VirtualBasesWithinIs ==
    ASSUME debug \in Debugs
    PROVE  /\ \A left \in 0..MaxDepth : VirtualBasesWithin[left] \in Flags
           /\ \A left \in 0..MaxDepth : \A die \in AllDies :
                 VirtualBasesWithin[left][die] = VirtualBasesFrom(left, VirtualBasesWithin[left - 1], die)
<1> DEFINE step(left, prev) == [die \in AllDies |-> VirtualBasesFrom(left, prev, die)]
<1> DEFINE first == step(0, None)
<1> DEFINE F == [p \in (1..MaxDepth) \X Flags |-> step(p[1], p[2])]
<1> DEFINE Solves(g) == g = [left \in 0..MaxDepth |-> step(left, g[left - 1])]
<1>1. MaxDepth \in Nat
    BY DepthAndWord
<1>2. \A left \in 1..MaxDepth : \A prev \in Flags : step(left, prev) \in Flags
    BY VirtualBasesFits DEF Flags
<1>3. first \in Flags /\ \A prev : step(0, prev) = first
    BY VirtualBasesFits DEF Flags
<1>4. PICK g : History(g, F, first, MaxDepth, Flags)
    <2>1. StepsWithin(F, MaxDepth, Flags)
        <3> HIDE DEF step
        <3> QED BY <1>2 DEF StepsWithin
    <2> HIDE DEF F, first
    <2> QED BY <1>1, <1>3, <2>1, StepByStep
<1>5. Solves(g)
    <2>1. g \in [0..MaxDepth -> Flags] /\ g[0] = first
          /\ \A left \in 1..MaxDepth : g[left] = F[<<left, g[left - 1]>>]
        <3> HIDE DEF F, first
        <3> QED BY <1>4 DEF History
    <2>2. ASSUME NEW left \in 1..MaxDepth PROVE g[left] = step(left, g[left - 1])
        <3>1. left - 1 \in 0..MaxDepth
            BY <1>1
        <3>2. g[left - 1] \in Flags
            <4> HIDE DEF F, first
            <4> QED BY <2>1, <3>1
        <3>3. F[<<left, g[left - 1]>>] = step(left, g[left - 1])
            <4> HIDE DEF step
            <4> QED BY <3>2
        <3> HIDE DEF F, first, step
        <3> QED BY <2>1, <3>3
    <2>3. g[0] = step(0, g[0 - 1])
        <3> HIDE DEF first, step, F
        <3> QED BY <1>3, <2>1
    <2>4. \A left \in 0..MaxDepth : g[left] = step(left, g[left - 1])
        <3> HIDE DEF first, step, F
        <3> QED BY <1>1, <2>2, <2>3
    <2> HIDE DEF first, step, F
    <2> QED BY <2>1, <2>4
<1>6. Solves(VirtualBasesWithin)
    <2>1. VirtualBasesWithin = CHOOSE h : Solves(h)
        BY Zenon DEF VirtualBasesWithin, VirtualBasesFrom
    <2> HIDE DEF Solves
    <2> QED BY <1>5, <2>1
<1>7. \A left \in 0..MaxDepth : VirtualBasesWithin[left] = step(left, VirtualBasesWithin[left - 1])
    <2> HIDE DEF step
    <2> QED BY <1>6
<1>8. \A left \in 0..MaxDepth : VirtualBasesWithin[left] \in Flags
    <2>1. VirtualBasesWithin[0] \in Flags
        <3>1. 0 \in 0..MaxDepth
            BY <1>1
        <3> HIDE DEF step, first, Solves
        <3> QED BY <1>3, <1>7, <3>1
    <2>2. \A left \in 1..MaxDepth : VirtualBasesWithin[left - 1] \in Flags => VirtualBasesWithin[left] \in Flags
        <3>1. \A left \in 1..MaxDepth : left \in 0..MaxDepth
            BY <1>1
        <3> HIDE DEF step, Solves
        <3> QED BY <1>2, <1>7, <3>1
    <2> HIDE DEF Solves
    <2> QED BY <1>1, <2>1, <2>2, HoldsThroughout
<1>9. ASSUME NEW left \in 0..MaxDepth, NEW die \in AllDies
      PROVE  VirtualBasesWithin[left][die] = VirtualBasesFrom(left, VirtualBasesWithin[left - 1], die)
    <2>1. VirtualBasesWithin[left] = [d \in AllDies |-> VirtualBasesFrom(left, VirtualBasesWithin[left - 1], d)]
        BY <1>7
    <2> QED BY <2>1
<1> HIDE DEF Solves
<1> QED BY <1>8, <1>9

-----------------------------------------------------------------------------
(* Types of what is answered.                                              *)

LEMMA ChildrenAre ==
    ASSUME debug \in Debugs, NEW die \in AllDies, NEW c \in Children(die)
    PROVE  c \in AllDies /\ c = <<die[1], c[2]>> /\ c[1] = die[1]
<1>1. PICK p \in DOMAIN Entries(die[1]) : c = <<die[1], p>>
    BY DEF Children
<1>2. die[1] \in DOMAIN debug.units
    BY EntryNumbers
<1> QED BY <1>1, <1>2 DEF AllDies, Dies

\* Every number that an entry has, or 0, is one of 64 bits, and so are sums and products of
\* them, which wrap around.
LEMMA NumbersOf64Bits ==
    /\ 0 \in U64 /\ U64 \subseteq Nat
    /\ \A value \in Maybe(U64) : Or(value, 0) \in U64
    /\ \A n \in Nat : Wrap(n) \in U64 /\ Bits(n) \in U64
<1>1. 0 \in U64 /\ U64 \subseteq Nat
    BY DepthAndWord DEF U64
<1>2. \A n \in Nat : Wrap(n) \in U64
    BY WrapFits DEF Wraps, U64
<1>3. \A n \in Nat : n * 8 \in Nat
    OBVIOUS
<1> QED BY <1>1, <1>2, <1>3 DEF Or, Maybe, Bits

\* What is found of the type of an entry.
LEMMA FoundOfType ==
    ASSUME debug \in Debugs, NEW c \in AllDies
    PROVE  /\ TypeSize(c) \in Maybe(U64) /\ TypeAlign(c) \in Maybe(U64)
           /\ TypeIsEmpty(c) \in BOOLEAN /\ HasVirtualBases(c) \in BOOLEAN
<1>1. MaxDepth \in 0..MaxDepth
    BY DepthAndWord
<1>2. AlignWithin[MaxDepth] \in Aligns /\ EmptyWithin[MaxDepth] \in Flags /\ VirtualBasesWithin[MaxDepth] \in Flags
    BY <1>1, AlignWithinIs, EmptyWithinIs, VirtualBasesWithinIs
<1>3. TypeOf(c) = None \/ TypeOf(c) \in AllDies
    BY TypeOfIsEntry DEF Maybe
<1>4. TypeAlign(c) \in Maybe(U64)
    BY <1>2, <1>3 DEF TypeAlign, OfType, Aligns, Maybe, U64
<1>5. TypeIsEmpty(c) \in BOOLEAN /\ HasVirtualBases(c) \in BOOLEAN
    BY <1>2, <1>3 DEF TypeIsEmpty, HasVirtualBases, Flags
<1> QED BY <1>4, <1>5, TypeSizeFits DEF U64

\* A part of a layout, as LayoutFits has it.
PartFits(e) ==
    /\ e.size \in U64 /\ e.offset \in IF e.what = "base" THEN Maybe(U64) ELSE U64
    /\ e.what = "field" => e.align \in Maybe(U64) /\ e.empty \in BOOLEAN

LEMMA BitOffsetFits ==
    ASSUME debug \in Debugs, NEW c \in AllDies, Entry(c).bitSize # None
    PROVE  BitOffset(c) \in U64
<1> DEFINE entry == Entry(c)
<1> DEFINE start == Bits(Or(entry.location, 0))
<1> DEFINE storage == Bits(Or(Or(entry.byteSize, TypeSize(c)), 0))
<1> DEFINE offset == Or(entry.bitOffset, 0)
<1>1. \A n \in {entry.location, entry.byteSize, entry.bitSize, entry.bitOffset, entry.dataBitOffset} : n \in Maybe(U64)
    BY EntryNumbers DEF Numbers, U64
<1>2. Or(entry.byteSize, TypeSize(c)) \in Maybe(U64)
    BY <1>1, FoundOfType DEF Or
<1>3. start \in U64 /\ storage \in U64 /\ offset \in U64 /\ entry.bitSize \in U64
    BY <1>1, <1>2, NumbersOf64Bits DEF Maybe
<1>4. CASE entry.dataBitOffset # None
    BY <1>1, <1>4 DEF BitOffset, Maybe
<1>5. CASE entry.dataBitOffset = None
    <2>1. BitOffset(c) = LET end == Wrap(start + storage)
                         IN  IF debug.endian = "big" THEN Wrap(start + offset)
                             ELSE IF end < Wrap(offset + entry.bitSize) THEN 0 ELSE end - Wrap(offset + entry.bitSize)
        BY <1>5 DEF BitOffset
    <2> HIDE DEF entry, start, storage, offset
    <2>2. start + offset \in Nat /\ start + storage \in Nat /\ offset + entry.bitSize \in Nat
        BY <1>3, DepthAndWord DEF U64
    <2>3. Wrap(start + offset) \in U64 /\ Wrap(start + storage) \in U64 /\ Wrap(offset + entry.bitSize) \in U64
        BY <2>2, NumbersOf64Bits
    <2>4. \A end, back \in U64 : ~(end < back) => end - back \in U64
        BY DepthAndWord DEF U64
    <2> QED BY <2>1, <2>3, <2>4, NumbersOf64Bits
<1> QED BY <1>4, <1>5

LEMMA PartsFit ==
    ASSUME debug \in Debugs, NEW c \in AllDies
    PROVE  PartFits(Member(c)) /\ PartFits(Base(c))
<1> DEFINE entry == Entry(c)
<1>1. /\ entry.location \in Maybe(U64) /\ entry.bitSize \in Maybe(U64) /\ debug.addressSize \in U64
    BY EntryNumbers DEF Numbers, U64
<1>2. /\ Bits(Or(entry.location, 0)) \in U64 /\ Bits(debug.addressSize) \in U64
      /\ Bits(Or(TypeSize(c), 0)) \in U64
      /\ entry.location # None => Bits(entry.location) \in U64
    BY <1>1, FoundOfType, NumbersOf64Bits DEF Maybe
<1>3. TypeAlign(c) \in Maybe(U64) /\ TypeIsEmpty(c) \in BOOLEAN
    BY FoundOfType
<1>4. PartFits(Base(c))
    <2>1. Base(c).what = "base" /\ Base(c).size = Bits(Or(TypeSize(c), 0))
          /\ Base(c).offset = IF entry.location = None THEN None ELSE Bits(entry.location)
        BY DEF Base
    <2> QED BY <1>2, <2>1 DEF PartFits, Maybe
<1>5. CASE entry.artificial /\ entry.name = "_vptr"
    <2>1. Member(c).what = "vptr" /\ Member(c).size = Bits(debug.addressSize)
          /\ Member(c).offset = Bits(Or(entry.location, 0))
        BY <1>5 DEF Member
    <2> QED BY <1>2, <1>4, <2>1 DEF PartFits
<1>6. CASE ~(entry.artificial /\ entry.name = "_vptr") /\ entry.bitSize # None
    <2>1. Member(c).what = "bitfield" /\ Member(c).size = entry.bitSize /\ Member(c).offset = BitOffset(c)
        BY <1>6 DEF Member
    <2> QED BY <1>1, <1>4, <1>6, <2>1, BitOffsetFits DEF PartFits, Maybe
<1>7. CASE ~(entry.artificial /\ entry.name = "_vptr") /\ entry.bitSize = None
    <2>1. /\ Member(c).what = "field" /\ Member(c).size = Bits(Or(TypeSize(c), 0))
          /\ Member(c).offset = Bits(Or(entry.location, 0))
          /\ Member(c).align = TypeAlign(c) /\ Member(c).empty = TypeIsEmpty(c)
        BY <1>7 DEF Member
    <2> QED BY <1>2, <1>3, <1>4, <2>1 DEF PartFits
<1> QED BY <1>5, <1>6, <1>7

LEMMA LayoutsFit ==
    ASSUME debug \in Debugs, NEW d, <<d.unit, d.at>> \in AllDies
    PROVE  LayoutFits(Layout(d))
<1> DEFINE die == <<d.unit, d.at>>
<1> DEFINE members == {c \in OfTag(Children(die), {"member"}) : ~IsStatic(Entry(c))}
<1> DEFINE bases == OfTag(Children(die), {"inheritance"})
<1>1. /\ Layout(d).bytes = Or(Entry(die).byteSize, 0) /\ Layout(d).align = Entry(die).alignment
      /\ Layout(d).virtualBases = HasVirtualBases(die)
      /\ Layout(d).entries = {Member(c) : c \in members} \cup {Base(c) : c \in bases}
    BY DEF Layout
<1>2. Entry(die).byteSize \in Maybe(U64) /\ Entry(die).alignment \in Maybe(U64)
    BY EntryNumbers DEF Numbers, U64
<1>3. \A c \in members \cup bases : c \in AllDies
    BY ChildrenAre DEF OfTag
<1>4. HasVirtualBases(die) \in BOOLEAN
    BY FoundOfType
<1> HIDE DEF die, members, bases
<1>5. \A e \in Layout(d).entries : PartFits(e)
    BY <1>1, <1>3, PartsFit
<1> QED BY <1>1, <1>2, <1>4, <1>5, NumbersOf64Bits DEF LayoutFits, PartFits

LEMMA DeclarationsFit == \A path : LayoutFits(Declaration(path))
BY NumbersOf64Bits DEF Declaration, LayoutFits, Maybe

RangeFits(range) == range[1] \in 1..(Word - 3) /\ range[2] \in (range[1] + 1)..(Word - 1)

\* What TypeOK says of answers.
SizesInv ==
    /\ \A l \in Answers("types") : LayoutFits(l)
    /\ \A f \in Answers("functions") : \A k \in DOMAIN f.ranges : RangeFits(f.ranges[k])
    /\ \A v \in Answers("variables") : v.address \in U64 \ {0} /\ v.size \in U64

\* What a function keeps of its ranges are those that are live.
LEMMA KeptRanges ==
    ASSUME debug \in Debugs, NEW die \in AllDies
    PROVE  LET ranges == Entry(die).ranges
               kept   == Kept(ranges, LiveRanges(die))
           IN  {kept[k] : k \in DOMAIN kept} = {ranges[k] : k \in LiveRanges(die)}
<1> DEFINE ranges == Entry(die).ranges
<1> DEFINE live == LiveRanges(die)
<1> DEFINE order == InOrder(live)
<1>1. Len(ranges) \in Nat /\ DOMAIN ranges = 1..Len(ranges)
    BY EntryNumbers
<1>2. \A j \in live : j \in DOMAIN ranges
    BY DEF LiveRanges
<1>3. live \in SUBSET Nat /\ IsFiniteSet(live)
    <2> HIDE DEF live, ranges
    <2>1. live \in SUBSET (1..Len(ranges))
        BY <1>1, <1>2
    <2>2. IsFiniteSet(1..Len(ranges))
        BY <1>1, FS_Interval
    <2>3. \A j \in live : j \in Nat
        BY <1>1, <1>2
    <2> QED BY <2>1, <2>2, <2>3, FS_Subset, Zenon
<1>4. /\ order \in [1..Cardinality(live) -> live]
      /\ \A s \in live : \E k \in 1..Cardinality(live) : order[k] = s
    <2> HIDE DEF live
    <2> QED BY <1>3, InOrderLists
<1>5. /\ DOMAIN Kept(ranges, live) = DOMAIN order
      /\ \A k \in DOMAIN order : Kept(ranges, live)[k] = ranges[order[k]]
    BY DEF Kept
<1> HIDE DEF order, live, ranges
<1>6. {Kept(ranges, live)[k] : k \in DOMAIN Kept(ranges, live)} = {ranges[k] : k \in live}
    BY <1>4, <1>5
<1> QED BY <1>6 DEF live, ranges

\* Hence none is empty, ends before it starts, or starts at an address that is none.
LEMMA FunctionsFit ==
    ASSUME debug \in Debugs, NEW u \in DOMAIN debug.units
    PROVE  \A f \in Functions(u) : \A k \in DOMAIN f.ranges : RangeFits(f.ranges[k])
<1> SUFFICES ASSUME NEW f \in Functions(u), NEW k \in DOMAIN f.ranges
             PROVE  RangeFits(f.ranges[k])
    OBVIOUS
<1>1. PICK die \in Dies(u) : f.ranges = Kept(Entry(die).ranges, LiveRanges(die))
    BY DEF Functions, OfTag
<1>2. die \in AllDies
    BY <1>1 DEF AllDies
<1>3. PICK j \in LiveRanges(die) : f.ranges[k] = Entry(die).ranges[j]
    BY <1>1, <1>2, KeptRanges
<1> DEFINE range == Entry(die).ranges[j]
<1>4. range[1] \in 0..(Word - 1) /\ range[2] \in 0..(Word - 1) /\ Live(range)
    BY <1>2, <1>3, EntryNumbers DEF LiveRanges
<1> HIDE DEF range
<1>5. RangeFits(range)
    BY <1>4, DepthAndWord DEF Live, RangeFits
<1> QED BY <1>3, <1>5 DEF range

LEMMA VariablesFit ==
    ASSUME debug \in Debugs
    PROVE  \A v \in Variables : v.address \in U64 \ {0} /\ v.size \in U64
<1> SUFFICES ASSUME NEW v \in Variables PROVE v.address \in U64 \ {0} /\ v.size \in U64
    OBVIOUS
<1>1. PICK u \in DOMAIN debug.units : \E die \in SizedVariables(u) : v.address = Entry(die).address /\ v.size = TypeSize(die)
    BY DEF Variables
<1>2. PICK die \in SizedVariables(u) : v.address = Entry(die).address /\ v.size = TypeSize(die)
    BY <1>1
<1>3. die \in AllDies /\ TypeSize(die) # None /\ Entry(die).address \notin {None, 0}
    BY <1>2 DEF SizedVariables, OfTag, AllDies
<1>4. Entry(die).address \in Maybe(U64) /\ TypeSize(die) \in Maybe(U64)
    BY <1>3, EntryNumbers, FoundOfType DEF Numbers, U64
<1> QED BY <1>2, <1>3, <1>4 DEF Maybe

LEMMA SizesInit == ReaderInit => SizesInv
BY DEF ReaderInit, SizesInv, Answers

\* What is defined was defined by an entry of a unit.
LEMMA DefinitionsAreEntries ==
    ASSUME ReaderInv, NEW d \in definitions
    PROVE  <<d.unit, d.at>> \in AllDies /\ Entry(<<d.unit, d.at>>).tag \in AggregateTags
<1>1. GatheredInv /\ PhaseInv
    BY DEF ReaderInv, IndexInv
<1>2. PICK die \in Aggregates(FALSE) : d = Definition(die)
    BY <1>1 DEF GatheredInv, PhaseInv, Gathered
<1>3. Entry(die).tag \in AggregateTags /\ die = <<die[1], die[2]>> /\ die \in AllDies
    BY AggregateIs DEF Aggregates
<1> QED BY <1>2, <1>3 DEF Definition

LEMMA SizesKept == ReaderInv /\ SizesInv /\ [Next]_vars => SizesInv'
<1> SUFFICES ASSUME ReaderInv, SizesInv, [Next]_vars PROVE SizesInv'
    OBVIOUS
<1>0. debug \in Debugs
    BY DEF ReaderInv, IndexInv, WalkInv, WalkTypes
<1>1. CASE query' = query /\ answer' = answer
    BY <1>1 DEF SizesInv, Answers
<1>2. CASE FindTypes
    <2>1. /\ query' = "types"
          /\ \/ answer'.found = {}
             \/ answer'.found = {Layout(d) : d \in definitions} \cup {Declaration(p) : p \in Declared}
        BY <1>2 DEF FindTypes, Answer, Failure, Found
    <2>2. \A d \in definitions : LayoutFits(Layout(d))
        BY <1>0, DefinitionsAreEntries, LayoutsFit
    <2>3. \A l \in answer'.found : LayoutFits(l)
        BY <2>1, <2>2, DeclarationsFit
    <2> QED BY <2>1, <2>3 DEF SizesInv, Answers
<1>3. ASSUME NEW u \in 1..(Len(debug.units) + 1), FindFunctions(u) PROVE SizesInv'
    <2>1. query' = "functions" /\ (answer'.found = {} \/ (u \in DOMAIN debug.units /\ answer'.found = Functions(u)))
        BY <1>3 DEF FindFunctions, Answer, Failure, FoundIn
    <2>2. \A f \in answer'.found : \A k \in DOMAIN f.ranges : RangeFits(f.ranges[k])
        BY <1>0, <2>1, FunctionsFit
    <2> QED BY <2>1, <2>2 DEF SizesInv, Answers
<1>4. CASE FindVariables
    <2>1. query' = "variables" /\ answer'.found \subseteq Variables
        BY <1>4 DEF FindVariables, Answer, Failure, Found
    <2> QED BY <1>0, <2>1, VariablesFit DEF SizesInv, Answers
<1> QED BY <1>1, <1>2, <1>3, <1>4 DEF Next, Index, Answered, vars

LEMMA TypesHold == ReaderInv /\ SizesInv => TypeOK
<1> SUFFICES ASSUME ReaderInv, SizesInv PROVE TypeOK
    OBVIOUS
<1>1. WalkTypes /\ PhaseInv
    BY DEF ReaderInv, IndexInv, WalkInv
<1> QED BY <1>1, DefinitionsAreEntries DEF TypeOK, SizesInv, RangeFits, WalkTypes, PhaseInv

\* Whatever numbers the entries hold and whatever types they refer to, the sizes, offsets and
\* alignments of every layout that is answered fit 64 bits; an offset is missing of virtual
\* bases only; ranges of functions are not empty and at no address that stands for none; and
\* the walk stays within the units.
THEOREM ReaderTypeCorrect == Spec => []TypeOK
<1>1. Spec => [](ReaderInv /\ SizesInv)
    BY ReaderInitHolds, ReaderKeeps, SizesInit, SizesKept, PTL DEF Spec
<1> QED BY <1>1, TypesHold, PTL

-----------------------------------------------------------------------------
(* The parts of an aggregate, as they are written.                         *)

LEMMA PartIs ==
    ASSUME debug \in Debugs, Written, NEW die \in Types, Entry(die).tag \in AggregateTags
    PROVE  /\ AggregateWritten(die) /\ die \in AllDies
           /\ \A c \in Parts(die) :
                 /\ c \in Children(die) /\ c \in AllDies /\ c = <<die[1], c[2]>> /\ PartWritten(c)
                 /\ Entry(c).tag \in {"member", "inheritance"} /\ ~Entry(c).declaration
                 /\ ~Entry(c).artificial =>
                       /\ ReferenceWritten(c)
                       /\ Meant(c) # None => Meant(c) \in MadeOf(die)
<1>1. TypeWritten(die) /\ die \in AllDies
    BY TypeIs
<1>2. AggregateWritten(die)
    BY <1>1 DEF TypeWritten, AggregateTags, PointerTags, QualifierTags
<1>3. ASSUME NEW c \in Parts(die)
      PROVE  /\ c \in Children(die) /\ c \in AllDies /\ c = <<die[1], c[2]>> /\ PartWritten(c)
             /\ Entry(c).tag \in {"member", "inheritance"} /\ ~Entry(c).declaration
             /\ ~Entry(c).artificial =>
                   /\ ReferenceWritten(c)
                   /\ Meant(c) # None => Meant(c) \in MadeOf(die)
    <2>1. c \in Children(die) /\ Entry(c).tag \in {"member", "inheritance"} /\ ~Entry(c).declaration
        BY DEF Parts, OfTag
    <2>2. c \in AllDies /\ c = <<die[1], c[2]>>
        BY <1>1, <2>1, ChildrenAre
    <2>3. PartWritten(c)
        BY <1>2 DEF AggregateWritten
    <2>4. ASSUME ~Entry(c).artificial PROVE ReferenceWritten(c)
        BY <2>3, <2>4 DEF PartWritten
    <2>5. ASSUME ~Entry(c).artificial, Meant(c) # None PROVE Meant(c) \in MadeOf(die)
        <3>1. Entry(die).tag \notin QualifierTags \cup {"array"}
            BY DEF AggregateTags, QualifierTags
        <3> QED BY <2>5, <3>1 DEF MadeOf
    <2> QED BY <2>1, <2>2, <2>3, <2>4, <2>5
<1> QED BY <1>1, <1>2, <1>3

\* What is known of a type rests on fewer steps for the types that it is made of.
Rests(die) ==
    \/ Fact(die).size # None /\ Entry(die).byteSize = None
    \/ Fact(die).align # None \/ Fact(die).empty \/ Fact(die).virtual

LEMMA FewerSteps ==
    ASSUME debug \in Debugs, Written, NEW die \in Types, Rests(die), NEW left \in 0..MaxDepth, Near(die, left),
           NEW to \in MadeOf(die), to \in Types
    PROVE  Fact(to).steps < left
<1>1. \A t \in MadeOf(die) : Fact(t).steps < Fact(die).steps
    BY TypeIs, Zenon DEF TypeWritten, Rests
<1>2. Fact(to).steps \in Nat /\ Fact(die).steps \in Nat /\ left \in Nat
    BY StepsAreNatural, DepthAndWord
<1>3. Fact(die).steps <= left
    BY DEF Near
<1> QED BY <1>1, <1>2, <1>3

-----------------------------------------------------------------------------
(* Alignments that are written.                                            *)
AlignsAgree(left) == \A die \in Types : Agrees(AlignWithin[left][die], Fact(die).align, Near(die, left))

InnerAlign(left, die) == IF left = 0 THEN None ELSE OfType(AlignWithin[left - 1], die)

LEMMA InnerAlignAgrees ==
    ASSUME debug \in Debugs, Written, NEW left \in 0..MaxDepth, left = 0 \/ AlignsAgree(left - 1),
           NEW die \in AllDies, ReferenceWritten(die), NEW near,
           near /\ Meant(die) # None => Fact(Meant(die)).steps < left
    PROVE  Agrees(InnerAlign(left, die), AlignOf(Meant(die)), near)
<1>1. TypeOf(die) = Meant(die) /\ Meant(die) \in Maybe(Types)
    BY ReferenceLeads
<1>2. CASE Meant(die) = None
    BY <1>1, <1>2 DEF InnerAlign, OfType, AlignOf, Agrees
<1>3. CASE Meant(die) # None
    <2> DEFINE to == Meant(die)
    <2>1. to \in Types /\ Fact(to).steps \in Nat /\ left \in Nat
        <3>1. to \in Types
            BY <1>1, <1>3 DEF Maybe
        <3>2. Fact(to).steps \in 0..MaxDepth
            BY <3>1, StepsAreNatural
        <3> QED BY <3>1, <3>2, DepthAndWord
    <2>2. AlignOf(to) = Fact(to).align
        BY <1>3 DEF AlignOf
    <2>3. CASE left = 0
        <3>1. ~near
            <4> SUFFICES ASSUME near PROVE FALSE
                OBVIOUS
            <4>1. Fact(to).steps < 0
                BY <1>3, <2>3
            <4> QED BY <2>1, <4>1
        <3> QED BY <2>3, <3>1 DEF InnerAlign, Agrees
    <2>4. CASE left # 0
        <3>1. InnerAlign(left, die) = AlignWithin[left - 1][to]
            BY <1>1, <1>3, <2>4 DEF InnerAlign, OfType
        <3>2. Agrees(AlignWithin[left - 1][to], Fact(to).align, Near(to, left - 1))
            BY <2>1, <2>4 DEF AlignsAgree
        <3>3. near => Near(to, left - 1)
            <4> SUFFICES ASSUME near PROVE Near(to, left - 1)
                OBVIOUS
            <4>1. Fact(to).steps < left
                BY <1>3
            <4> QED BY <2>1, <4>1 DEF Near
        <3> HIDE DEF to
        <3>4. Agrees(InnerAlign(left, die), AlignOf(to), near)
            BY <2>2, <3>1, <3>2, <3>3 DEF Agrees
        <3> QED BY <3>4 DEF to
    <2> QED BY <2>3, <2>4
<1> QED BY <1>2, <1>3

\* An alignment of its own for what has a power of two for a size.
LEMMA ScalarAlign ==
    ASSUME NEW size \in 1..16
    PROVE  Max({1, Min({size, 16})}) = size
<1>1. Min({size, 16}) = size
    BY DEF Min
<1>2. Max({1, size}) = size
    BY DEF Max
<1> QED BY <1>1, <1>2

LEMMA AlignOfAggregate ==
    ASSUME debug \in Debugs, Written, NEW left \in 0..MaxDepth, left = 0 \/ AlignsAgree(left - 1),
           NEW die \in Types, Entry(die).tag \in AggregateTags, Entry(die).alignment = None
    PROVE  Agrees(AlignWithin[left][die], Fact(die).align, Near(die, left))
<1> DEFINE align == Fact(die).align
<1> DEFINE aligns == {PartAlign(c) : c \in Parts(die)}
<1> DEFINE inner(c) == InnerAlign(left, c)
<1> DEFINE parts == {IF Entry(c).artificial THEN debug.addressSize ELSE inner(c) : c \in Aligned(die)}
<1>1. AggregateWritten(die) /\ die \in AllDies
    BY PartIs
<1>2. align = IF None \in aligns THEN None ELSE Max(aligns \cup {1})
    BY <1>1, Zenon DEF AggregateWritten
<1>3. AlignWithin[left][die] = IF None \in parts THEN None ELSE Max(parts \cup {1})
    <2>1. AlignWithin[left][die] = AlignFrom(left, AlignWithin[left - 1], die)
        BY <1>1, AlignWithinIs
    <2>2. Entry(die).tag \notin {"base", "enumeration"} /\ Entry(die).tag \notin PointerTags
        BY DEF AggregateTags, PointerTags
    <2>3. \A c : InnerAlign(left, c) = IF left = 0 THEN None ELSE OfType(AlignWithin[left - 1], c)
        BY DEF InnerAlign
    <2> DEFINE sets == {IF Entry(c).artificial THEN debug.addressSize
                        ELSE IF left = 0 THEN None ELSE OfType(AlignWithin[left - 1], c) : c \in Aligned(die)}
    <2>4. AlignFrom(left, AlignWithin[left - 1], die)
              = IF Entry(die).alignment # None THEN Entry(die).alignment
                ELSE IF Entry(die).tag \in {"base", "enumeration"}
                THEN IF Entry(die).byteSize = None THEN None ELSE Max({1, Min({Entry(die).byteSize, 16})})
                ELSE IF Entry(die).tag \in PointerTags THEN debug.addressSize
                ELSE IF Entry(die).tag \notin AggregateTags
                THEN IF left = 0 THEN None ELSE OfType(AlignWithin[left - 1], die)
                ELSE IF None \in sets THEN None ELSE Max(sets \cup {1})
        BY Zenon DEF AlignFrom
    <2>5. sets = parts
        BY <2>3
    <2> HIDE DEF sets, parts
    <2> QED BY <2>1, <2>2, <2>4, <2>5
<1>4. Aligned(die) = Parts(die)
    <2>1. \A c \in Parts(die) : Entry(c).artificial \/ Entry(c).type # None
        <3>1. \A c \in Parts(die) : PartWritten(c)
            BY PartIs
        <3> QED BY <3>1 DEF PartWritten
    <2> QED BY <2>1 DEF Parts, Aligned
<1>5. debug.addressSize # None
    BY <1>1, EntryNumbers, DepthAndWord, NoneIsNoNumber
<1> DEFINE near == align # None /\ Near(die, left)
<1>6. ASSUME NEW c \in Parts(die), ~Entry(c).artificial PROVE Agrees(inner(c), PartAlign(c), near)
    <2>1. c \in AllDies /\ ReferenceWritten(c) /\ (Meant(c) # None => Meant(c) \in MadeOf(die))
        BY <1>6, PartIs
    <2>2. near /\ Meant(c) # None => Fact(Meant(c)).steps < left
        <3> SUFFICES ASSUME near, Meant(c) # None PROVE Fact(Meant(c)).steps < left
            OBVIOUS
        <3>1. Meant(c) \in Types
            BY <2>1, ReferenceLeads DEF Maybe
        <3> QED BY <2>1, <3>1, FewerSteps DEF Rests
    <2>3. Agrees(InnerAlign(left, c), AlignOf(Meant(c)), near)
        <3> HIDE DEF near
        <3> QED BY <2>1, <2>2, InnerAlignAgrees
    <2> QED BY <1>6, <2>3 DEF PartAlign
<1>7. CASE align = None
    <2>1. None \in aligns
        <3> SUFFICES ASSUME None \notin aligns PROVE FALSE
            OBVIOUS
        <3>2. align = Max(aligns \cup {1}) /\ None \notin aligns \cup {1}
            <4>1. None # 1
                BY NoneIsNoNumber
            <4> HIDE DEF aligns
            <4>2. None \notin aligns
                OBVIOUS
            <4> QED BY <1>2, <4>1, <4>2
        <3>3. \A a \in aligns : a \in 0..(Word - 1)
            <4> SUFFICES ASSUME NEW c \in Parts(die) PROVE PartAlign(c) \in 0..(Word - 1)
                OBVIOUS
            <4>1. PartAlign(c) # None
                OBVIOUS
            <4>2. CASE Entry(c).artificial
                BY <1>1, <4>2, EntryNumbers, DepthAndWord DEF PartAlign
            <4>3. CASE ~Entry(c).artificial
                <5>1. PartAlign(c) = AlignOf(Meant(c)) /\ Meant(c) \in Maybe(Types)
                    BY <4>3, PartIs, ReferenceLeads DEF PartAlign
                <5>2. Meant(c) \in Types /\ AlignOf(Meant(c)) = Fact(Meant(c)).align
                    BY <4>1, <5>1 DEF AlignOf, Maybe
                <5>3. Fact(Meant(c)).align \in Maybe(0..(Word - 1))
                    BY <5>2, StepsAreNatural
                <5>4. PartAlign(c) \in 0..(Word - 1)
                    BY <4>1, <5>1, <5>2, <5>3 DEF Maybe
                <5> QED BY <5>4, DepthAndWord
            <4> QED BY <4>2, <4>3
        <3> DEFINE S == aligns \cup {1}
        <3>4. S \subseteq 0..(Word - 1) /\ S # {} /\ Word - 1 \in Nat
            <4> HIDE DEF aligns
            <4> QED BY <3>3, DepthAndWord
        <3> HIDE DEF S
        <3>5. Max(S) \in S
            BY <3>4, LargestIs
        <3>6. Max(aligns \cup {1}) \in aligns \cup {1}
            BY <3>5 DEF S
        <3> HIDE DEF aligns
        <3> QED BY <1>7, <3>2, <3>6
    <2>2. PICK c \in Parts(die) : PartAlign(c) = None
        BY <2>1
    <2>3. ~Entry(c).artificial
        BY <1>5, <2>2 DEF PartAlign
    <2>4. inner(c) = None
        <3> HIDE DEF inner, near
        <3> QED BY <1>6, <2>2, <2>3 DEF Agrees
    <2>5. None \in parts
        BY <1>4, <2>3, <2>4
    <2>6. AlignWithin[left][die] = None
        <3> HIDE DEF parts
        <3> QED BY <1>3, <2>5
    <2> QED BY <1>7, <2>6 DEF Agrees
<1>8. CASE near
    <2>1. None \notin aligns /\ align = Max(aligns \cup {1})
        <3> HIDE DEF aligns
        <3> QED BY <1>2, <1>8
    <2>2. \A c \in Parts(die) :
              PartAlign(c) = IF Entry(c).artificial THEN debug.addressSize ELSE inner(c)
        <3> SUFFICES ASSUME NEW c \in Parts(die), ~Entry(c).artificial PROVE PartAlign(c) = inner(c)
            BY DEF PartAlign
        <3>1. PartAlign(c) # None
            BY <2>1
        <3> HIDE DEF inner, near
        <3> QED BY <1>6, <1>8, <3>1 DEF Agrees
    <2>3. parts = aligns
        <3> HIDE DEF inner
        <3> QED BY <1>4, <2>2
    <2> HIDE DEF parts, aligns
    <2> QED BY <1>3, <2>1, <2>3 DEF Agrees
<1> QED BY <1>7, <1>8 DEF Agrees

\* A type's alignment that is known is found if there are enough steps to the types within it.
LEMMA AlignAgrees ==
    ASSUME debug \in Debugs, Written, NEW left \in 0..MaxDepth, left = 0 \/ AlignsAgree(left - 1),
           NEW die \in Types
    PROVE  Agrees(AlignWithin[left][die], Fact(die).align, Near(die, left))
<1> DEFINE entry == Entry(die)
<1> DEFINE align == Fact(die).align
<1> DEFINE inner == InnerAlign(left, die)
<1> DEFINE near == align # None /\ Near(die, left)
<1> DEFINE found == AlignWithin[left][die]
<1>1. TypeWritten(die) /\ die \in AllDies
    BY TypeIs
<1>2. /\ entry.alignment # None => found = entry.alignment
      /\ entry.alignment = None /\ entry.tag \in {"base", "enumeration"} =>
            found = IF entry.byteSize = None THEN None ELSE Max({1, Min({entry.byteSize, 16})})
      /\ entry.alignment = None /\ entry.tag \in PointerTags => found = debug.addressSize
      /\ entry.alignment = None /\ entry.tag \in QualifierTags \cup {"array"} => found = inner
    <2>1. found = AlignFrom(left, AlignWithin[left - 1], die)
        BY <1>1, AlignWithinIs
    <2> DEFINE parts == {IF Entry(c).artificial THEN debug.addressSize
                         ELSE IF left = 0 THEN None ELSE OfType(AlignWithin[left - 1], c) : c \in Aligned(die)}
    <2>2. AlignFrom(left, AlignWithin[left - 1], die)
              = IF Entry(die).alignment # None THEN Entry(die).alignment
                ELSE IF Entry(die).tag \in {"base", "enumeration"}
                THEN IF Entry(die).byteSize = None THEN None ELSE Max({1, Min({Entry(die).byteSize, 16})})
                ELSE IF Entry(die).tag \in PointerTags THEN debug.addressSize
                ELSE IF Entry(die).tag \notin AggregateTags
                THEN IF left = 0 THEN None ELSE OfType(AlignWithin[left - 1], die)
                ELSE IF None \in parts THEN None ELSE Max(parts \cup {1})
        BY Zenon DEF AlignFrom
    <2>3. inner = IF left = 0 THEN None ELSE OfType(AlignWithin[left - 1], die)
        BY DEF InnerAlign
    <2>4. /\ entry.tag \in {"base", "enumeration"} => entry.tag \notin PointerTags
          /\ entry.tag \in PointerTags => entry.tag \notin {"base", "enumeration"}
          /\ entry.tag \in QualifierTags \cup {"array"} =>
                entry.tag \notin {"base", "enumeration"} \cup PointerTags \cup AggregateTags
        BY DEF PointerTags, QualifierTags, AggregateTags
    <2> HIDE DEF parts, found, inner
    <2> QED BY <2>1, <2>2, <2>3, <2>4
<1>3. CASE entry.alignment # None
    <2>1. align = entry.alignment
        BY <1>1, <1>3 DEF TypeWritten
    <2> QED BY <1>2, <1>3, <2>1 DEF Agrees
<1>4. CASE entry.alignment = None /\ entry.tag \in {"base", "enumeration"}
    <2>1. Fact(die).size \in 1..16 /\ entry.byteSize = Fact(die).size /\ align = Fact(die).size
        BY <1>1, <1>4 DEF TypeWritten, ScalarWritten, PointerTags, QualifierTags, AggregateTags
    <2>2. Max({1, Min({entry.byteSize, 16})}) = entry.byteSize
        BY <2>1, ScalarAlign
    <2>3. entry.byteSize # None
        BY <2>1, NoneIsNoNumber
    <2>4. found = align
        <3> HIDE DEF found
        <3> QED BY <1>2, <1>4, <2>1, <2>2, <2>3
    <2> QED BY <2>1, <2>3, <2>4 DEF Agrees
<1>5. CASE entry.alignment = None /\ entry.tag \in PointerTags
    <2>1. align = debug.addressSize
        BY <1>1, <1>5 DEF TypeWritten, PointerWritten, PointerTags, QualifierTags, AggregateTags
    <2> QED BY <1>2, <1>5, <2>1 DEF Agrees
<1>6. CASE entry.alignment = None /\ entry.tag \in QualifierTags \cup {"array"}
    <2>1. ReferenceWritten(die) /\ align = AlignOf(Meant(die))
        <3>1. CASE entry.tag \in QualifierTags
            BY <1>1, <1>6, <3>1 DEF TypeWritten, QualifierWritten, PointerTags, QualifierTags, AggregateTags
        <3>2. CASE entry.tag = "array"
            BY <1>1, <1>6, <3>2 DEF TypeWritten, ArrayWritten, PointerTags, QualifierTags, AggregateTags
        <3> QED BY <1>6, <3>1, <3>2
    <2>2. near /\ Meant(die) # None => Fact(Meant(die)).steps < left
        <3> SUFFICES ASSUME near, Meant(die) # None PROVE Fact(Meant(die)).steps < left
            OBVIOUS
        <3>1. Meant(die) \in Types
            BY <1>1, <2>1, ReferenceLeads DEF Maybe
        <3>2. Meant(die) \in MadeOf(die)
            BY <1>6 DEF MadeOf
        <3> QED BY <3>1, <3>2, FewerSteps DEF Rests
    <2>3. Agrees(inner, AlignOf(Meant(die)), near)
        <3> HIDE DEF near
        <3> QED BY <1>1, <2>1, <2>2, InnerAlignAgrees
    <2>4. found = inner
        <3> HIDE DEF found, inner
        <3> QED BY <1>2, <1>6
    <2> HIDE DEF found, inner
    <2>5. Agrees(found, align, Near(die, left))
        BY <2>1, <2>3, <2>4 DEF Agrees
    <2> QED BY <2>5 DEF found
<1>7. CASE entry.alignment = None /\ entry.tag \in AggregateTags
    BY <1>7, AlignOfAggregate
<1>8. entry.tag \in {"base", "enumeration"} \cup PointerTags \cup QualifierTags \cup {"array"} \cup AggregateTags
    BY <1>1 DEF TypeWritten
<1> QED BY <1>3, <1>4, <1>5, <1>6, <1>7, <1>8

\* A reference to a type is answered with the type's alignment, if that is known.
LEMMA AlignsRead ==
    ASSUME debug \in Debugs, Written
    PROVE  \A die \in AllDies : ReferenceWritten(die) => TypeAlign(die) = AlignOf(Meant(die))
<1> DEFINE P == {left \in 0..MaxDepth : AlignsAgree(left)}
<1>1. MaxDepth \in Nat
    BY DepthAndWord
<1>2. 0 \in P
    BY <1>1, AlignAgrees DEF AlignsAgree
<1>3. ASSUME NEW left \in 1..MaxDepth, left - 1 \in P PROVE left \in P
    <2>1. AlignsAgree(left - 1) /\ left \in 0..MaxDepth
        BY <1>1, <1>3
    <2> QED BY <2>1, AlignAgrees DEF AlignsAgree
<1>4. MaxDepth \in P
    <2>1. MaxDepth \in 0..MaxDepth
        BY <1>1
    <2> HIDE DEF P
    <2> QED BY <1>1, <1>2, <1>3, <2>1, CountingUp
<1>5. AlignsAgree(MaxDepth)
    BY <1>4
<1> SUFFICES ASSUME NEW die \in AllDies, ReferenceWritten(die)
             PROVE  TypeAlign(die) = AlignOf(Meant(die))
    OBVIOUS
<1>6. TypeOf(die) = Meant(die) /\ Meant(die) \in Maybe(Types)
    BY ReferenceLeads
<1>7. CASE Meant(die) = None
    BY <1>6, <1>7 DEF TypeAlign, OfType, AlignOf
<1>8. CASE Meant(die) # None
    <2> DEFINE to == Meant(die)
    <2>1. to \in Types
        BY <1>6, <1>8 DEF Maybe
    <2>2. Fact(to).steps \in 0..MaxDepth
        BY <2>1, StepsAreNatural
    <2>3. Near(to, MaxDepth)
        BY <1>1, <2>2 DEF Near
    <2>4. Agrees(AlignWithin[MaxDepth][to], Fact(to).align, Near(to, MaxDepth))
        BY <1>5, <2>1 DEF AlignsAgree
    <2>5. AlignWithin[MaxDepth][to] = Fact(to).align
        BY <2>3, <2>4 DEF Agrees
    <2> QED BY <1>6, <1>8, <2>5 DEF TypeAlign, OfType, AlignOf
<1> QED BY <1>7, <1>8

-----------------------------------------------------------------------------
(* What is empty, and what has virtual bases.                              *)
Follows(value, fact, near) == (value => fact) /\ (fact /\ near => value)

EmptiesAgree(left) == \A die \in Types : Follows(EmptyWithin[left][die], Fact(die).empty, Near(die, left))

InnerEmpty(left, c) == left > 0 /\ TypeOf(c) # None /\ EmptyWithin[left - 1][TypeOf(c)]

LEMMA InnerEmptyFollows ==
    ASSUME debug \in Debugs, Written, NEW left \in 0..MaxDepth, left = 0 \/ EmptiesAgree(left - 1),
           NEW die \in AllDies, ReferenceWritten(die), NEW near,
           near /\ IsEmpty(Meant(die)) => Fact(Meant(die)).steps < left
    PROVE  Follows(InnerEmpty(left, die), IsEmpty(Meant(die)), near)
<1>1. TypeOf(die) = Meant(die) /\ Meant(die) \in Maybe(Types)
    BY ReferenceLeads
<1>2. CASE Meant(die) = None
    BY <1>1, <1>2 DEF InnerEmpty, IsEmpty, Follows
<1>3. CASE Meant(die) # None
    <2> DEFINE to == Meant(die)
    <2>1. to \in Types /\ Fact(to).steps \in Nat /\ left \in Nat
        <3>1. to \in Types
            BY <1>1, <1>3 DEF Maybe
        <3>2. Fact(to).steps \in 0..MaxDepth
            BY <3>1, StepsAreNatural
        <3> QED BY <3>1, <3>2, DepthAndWord
    <2>2. IsEmpty(to) <=> Fact(to).empty
        BY <1>3 DEF IsEmpty
    <2>3. CASE left = 0
        <3>1. ~(near /\ IsEmpty(to))
            <4> SUFFICES ASSUME near, IsEmpty(to) PROVE FALSE
                OBVIOUS
            <4>1. Fact(to).steps < 0
                BY <2>3
            <4> QED BY <2>1, <4>1
        <3> QED BY <2>3, <3>1 DEF InnerEmpty, Follows
    <2>4. CASE left # 0
        <3>1. InnerEmpty(left, die) <=> EmptyWithin[left - 1][to]
            BY <1>1, <1>3, <2>1, <2>4 DEF InnerEmpty
        <3>2. Follows(EmptyWithin[left - 1][to], Fact(to).empty, Near(to, left - 1))
            BY <2>1, <2>4 DEF EmptiesAgree
        <3>3. near /\ IsEmpty(to) => Near(to, left - 1)
            <4> SUFFICES ASSUME near, IsEmpty(to) PROVE Near(to, left - 1)
                OBVIOUS
            <4>1. Fact(to).steps < left
                OBVIOUS
            <4> QED BY <2>1, <4>1 DEF Near
        <3> HIDE DEF to
        <3>4. Follows(InnerEmpty(left, die), IsEmpty(to), near)
            BY <2>2, <3>1, <3>2, <3>3 DEF Follows
        <3> QED BY <3>4 DEF to
    <2> QED BY <2>3, <2>4
<1> QED BY <1>2, <1>3

LEMMA EmptyFound ==
    ASSUME debug \in Debugs, NEW left \in 0..MaxDepth, NEW die \in AllDies
    PROVE  EmptyWithin[left][die] <=>
              \/ Entry(die).tag \in QualifierTags /\ InnerEmpty(left, die)
              \/ /\ Entry(die).tag \in {"structure", "class"} /\ ~Entry(die).declaration
                 /\ \A c \in OfTag(Children(die), {"member"}) : Entry(c).declaration
                 /\ \A c \in OfTag(Children(die), {"inheritance"}) : ~Entry(c).virtual /\ InnerEmpty(left, c)
<1>1. EmptyWithin[left][die] = EmptyFrom(left, EmptyWithin[left - 1], die)
    BY EmptyWithinIs
<1>2. \A c : InnerEmpty(left, c) <=> left > 0 /\ TypeOf(c) # None /\ EmptyWithin[left - 1][TypeOf(c)]
    BY DEF InnerEmpty
<1> QED BY <1>1, <1>2, Zenon DEF EmptyFrom

\* The bases and members that have room are those that are not declarations.
LEMMA BasesAre ==
    ASSUME debug \in Debugs, Written, NEW die \in Types, Entry(die).tag \in AggregateTags
    PROVE  /\ Bases(die) = OfTag(Children(die), {"inheritance"})
           /\ OfTag(Parts(die), {"member"}) = {c \in OfTag(Children(die), {"member"}) : ~Entry(c).declaration}
           /\ \A c \in Bases(die) :
                 /\ c \in AllDies /\ ReferenceWritten(c) /\ (Meant(c) # None => Meant(c) \in MadeOf(die))
                 /\ IsVirtual(Meant(c)) => Entry(Meant(c)).tag \in AggregateTags
<1>1. \A c \in OfTag(Children(die), {"inheritance"}) : ~Entry(c).declaration
    BY PartIs DEF AggregateWritten
<1>2. Bases(die) = OfTag(Children(die), {"inheritance"})
    BY <1>1 DEF Bases, Parts, OfTag
<1>3. OfTag(Parts(die), {"member"}) = {c \in OfTag(Children(die), {"member"}) : ~Entry(c).declaration}
    BY DEF Parts, OfTag
<1>4. ASSUME NEW c \in Bases(die)
      PROVE  /\ c \in AllDies /\ ReferenceWritten(c) /\ (Meant(c) # None => Meant(c) \in MadeOf(die))
             /\ IsVirtual(Meant(c)) => Entry(Meant(c)).tag \in AggregateTags
    <2>1. c \in Parts(die) /\ Entry(c).tag = "inheritance"
        BY DEF Bases, OfTag
    <2>2. PartWritten(c) /\ c \in AllDies
        BY <2>1, PartIs
    <2>3. ~Entry(c).artificial /\ (IsVirtual(Meant(c)) => Entry(Meant(c)).tag \in AggregateTags)
        BY <2>1, <2>2 DEF PartWritten
    <2> QED BY <2>1, <2>2, <2>3, PartIs
<1> QED BY <1>2, <1>3, <1>4

LEMMA EmptyAgrees ==
    ASSUME debug \in Debugs, Written, NEW left \in 0..MaxDepth, left = 0 \/ EmptiesAgree(left - 1),
           NEW die \in Types
    PROVE  Follows(EmptyWithin[left][die], Fact(die).empty, Near(die, left))
<1> DEFINE entry == Entry(die)
<1> DEFINE empty == Fact(die).empty
<1> DEFINE near == empty /\ Near(die, left)
<1>1. TypeWritten(die) /\ die \in AllDies /\ ~entry.declaration
    BY TypeIs
<1>2. ASSUME NEW c \in AllDies, ReferenceWritten(c), Meant(c) # None => Meant(c) \in MadeOf(die)
      PROVE  Follows(InnerEmpty(left, c), IsEmpty(Meant(c)), near)
    <2>1. near /\ IsEmpty(Meant(c)) => Fact(Meant(c)).steps < left
        <3> SUFFICES ASSUME near, IsEmpty(Meant(c)) PROVE Fact(Meant(c)).steps < left
            OBVIOUS
        <3>1. Meant(c) \in Types /\ Meant(c) # None
            BY <1>2, ReferenceLeads DEF Maybe, IsEmpty
        <3> QED BY <1>2, <3>1, FewerSteps DEF Rests
    <2> HIDE DEF near
    <2> QED BY <1>2, <2>1, InnerEmptyFollows
<1>3. CASE entry.tag \in {"base", "enumeration", "array"} \cup PointerTags
    <2>1. ~empty
        BY <1>1, <1>3 DEF TypeWritten, ScalarWritten, PointerWritten, ArrayWritten, PointerTags, QualifierTags, AggregateTags
    <2>2. entry.tag \notin QualifierTags /\ entry.tag \notin {"structure", "class"}
        BY <1>3 DEF PointerTags, QualifierTags
    <2>3. ~EmptyWithin[left][die]
        BY <1>1, <2>2, EmptyFound
    <2> QED BY <2>1, <2>3 DEF Follows
<1>4. CASE entry.tag \in QualifierTags
    <2>1. ReferenceWritten(die) /\ empty = IsEmpty(Meant(die))
        BY <1>1, <1>4 DEF TypeWritten, QualifierWritten, PointerTags, QualifierTags, AggregateTags
    <2>2. Meant(die) # None => Meant(die) \in MadeOf(die)
        BY <1>4 DEF MadeOf
    <2>3. Follows(InnerEmpty(left, die), IsEmpty(Meant(die)), near)
        <3> HIDE DEF near
        <3> QED BY <1>1, <1>2, <2>1, <2>2
    <2>4. entry.tag \notin {"structure", "class"}
        BY <1>4 DEF QualifierTags
    <2>5. EmptyWithin[left][die] <=> InnerEmpty(left, die)
        BY <1>1, <1>4, <2>4, EmptyFound
    <2> QED BY <2>1, <2>3, <2>5 DEF Follows
<1>5. CASE entry.tag \in AggregateTags
    <2>1. empty = /\ entry.tag # "union" /\ OfTag(Parts(die), {"member"}) = {}
                  /\ \A c \in Bases(die) : ~Entry(c).virtual /\ IsEmpty(Meant(c))
        BY <1>5, PartIs DEF AggregateWritten
    <2>2. \A c \in Bases(die) : Follows(InnerEmpty(left, c), IsEmpty(Meant(c)), near)
        <3> HIDE DEF near
        <3> QED BY <1>2, <1>5, BasesAre
    <2>3. Bases(die) = OfTag(Children(die), {"inheritance"})
        BY <1>5, BasesAre
    <2>4. OfTag(Parts(die), {"member"}) = {} <=> \A c \in OfTag(Children(die), {"member"}) : Entry(c).declaration
        <3>1. OfTag(Parts(die), {"member"}) = {c \in OfTag(Children(die), {"member"}) : ~Entry(c).declaration}
            BY <1>5, BasesAre
        <3> QED BY <3>1
    <2>5. entry.tag \notin QualifierTags /\ (entry.tag # "union" <=> entry.tag \in {"structure", "class"})
        BY <1>5 DEF AggregateTags, QualifierTags
    <2>6. EmptyWithin[left][die] <=>
              /\ entry.tag # "union"
              /\ OfTag(Parts(die), {"member"}) = {}
              /\ \A c \in Bases(die) : ~Entry(c).virtual /\ InnerEmpty(left, c)
        BY <1>1, <2>3, <2>4, <2>5, EmptyFound
    <2>7. EmptyWithin[left][die] => empty
        <3> HIDE DEF near, empty
        <3> QED BY <2>1, <2>2, <2>6 DEF Follows
    <2>8. near => EmptyWithin[left][die]
        <3>1. ASSUME near, NEW c \in Bases(die) PROVE ~Entry(c).virtual /\ InnerEmpty(left, c)
            <4>1. ~Entry(c).virtual /\ IsEmpty(Meant(c))
                BY <2>1, <3>1
            <4> HIDE DEF near
            <4> QED BY <2>2, <3>1, <4>1 DEF Follows
        <3> QED BY <2>1, <2>6, <3>1
    <2> QED BY <2>7, <2>8 DEF Follows
<1>6. entry.tag \in {"base", "enumeration", "array"} \cup PointerTags \/ entry.tag \in QualifierTags
      \/ entry.tag \in AggregateTags
    BY <1>1 DEF TypeWritten
<1> QED BY <1>3, <1>4, <1>5, <1>6

\* Types are found to be empty that are.
LEMMA EmptiesRead ==
    ASSUME debug \in Debugs, Written
    PROVE  \A die \in AllDies : ReferenceWritten(die) => (TypeIsEmpty(die) <=> IsEmpty(Meant(die)))
<1> DEFINE P == {left \in 0..MaxDepth : EmptiesAgree(left)}
<1>1. MaxDepth \in Nat
    BY DepthAndWord
<1>2. 0 \in P
    BY <1>1, EmptyAgrees DEF EmptiesAgree
<1>3. ASSUME NEW left \in 1..MaxDepth, left - 1 \in P PROVE left \in P
    <2>1. EmptiesAgree(left - 1) /\ left \in 0..MaxDepth
        BY <1>1, <1>3
    <2> QED BY <2>1, EmptyAgrees DEF EmptiesAgree
<1>4. MaxDepth \in P
    <2>1. MaxDepth \in 0..MaxDepth
        BY <1>1
    <2> HIDE DEF P
    <2> QED BY <1>1, <1>2, <1>3, <2>1, CountingUp
<1>5. EmptiesAgree(MaxDepth)
    BY <1>4
<1> SUFFICES ASSUME NEW die \in AllDies, ReferenceWritten(die)
             PROVE  TypeIsEmpty(die) <=> IsEmpty(Meant(die))
    OBVIOUS
<1>6. TypeOf(die) = Meant(die) /\ Meant(die) \in Maybe(Types)
    BY ReferenceLeads
<1>7. CASE Meant(die) = None
    BY <1>6, <1>7 DEF TypeIsEmpty, IsEmpty
<1>8. CASE Meant(die) # None
    <2> DEFINE to == Meant(die)
    <2>1. to \in Types
        BY <1>6, <1>8 DEF Maybe
    <2>2. Fact(to).steps \in 0..MaxDepth
        BY <2>1, StepsAreNatural
    <2>3. Near(to, MaxDepth)
        BY <1>1, <2>2 DEF Near
    <2>4. Follows(EmptyWithin[MaxDepth][to], Fact(to).empty, Near(to, MaxDepth))
        BY <1>5, <2>1 DEF EmptiesAgree
    <2>5. EmptyWithin[MaxDepth][to] <=> Fact(to).empty
        BY <2>3, <2>4 DEF Follows
    <2> QED BY <1>6, <1>8, <2>5 DEF TypeIsEmpty, IsEmpty
<1> QED BY <1>7, <1>8

-----------------------------------------------------------------------------
VirtualsAgree(left) ==
    \A die \in Types :
        Follows(VirtualBasesWithin[left][die], Fact(die).virtual,
                Near(die, left) /\ Entry(die).tag \in AggregateTags)

LEMMA VirtualsFound ==
    ASSUME debug \in Debugs, NEW left \in 0..MaxDepth, NEW die \in AllDies
    PROVE  VirtualBasesWithin[left][die] <=>
              \E c \in OfTag(Children(die), {"inheritance"}) :
                  \/ Entry(c).virtual
                  \/ left > 0 /\ TypeOf(c) # None /\ VirtualBasesWithin[left - 1][TypeOf(c)]
BY VirtualBasesWithinIs, Zenon DEF VirtualBasesFrom

LEMMA VirtualAgrees ==
    ASSUME debug \in Debugs, Written, NEW left \in 0..MaxDepth, left = 0 \/ VirtualsAgree(left - 1),
           NEW die \in Types
    PROVE  Follows(VirtualBasesWithin[left][die], Fact(die).virtual,
                   Near(die, left) /\ Entry(die).tag \in AggregateTags)
<1>1. TypeWritten(die) /\ die \in AllDies
    BY TypeIs
<1>2. left \in Nat
    BY DepthAndWord
<1>3. CASE Entry(die).tag \notin AggregateTags
    <2>1. OfTag(Children(die), {"inheritance"}) = {}
        BY <1>1, <1>3 DEF TypeWritten
    <2>2. ~VirtualBasesWithin[left][die]
        BY <1>1, <2>1, VirtualsFound
    <2> QED BY <1>3, <2>2 DEF Follows
<1>4. CASE Entry(die).tag \in AggregateTags
    <2>1. Fact(die).virtual = \E c \in Bases(die) : Entry(c).virtual \/ IsVirtual(Meant(c))
        BY <1>4, PartIs DEF AggregateWritten
    <2>2. Bases(die) = OfTag(Children(die), {"inheritance"})
        BY <1>4, BasesAre
    <2>3. ASSUME NEW c \in Bases(die) PROVE TypeOf(c) = Meant(c) /\ Meant(c) \in Maybe(Types)
        BY <1>4, BasesAre, ReferenceLeads
    <2>4. ASSUME VirtualBasesWithin[left][die] PROVE Fact(die).virtual
        <3>1. PICK c \in Bases(die) :
                  \/ Entry(c).virtual
                  \/ left > 0 /\ TypeOf(c) # None /\ VirtualBasesWithin[left - 1][TypeOf(c)]
            BY <1>1, <2>2, <2>4, VirtualsFound
        <3>2. CASE left > 0 /\ TypeOf(c) # None /\ VirtualBasesWithin[left - 1][TypeOf(c)]
            <4>1. Meant(c) \in Types /\ Meant(c) # None /\ VirtualsAgree(left - 1)
                BY <1>2, <2>3, <3>2 DEF Maybe
            <4>2. Fact(Meant(c)).virtual
                BY <2>3, <3>2, <4>1 DEF VirtualsAgree, Follows
            <4> QED BY <2>1, <4>1, <4>2 DEF IsVirtual
        <3> QED BY <2>1, <3>1, <3>2
    <2>5. ASSUME Fact(die).virtual, Near(die, left) PROVE VirtualBasesWithin[left][die]
        <3>1. PICK c \in Bases(die) : Entry(c).virtual \/ IsVirtual(Meant(c))
            BY <2>1, <2>5
        <3>2. CASE IsVirtual(Meant(c))
            <4>1. /\ Meant(c) # None /\ Fact(Meant(c)).virtual /\ Meant(c) \in Types
                  /\ Entry(Meant(c)).tag \in AggregateTags /\ Meant(c) \in MadeOf(die)
                BY <1>4, <2>3, <3>2, BasesAre DEF IsVirtual, Maybe
            <4>2. Fact(Meant(c)).steps < left
                BY <2>5, <4>1, FewerSteps DEF Rests
            <4>3. Fact(Meant(c)).steps \in Nat
                BY <4>1, StepsAreNatural, DepthAndWord
            <4>4. left > 0 /\ left # 0 /\ Near(Meant(c), left - 1)
                BY <1>2, <4>2, <4>3 DEF Near
            <4>5. VirtualBasesWithin[left - 1][Meant(c)]
                BY <4>1, <4>4 DEF VirtualsAgree, Follows
            <4>6. TypeOf(c) # None /\ VirtualBasesWithin[left - 1][TypeOf(c)]
                BY <2>3, <4>1, <4>5
            <4> QED BY <1>1, <2>2, <4>4, <4>6, VirtualsFound
        <3>3. CASE Entry(c).virtual
            BY <1>1, <2>2, <3>3, VirtualsFound
        <3> QED BY <3>1, <3>2, <3>3
    <2> QED BY <2>4, <2>5 DEF Follows
<1> QED BY <1>3, <1>4

\* Aggregates are found to have virtual bases, at any distance, that have.
LEMMA VirtualsRead ==
    ASSUME debug \in Debugs, Written, NEW die \in Types, Entry(die).tag \in AggregateTags
    PROVE  HasVirtualBases(die) <=> Fact(die).virtual
<1> DEFINE P == {left \in 0..MaxDepth : VirtualsAgree(left)}
<1>1. MaxDepth \in Nat
    BY DepthAndWord
<1>2. 0 \in P
    BY <1>1, VirtualAgrees DEF VirtualsAgree
<1>3. ASSUME NEW left \in 1..MaxDepth, left - 1 \in P PROVE left \in P
    <2>1. VirtualsAgree(left - 1) /\ left \in 0..MaxDepth
        BY <1>1, <1>3
    <2> QED BY <2>1, VirtualAgrees DEF VirtualsAgree
<1>4. MaxDepth \in P
    <2>1. MaxDepth \in 0..MaxDepth
        BY <1>1
    <2> HIDE DEF P
    <2> QED BY <1>1, <1>2, <1>3, <2>1, CountingUp
<1>5. Near(die, MaxDepth)
    <2>1. Fact(die).steps \in 0..MaxDepth
        BY StepsAreNatural
    <2> QED BY <1>1, <2>1 DEF Near
<1> QED BY <1>4, <1>5 DEF VirtualsAgree, Follows, HasVirtualBases

-----------------------------------------------------------------------------
(* Members, bases and bit-fields that are written.                         *)
Read(c) == IF Entry(c).tag = "member" THEN Member(c) ELSE Base(c)

\* Numbers of bits that fit do not wrap around.
LEMMA BitsFit ==
    ASSUME NEW n \in Nat, 8 * n < Word
    PROVE  Bits(n) = 8 * n
<1>1. 8 * n \in 0..(Word - 1) /\ n * 8 = 8 * n
    BY DepthAndWord
<1> QED BY <1>1, DepthAndWord DEF Bits, Wrap

LEMMA BitfieldRead ==
    ASSUME debug \in Debugs, Written, NEW c \in AllDies, ReferenceWritten(c),
           NEW real, real.offset \in Maybe(0..(Word - 1)), real.size \in 0..(Word - 1),
           Entry(c).bitSize = real.size, BitsWritten(c, real)
    PROVE  BitOffset(c) = real.offset
<1> DEFINE entry == Entry(c)
<1> DEFINE at0 == Or(entry.location, 0)
<1> DEFINE skip == Or(entry.bitOffset, 0)
<1> DEFINE stored == Storage(c)
<1> DEFINE start == 8 * at0
<1> DEFINE end == start + 8 * stored
<1>1. CASE entry.dataBitOffset # None /\ entry.dataBitOffset = real.offset
    BY <1>1 DEF BitOffset
<1>2. CASE /\ entry.dataBitOffset = None /\ real.offset # None
           /\ end < Word /\ start + skip + real.size <= end
           /\ IF debug.endian = "big" THEN real.offset = start + skip
              ELSE real.offset + real.size + skip = end
    <2>1. /\ entry.location \in Maybe(0..(Word - 1)) /\ entry.bitOffset \in Maybe(0..(Word - 1))
          /\ entry.byteSize \in Maybe(0..(Word - 1))
        BY EntryNumbers DEF Numbers
    <2>2. SizeOf(Meant(c)) \in Maybe(0..(Word - 1)) /\ TypeSize(c) = SizeOf(Meant(c))
        BY SizesRead
    <2>3. Word \in Nat /\ Word # 0
        BY DepthAndWord
    <2>4. at0 \in Nat /\ skip \in Nat
        BY <2>1, <2>3 DEF Or, Maybe
    <2>5. stored \in Nat
        BY <2>1, <2>2, <2>3 DEF Storage, Or, Maybe
    <2>6. real.offset \in Nat /\ real.size \in Nat
        BY <1>2, <2>3 DEF Maybe
    <2>7. Or(Or(entry.byteSize, TypeSize(c)), 0) = stored
        BY <2>2 DEF Storage, Or
    <2>8. BitOffset(c) = LET last == Wrap(Bits(at0) + Bits(stored))
                         IN  IF debug.endian = "big" THEN Wrap(Bits(at0) + skip)
                             ELSE IF last < Wrap(skip + real.size) THEN 0 ELSE last - Wrap(skip + real.size)
        BY <1>2, <2>7 DEF BitOffset
    <2> HIDE DEF at0, skip, stored, entry
    <2>9. Bits(at0) = 8 * at0 /\ Bits(stored) = 8 * stored
        <3>1. 8 * at0 < Word /\ 8 * stored < Word
            BY <1>2, <2>3, <2>4, <2>5
        <3> QED BY <2>4, <2>5, <3>1, BitsFit
    <2>10. \A n \in Nat : n < Word => Wrap(n) = n
        BY <2>3 DEF Wrap
    <2>11. start \in Nat /\ end \in Nat /\ start + skip \in Nat /\ skip + real.size \in Nat
           /\ start + skip < Word /\ skip + real.size < Word /\ skip + real.size <= end
        BY <1>2, <2>3, <2>4, <2>5, <2>6
    <2>12. Wrap(end) = end /\ Wrap(start + skip) = start + skip /\ Wrap(skip + real.size) = skip + real.size
        <3> HIDE DEF start, end
        <3> QED BY <1>2, <2>10, <2>11
    <2>13. BitOffset(c) = IF debug.endian = "big" THEN start + skip
                          ELSE IF end < skip + real.size THEN 0 ELSE end - (skip + real.size)
        BY <2>8, <2>9, <2>12
    <2> HIDE DEF start, end
    <2> QED BY <1>2, <2>4, <2>6, <2>11, <2>13
<1>3. \/ entry.dataBitOffset # None /\ entry.dataBitOffset = real.offset
      \/ /\ entry.dataBitOffset = None /\ real.offset # None
         /\ end < Word /\ start + skip + real.size <= end
         /\ IF debug.endian = "big" THEN real.offset = start + skip
            ELSE real.offset + real.size + skip = end
    BY Zenon DEF BitsWritten
<1> QED BY <1>1, <1>2, <1>3

Same(e, real) ==
    /\ e.at = real.at /\ e.offset = real.offset /\ e.size = real.size
    /\ (e.what = "bitfield") = real.bitfield
    /\ e.what = "field" => e.align = real.align /\ e.empty = real.empty

\* What is answered of a member or base is what its compiler knew.
LEMMA PartRead ==
    ASSUME debug \in Debugs, Written, NEW die \in Types, Entry(die).tag \in AggregateTags,
           NEW c \in Parts(die), NEW real, real.at = c[2],
           real.offset \in Maybe(0..(Word - 1)), real.size \in 0..(Word - 1), real.bitfield \in BOOLEAN,
           PlacedAt(c, real)
    PROVE  Same(Read(c), real)
<1> DEFINE entry == Entry(c)
<1>1. /\ c \in AllDies /\ PartWritten(c) /\ entry.tag \in {"member", "inheritance"}
      /\ ~entry.artificial => ReferenceWritten(c)
    BY PartIs
<1>2. Word \in Nat /\ None \notin Nat
    BY DepthAndWord, ReaderAssumption
<1>3. entry.location \in Maybe(0..(Word - 1)) /\ Or(entry.location, 0) \in Nat
      /\ debug.addressSize \in Nat
    BY <1>1, <1>2, EntryNumbers DEF Numbers, Or, Maybe
<1>4. CASE /\ entry.artificial /\ ~real.bitfield
           /\ real.offset = 8 * Or(entry.location, 0) /\ real.size = 8 * debug.addressSize
    <2>1. entry.tag = "member" /\ entry.name = "_vptr"
        BY <1>1, <1>4 DEF PartWritten
    <2> DEFINE n == Or(entry.location, 0)
    <2> DEFINE m == debug.addressSize
    <2>2. n \in Nat /\ m \in Nat /\ real.offset = 8 * n /\ real.size = 8 * m
        BY <1>3, <1>4
    <2> HIDE DEF n, m
    <2>3. 8 * n < Word /\ 8 * m < Word
        <3>1. 8 * n \in Nat
            BY <2>2
        <3>2. real.offset \in 0..(Word - 1)
            BY <1>2, <2>2, <3>1 DEF Maybe
        <3> QED BY <1>2, <2>2, <3>2
    <2>4. Bits(n) = real.offset /\ Bits(m) = real.size
        BY <2>2, <2>3, BitsFit
    <2>5. Read(c) = [what |-> "vptr", at |-> c[2], offset |-> Bits(n), size |-> Bits(m)]
        BY <1>4, <2>1 DEF Read, Member, n, m
    <2> QED BY <1>4, <2>4, <2>5 DEF Same
<1>5. CASE /\ ~entry.artificial /\ ~real.bitfield /\ entry.bitSize = None
           /\ real.offset = IF entry.tag = "inheritance" /\ entry.location = None THEN None
                            ELSE 8 * Or(entry.location, 0)
           /\ real.size = 8 * Or(SizeOf(Meant(c)), 0)
           /\ entry.tag = "member" => real.align = AlignOf(Meant(c)) /\ real.empty = IsEmpty(Meant(c))
    <2> DEFINE n == Or(entry.location, 0)
    <2> DEFINE m == Or(SizeOf(Meant(c)), 0)
    <2>1. TypeSize(c) = SizeOf(Meant(c)) /\ SizeOf(Meant(c)) \in Maybe(0..(Word - 1))
        BY <1>1, <1>5, SizesRead
    <2>2. n \in Nat /\ m \in Nat /\ real.size = 8 * m
        BY <1>2, <1>3, <1>5, <2>1 DEF Or, Maybe
    <2>3. Bits(m) = real.size
        <3> HIDE DEF m
        <3>1. 8 * m < Word
            BY <1>2, <2>2
        <3> QED BY <2>2, <3>1, BitsFit
    <2>4. ~(entry.tag = "inheritance" /\ entry.location = None) => Bits(n) = real.offset
        <3> SUFFICES ASSUME ~(entry.tag = "inheritance" /\ entry.location = None) PROVE Bits(n) = real.offset
            OBVIOUS
        <3>1. real.offset = 8 * n
            BY <1>5
        <3> HIDE DEF n
        <3>2. 8 * n \in Nat
            BY <2>2
        <3>3. real.offset \in 0..(Word - 1)
            BY <1>2, <3>1, <3>2 DEF Maybe
        <3>4. 8 * n < Word
            BY <1>2, <3>1, <3>3
        <3> QED BY <2>2, <3>1, <3>4, BitsFit
    <2>5. CASE entry.tag = "member"
        <3>1. Read(c) = [what |-> "field", at |-> c[2], offset |-> Bits(n), size |-> Bits(m),
                         align |-> TypeAlign(c), empty |-> TypeIsEmpty(c)]
            BY <1>5, <2>1, <2>5 DEF Read, Member
        <3>2. TypeAlign(c) = AlignOf(Meant(c)) /\ (TypeIsEmpty(c) <=> IsEmpty(Meant(c)))
            BY <1>1, <1>5, AlignsRead, EmptiesRead
        <3>3. TypeIsEmpty(c) = IsEmpty(Meant(c))
            BY <3>2 DEF TypeIsEmpty, IsEmpty
        <3>4. real.align = TypeAlign(c) /\ real.empty = TypeIsEmpty(c)
            BY <1>5, <2>5, <3>2, <3>3
        <3>5. Bits(n) = real.offset
            <4>1. ~(entry.tag = "inheritance" /\ entry.location = None)
                BY <2>5
            <4> HIDE DEF n
            <4> QED BY <2>4, <4>1
        <3> HIDE DEF n, m
        <3>6. Read(c).at = c[2] /\ Read(c).offset = Bits(n) /\ Read(c).size = Bits(m) /\ Read(c).what = "field"
              /\ Read(c).align = TypeAlign(c) /\ Read(c).empty = TypeIsEmpty(c)
            BY <3>1
        <3> QED BY <1>5, <2>3, <3>4, <3>5, <3>6 DEF Same
    <2>6. CASE entry.tag = "inheritance"
        <3>1. Read(c) = [what |-> "base", at |-> c[2],
                         offset |-> IF entry.location = None THEN None ELSE Bits(entry.location),
                         size |-> Bits(m), virtual |-> entry.virtual]
            BY <1>5, <2>1, <2>6 DEF Read, Base
        <3>2. entry.location # None => n = entry.location
            BY DEF Or
        <3>3. (IF entry.location = None THEN None ELSE Bits(entry.location)) = real.offset
            BY <1>5, <2>4, <2>6, <3>2
        <3> HIDE DEF n, m
        <3>4. Read(c).at = c[2] /\ Read(c).size = Bits(m) /\ Read(c).what = "base"
              /\ Read(c).offset = IF entry.location = None THEN None ELSE Bits(entry.location)
            BY <3>1
        <3>5. Read(c).offset = real.offset
            BY <3>3, <3>4, Zenon
        <3> QED BY <1>5, <2>3, <3>4, <3>5 DEF Same
    <2> QED BY <1>1, <2>5, <2>6
<1>6. CASE /\ ~entry.artificial /\ real.bitfield /\ entry.tag = "member"
           /\ entry.bitSize # None /\ entry.bitSize = real.size /\ BitsWritten(c, real)
    <2>1. Read(c) = [what |-> "bitfield", at |-> c[2], offset |-> BitOffset(c), size |-> entry.bitSize]
        BY <1>6 DEF Read, Member
    <2>2. BitOffset(c) = real.offset
        BY <1>1, <1>6, BitfieldRead
    <2>3. Read(c).at = c[2] /\ Read(c).offset = BitOffset(c) /\ Read(c).size = entry.bitSize
          /\ Read(c).what = "bitfield"
        BY <2>1
    <2> QED BY <1>6, <2>2, <2>3 DEF Same
<1> QED BY <1>4, <1>5, <1>6 DEF PlacedAt

-----------------------------------------------------------------------------
(* Layouts and variables that are written.                                 *)

\* A definition's layout reads back what is known of it.
LEMMA LayoutRead ==
    ASSUME debug \in Debugs, Written, NEW d, <<d.unit, d.at>> \in DOMAIN debug.truth
    PROVE  LET l    == Layout(d)
               real == debug.truth[<<d.unit, d.at>>]
           IN  /\ {<<e.at, e.offset, e.size, e.what = "bitfield">> : e \in l.entries}
                    = {<<e.at, e.offset, e.size, e.bitfield>> : e \in real.entries}
               /\ l.virtualBases = real.virtualBases
               /\ \A e \in l.entries : \A r \in real.entries :
                     e.what = "field" /\ e.at = r.at => e.align = r.align /\ e.empty = r.empty
<1> DEFINE die == <<d.unit, d.at>>
<1> DEFINE l == Layout(d)
<1> DEFINE truth == debug.truth[die]
<1>1. /\ die \in Types /\ Entry(die).tag \in AggregateTags
      /\ truth.virtualBases = Fact(die).virtual
      /\ {r.at : r \in truth.entries} = {c[2] : c \in Parts(die)}
      /\ \A r \in truth.entries :
            /\ r.offset \in Maybe(0..(Word - 1)) /\ r.size \in 0..(Word - 1) /\ r.bitfield \in BOOLEAN
            /\ PlacedAt(<<die[1], r.at>>, r)
    <2>1. LayoutWritten(die)
        BY DEF Written
    <2> QED BY <2>1, Zenon DEF LayoutWritten
<1> HIDE DEF die
<1>2. /\ AggregateWritten(die) /\ die \in AllDies
      /\ \A c \in Parts(die) : c = <<die[1], c[2]>> /\ Entry(c).tag \in {"member", "inheritance"}
    BY <1>1, PartIs
<1>3. l.virtualBases = truth.virtualBases
    <2>1. l.virtualBases = HasVirtualBases(die)
        BY Zenon DEF Layout, die
    <2>2. HasVirtualBases(die) <=> Fact(die).virtual
        BY <1>1, VirtualsRead
    <2>3. Fact(die).virtual \in BOOLEAN
        BY <1>2 DEF AggregateWritten
    <2>4. HasVirtualBases(die) \in BOOLEAN
        <3>1. VirtualBasesWithin[MaxDepth] \in Flags
            <4>1. MaxDepth \in 0..MaxDepth
                BY DepthAndWord
            <4> QED BY <4>1, VirtualBasesWithinIs
        <3> QED BY <1>2, <3>1 DEF HasVirtualBases, Flags
    <2>5. HasVirtualBases(die) = Fact(die).virtual
        BY <2>2, <2>3, <2>4
    <2> QED BY <1>1, <2>1, <2>5
<1>4. l.entries = {Read(c) : c \in Parts(die)}
    <2> DEFINE members == {c \in OfTag(Children(die), {"member"}) : ~IsStatic(Entry(c))}
    <2> DEFINE bases == OfTag(Children(die), {"inheritance"})
    <2>1. l.entries = {Member(c) : c \in members} \cup {Base(c) : c \in bases}
        BY Zenon DEF Layout, die
    <2>2. members = OfTag(Parts(die), {"member"})
        <3>1. \A c \in OfTag(Children(die), {"member"}) : Entry(c).declaration => IsStatic(Entry(c))
            BY <1>2 DEF AggregateWritten
        <3>2. \A c \in OfTag(Children(die), {"member"}) : IsStatic(Entry(c)) => Entry(c).declaration
            BY DEF IsStatic
        <3>3. OfTag(Parts(die), {"member"}) = {c \in OfTag(Children(die), {"member"}) : ~Entry(c).declaration}
            BY <1>1, BasesAre
        <3> QED BY <3>1, <3>2, <3>3
    <2>3. bases = OfTag(Parts(die), {"inheritance"})
        BY <1>1, BasesAre DEF Bases
    <2>4. \A c \in Parts(die) :
              \/ c \in members /\ Read(c) = Member(c)
              \/ c \in bases /\ Read(c) = Base(c)
        <3> HIDE DEF members, bases
        <3> QED BY <1>2, <2>2, <2>3 DEF OfTag, Read
    <2>5. /\ \A c \in members : c \in Parts(die) /\ Read(c) = Member(c)
          /\ \A c \in bases : c \in Parts(die) /\ Read(c) = Base(c)
        <3> HIDE DEF members, bases
        <3> QED BY <2>2, <2>3 DEF OfTag, Read
    <2> HIDE DEF members, bases, l
    <2> QED BY <2>1, <2>4, <2>5
<1>5. ASSUME NEW r \in truth.entries, NEW c \in Parts(die), r.at = c[2] PROVE Same(Read(c), r)
    <2>1. c = <<die[1], r.at>>
        BY <1>2, <1>5
    <2>2. PlacedAt(c, r) /\ r.offset \in Maybe(0..(Word - 1)) /\ r.size \in 0..(Word - 1) /\ r.bitfield \in BOOLEAN
        <3> HIDE DEF truth
        <3> QED BY <1>1, <1>5, <2>1
    <2> QED BY <1>1, <1>5, <2>2, PartRead
<1>6. \A c \in Parts(die) : Read(c).at = c[2]
    BY DEF Read, Member, Base
<1>7. \A c \in Parts(die) : \E r \in truth.entries : r.at = c[2]
    <2> HIDE DEF truth
    <2> QED BY <1>1
<1>8. \A r \in truth.entries : \E c \in Parts(die) : r.at = c[2]
    <2> HIDE DEF truth
    <2> QED BY <1>1
<1> DEFINE told(e) == <<e.at, e.offset, e.size, e.what = "bitfield">>
<1> DEFINE known(r) == <<r.at, r.offset, r.size, r.bitfield>>
<1>9. \A e, r : Same(e, r) => told(e) = known(r)
    BY DEF Same
<1>10. {told(e) : e \in l.entries} = {known(r) : r \in truth.entries}
    <2>1. \A e \in l.entries : \E r \in truth.entries : told(e) = known(r)
        <3> HIDE DEF truth, l, told, known
        <3> QED BY <1>4, <1>5, <1>7, <1>9
    <2>2. \A r \in truth.entries : \E e \in l.entries : told(e) = known(r)
        <3> HIDE DEF truth, l, told, known
        <3> QED BY <1>4, <1>5, <1>8, <1>9
    <2> HIDE DEF truth, l, told, known
    <2> QED BY <2>1, <2>2
<1>11. \A e \in l.entries : \A r \in truth.entries :
           e.what = "field" /\ e.at = r.at => e.align = r.align /\ e.empty = r.empty
    <2> SUFFICES ASSUME NEW c \in Parts(die), NEW r \in truth.entries,
                        Read(c).what = "field", Read(c).at = r.at
                 PROVE  Read(c).align = r.align /\ Read(c).empty = r.empty
        <3> HIDE DEF truth, l
        <3> QED BY <1>4
    <2>1. Same(Read(c), r)
        <3> HIDE DEF truth
        <3> QED BY <1>5, <1>6
    <2> QED BY <2>1 DEF Same
<1> QED BY <1>3, <1>10, <1>11, Zenon DEF die

\* A variable is found if it is placed and its type's size is known.
LEMMA VariablesRead ==
    ASSUME debug \in Debugs, Written
    PROVE  {<<v.die, v.size>> : v \in Variables} = debug.truthOfVariables
<1> DEFINE variables == OfTag(AllDies, {"variable"})
<1> DEFINE placed == {die \in variables : ~Entry(die).declaration /\ Entry(die).address \notin {None, 0}}
<1> DEFINE sized == {die \in placed : SizeOf(Meant(die)) # None}
<1>1. /\ \A die \in variables : ReferenceWritten(die)
      /\ placed # {} => debug.addressSize \in {4, 8}
      /\ debug.truthOfVariables = {<<die, SizeOf(Meant(die))>> : die \in sized}
    BY Zenon DEF Written, VariablesWritten
<1>2. \A die \in variables : TypeSize(die) = SizeOf(Meant(die))
    <2>1. \A die \in variables : die \in AllDies
        BY DEF OfTag
    <2> HIDE DEF variables
    <2> QED BY <1>1, <2>1, SizesRead
<1>3. UNION {SizedVariables(u) : u \in DOMAIN debug.units} = sized
    <2>1. ASSUME NEW die \in sized PROVE \E u \in DOMAIN debug.units : die \in SizedVariables(u)
        <3>1. die \in variables /\ die \in placed
            OBVIOUS
        <3>2. PICK u \in DOMAIN debug.units : die \in Dies(u)
            BY DEF OfTag, AllDies
        <3>3. TypeSize(die) # None
            <4> HIDE DEF variables
            <4> QED BY <1>2
        <3>4. debug.addressSize \in {4, 8}
            <4> HIDE DEF placed
            <4> QED BY <1>1, <3>1
        <3>5. die \in SizedVariables(u)
            BY <3>2, <3>3, <3>4 DEF SizedVariables, OfTag
        <3> QED BY <3>5
    <2>2. ASSUME NEW u \in DOMAIN debug.units, NEW die \in SizedVariables(u) PROVE die \in sized
        <3>1. die \in variables /\ die \in placed
            BY DEF SizedVariables, OfTag, AllDies
        <3>2. TypeSize(die) # None
            BY DEF SizedVariables
        <3>3. SizeOf(Meant(die)) # None
            <4> HIDE DEF variables
            <4> QED BY <1>2, <3>1, <3>2
        <3> HIDE DEF placed
        <3> QED BY <3>1, <3>3
    <2> HIDE DEF sized
    <2> QED BY <2>1, <2>2
<1>4. Variables = {[die |-> die, address |-> Entry(die).address, size |-> TypeSize(die)] : die \in sized}
    <2> HIDE DEF sized
    <2> QED BY <1>3 DEF Variables
<1>5. \A die \in sized : TypeSize(die) = SizeOf(Meant(die))
    <2>1. \A die \in sized : die \in variables
        OBVIOUS
    <2> HIDE DEF variables, sized
    <2> QED BY <1>2, <2>1
<1> HIDE DEF sized
<1>6. {<<v.die, v.size>> : v \in Variables} = {<<die, TypeSize(die)>> : die \in sized}
    <2> DEFINE variable(die) == [die |-> die, address |-> Entry(die).address, size |-> TypeSize(die)]
    <2>1. \A die : variable(die).die = die /\ variable(die).size = TypeSize(die)
        OBVIOUS
    <2>2. Variables = {variable(die) : die \in sized}
        BY <1>4
    <2> HIDE DEF variable
    <2> QED BY <2>1, <2>2
<1> QED BY <1>1, <1>5, <1>6

\* What is live of a function is what the linker kept of it.
LEMMA LiveIsKept ==
    ASSUME debug \in Debugs, Written,
           NEW die \in AllDies, Entry(die).tag = "subprogram", ~Entry(die).declaration
    PROVE  /\ die \in DOMAIN debug.truthOfFunctions
           /\ {Entry(die).ranges[k] : k \in LiveRanges(die)} = Code(die)
<1> DEFINE pieces == debug.truthOfFunctions[die]
<1> DEFINE ranges == Entry(die).ranges
<1> DEFINE kept == {k \in DOMAIN pieces : pieces[k].kept}
<1>1. die \in {d \in OfTag(AllDies, {"subprogram"}) : ~Entry(d).declaration}
    BY DEF OfTag
<1>2. /\ die \in DOMAIN debug.truthOfFunctions /\ DOMAIN pieces = DOMAIN ranges
      /\ \A k \in DOMAIN pieces :
            pieces[k].kept \in BOOLEAN /\ pieces[k].size \in Nat /\ PieceWritten(pieces[k], ranges[k])
    BY <1>1, Zenon DEF Written, FunctionsWritten
<1>3. \A k \in DOMAIN ranges : ranges[k][1] \in 0..(Word - 1) /\ ranges[k][2] \in 0..(Word - 1)
    BY EntryNumbers
<1>4. ASSUME NEW k \in DOMAIN ranges
      PROVE  /\ Live(ranges[k]) <=> pieces[k].kept
             /\ pieces[k].kept => ranges[k] = <<pieces[k].start, pieces[k].start + pieces[k].size>>
    <2> DEFINE range == ranges[k]
    <2> DEFINE piece == pieces[k]
    <2>1. /\ range[1] \in 0..(Word - 1) /\ range[2] \in 0..(Word - 1)
          /\ piece.kept \in BOOLEAN /\ piece.size \in Nat /\ PieceWritten(piece, range)
        BY <1>2, <1>3
    <2> HIDE DEF range, piece
    <2>2. CASE piece.kept
        <3>1. /\ range = <<piece.start, piece.start + piece.size>> /\ piece.size > 0
              /\ piece.start \in 1..(Word - 3)
            BY <2>1, <2>2 DEF PieceWritten
        <3>2. range[1] = piece.start /\ range[2] = piece.start + piece.size
            BY <3>1
        <3>3. Live(range)
            BY <2>1, <3>1, <3>2, DepthAndWord DEF Live
        <3> QED BY <2>2, <3>1, <3>3 DEF range, piece
    <2>3. CASE ~piece.kept
        <3>1. range[1] \in {0, Word - 2, Word - 1} \/ range[2] <= range[1]
            BY <2>1, <2>3 DEF PieceWritten
        <3>2. ~Live(range)
            BY <2>1, <3>1, DepthAndWord DEF Live
        <3> QED BY <2>3, <3>2 DEF range, piece
    <2> QED BY <2>2, <2>3
<1>5. LiveRanges(die) = {k \in DOMAIN ranges : Live(ranges[k])}
    BY DEF LiveRanges
<1>6. Code(die) = {<<pieces[k].start, pieces[k].start + pieces[k].size>> : k \in kept}
    BY DEF Code
<1> HIDE DEF pieces, ranges
<1>7. LiveRanges(die) = kept
    BY <1>2, <1>4, <1>5
<1>8. \A k \in kept : ranges[k] = <<pieces[k].start, pieces[k].start + pieces[k].size>>
    BY <1>2, <1>4
<1>9. {ranges[k] : k \in LiveRanges(die)} = Code(die)
    <2> HIDE DEF kept
    <2> QED BY <1>6, <1>7, <1>8
<1> QED BY <1>2, <1>9 DEF ranges

\* The functions of a unit are those that have code in the image, with that code.
LEMMA FunctionsRead ==
    ASSUME debug \in Debugs, Written, NEW u \in DOMAIN debug.units
    PROVE  {<<f.die, {f.ranges[k] : k \in DOMAIN f.ranges}>> : f \in Functions(u)}
             = {<<die, Code(die)>> : die \in {d \in DOMAIN debug.truthOfFunctions : d[1] = u /\ Code(d) # {}}}
<1> DEFINE functions == {die \in OfTag(Dies(u), {"subprogram"}) : ~Entry(die).declaration /\ LiveRanges(die) # {}}
<1> DEFINE truth == {d \in DOMAIN debug.truthOfFunctions : d[1] = u /\ Code(d) # {}}
<1> DEFINE kept(die) == Kept(Entry(die).ranges, LiveRanges(die))
<1> DEFINE function(die) == [die |-> die, ranges |-> kept(die)]
<1>1. DOMAIN debug.truthOfFunctions = {die \in OfTag(AllDies, {"subprogram"}) : ~Entry(die).declaration}
    BY Zenon DEF Written, FunctionsWritten
<1>2. \A die \in OfTag(AllDies, {"subprogram"}) :
          die \in AllDies /\ Entry(die).tag = "subprogram"
    BY DEF OfTag
<1>3. ASSUME NEW die \in AllDies, Entry(die).tag = "subprogram", ~Entry(die).declaration
      PROVE  /\ LiveRanges(die) # {} <=> Code(die) # {}
             /\ {kept(die)[k] : k \in DOMAIN kept(die)} = Code(die)
    BY <1>3, LiveIsKept, KeptRanges
<1>4. \A die : die \in Dies(u) <=> die \in AllDies /\ die[1] = u
    BY EntryNumbers DEF AllDies, Dies
<1>5. functions = truth
    <2>1. ASSUME NEW die \in functions PROVE die \in truth
        <3>1. die \in AllDies /\ die[1] = u /\ Entry(die).tag = "subprogram" /\ ~Entry(die).declaration
              /\ LiveRanges(die) # {}
            BY <1>4 DEF OfTag
        <3>2. die \in DOMAIN debug.truthOfFunctions
            BY <3>1, LiveIsKept
        <3> QED BY <1>3, <3>1, <3>2
    <2>2. ASSUME NEW die \in truth PROVE die \in functions
        <3>1. die \in AllDies /\ die[1] = u /\ Entry(die).tag = "subprogram" /\ ~Entry(die).declaration
              /\ Code(die) # {}
            BY <1>1, <1>2
        <3>2. LiveRanges(die) # {}
            BY <1>3, <3>1
        <3> QED BY <1>4, <3>1, <3>2 DEF OfTag
    <2> HIDE DEF functions, truth
    <2> QED BY <2>1, <2>2
<1>6. \A die \in functions : {kept(die)[k] : k \in DOMAIN kept(die)} = Code(die)
    <2> SUFFICES ASSUME NEW die \in functions
                 PROVE  {kept(die)[k] : k \in DOMAIN kept(die)} = Code(die)
        OBVIOUS
    <2>1. die \in AllDies /\ Entry(die).tag = "subprogram" /\ ~Entry(die).declaration
        BY <1>4 DEF OfTag
    <2> QED BY <1>3, <2>1
<1>7. Functions(u) = {function(die) : die \in functions}
    BY DEF Functions
<1>8. \A die : function(die).die = die /\ function(die).ranges = kept(die)
    OBVIOUS
<1> HIDE DEF functions, truth, kept, function
<1>9. {<<f.die, {f.ranges[k] : k \in DOMAIN f.ranges}>> : f \in Functions(u)}
        = {<<die, Code(die)>> : die \in functions}
    BY <1>6, <1>7, <1>8
<1> QED BY <1>5, <1>9 DEF truth

-----------------------------------------------------------------------------
(* Units do not change, nor how they are written.                          *)
LEMMA DebugKept == [Next]_vars => debug' = debug
BY DEF Next, Index, IndexStep, Pop, Visit, NextUnit, Indexed, WalkFails, FindTypes, FindFunctions, FindVariables,
       Answer, Answered, vars, indexVars

LEMMA SameDies ==
    ASSUME debug' = debug
    PROVE  /\ AllDies' = AllDies /\ \A die : Entry(die)' = Entry(die)
           /\ \A die : Readable(die)' = Readable(die)
           /\ \A die : Children(die)' = Children(die)
<1>1. \A u : Entries(u)' = Entries(u)
    BY SameEntries
<1>2. \A die : Entry(die)' = Entry(die)
    BY <1>1 DEF Entry
<1>3. AllDies' = AllDies
    BY <1>1 DEF AllDies, Dies
<1>4. \A die : Readable(die)' = Readable(die)
    BY <1>3 DEF Readable
<1>5. \A die : Children(die)' = Children(die)
    BY <1>1, <1>2 DEF Children
<1> QED BY <1>2, <1>3, <1>4, <1>5

LEMMA SameFacts ==
    ASSUME debug' = debug
    PROVE  /\ Types' = Types /\ \A die : Fact(die)' = Fact(die) /\ Meant(die)' = Meant(die)
           /\ \A die : ReferenceWritten(die)' = ReferenceWritten(die)
           /\ \A die : Parts(die)' = Parts(die) /\ Bases(die)' = Bases(die)
           /\ \A die : MadeOf(die)' = MadeOf(die)
           /\ \A die, tags : OfTag(Children(die), tags)' = OfTag(Children(die), tags)
           /\ \A die, tags : OfTag(Parts(die), tags)' = OfTag(Parts(die), tags)
<1>1. AllDies' = AllDies /\ \A die : Entry(die)' = Entry(die) /\ Readable(die)' = Readable(die)
                                     /\ Children(die)' = Children(die)
    BY SameDies
<1>2. Types' = Types /\ \A die : Fact(die)' = Fact(die) /\ Meant(die)' = Meant(die)
    BY <1>1 DEF Types, Fact, Meant
<1>3. \A signature, die : SignedAs(signature, die)' = SignedAs(signature, die)
    BY DEF SignedAs
<1>4. \A die : ReferenceWritten(die)' = ReferenceWritten(die)
    BY <1>1, <1>2, <1>3 DEF ReferenceWritten
<1>5. \A die, tags : OfTag(Children(die), tags)' = OfTag(Children(die), tags)
    BY <1>1 DEF OfTag
<1>6. \A die : Parts(die)' = Parts(die)
    BY <1>1, <1>5 DEF Parts
<1>7. \A die, tags : OfTag(Parts(die), tags)' = OfTag(Parts(die), tags)
    BY <1>1, <1>6 DEF OfTag
<1>8. \A die : Bases(die)' = Bases(die)
    BY <1>7 DEF Bases
<1>9. \A die : MadeOf(die)' = MadeOf(die)
    BY <1>1, <1>2, <1>6 DEF MadeOf
<1> QED BY <1>2, <1>4, <1>5, <1>6, <1>7, <1>8, <1>9

LEMMA SameTypes ==
    ASSUME debug' = debug
    PROVE  \A die : TypeWritten(die)' = TypeWritten(die)
<1>1. AllDies' = AllDies /\ \A die : Entry(die)' = Entry(die) /\ Readable(die)' = Readable(die)
                                     /\ Children(die)' = Children(die)
    BY SameDies
<1>2. /\ \A die : Fact(die)' = Fact(die) /\ Meant(die)' = Meant(die) /\ MadeOf(die)' = MadeOf(die)
      /\ \A die : ReferenceWritten(die)' = ReferenceWritten(die)
      /\ \A die : Parts(die)' = Parts(die) /\ Bases(die)' = Bases(die)
      /\ \A die, tags : OfTag(Children(die), tags)' = OfTag(Children(die), tags)
      /\ \A die, tags : OfTag(Parts(die), tags)' = OfTag(Parts(die), tags)
    BY SameFacts
<1>3. /\ \A to : SizeOf(to)' = SizeOf(to) /\ AlignOf(to)' = AlignOf(to)
      /\ \A to : IsEmpty(to)' = IsEmpty(to) /\ IsVirtual(to)' = IsVirtual(to)
    BY <1>2 DEF SizeOf, AlignOf, IsEmpty, IsVirtual
<1>4. \A die : ScalarWritten(die)' = ScalarWritten(die) /\ PointerWritten(die)' = PointerWritten(die)
    BY <1>1, <1>2 DEF ScalarWritten, PointerWritten
<1>5. \A die : QualifierWritten(die)' = QualifierWritten(die)
    BY <1>1, <1>2, <1>3 DEF QualifierWritten
<1>6. \A die : DimensionsWritten(die)' = DimensionsWritten(die) /\ Elements(die)' = Elements(die)
    <2>1. \A die : Elements(die)' = Elements(die)
        BY <1>2 DEF Elements
    <2>2. ASSUME NEW die PROVE Dimensions(die)' = Dimensions(die)
        <3> DEFINE S == {c[2] : c \in OfTag(Children(die), {"subrange"})}
        <3> DEFINE order == InOrder(S)
        <3>1. S' = S
            BY <1>2
        <3>2. order' = order
            <4> HIDE DEF S
            <4> QED BY <3>1
        <3> QED BY <3>2 DEF Dimensions
    <2>3. ASSUME NEW die PROVE DimensionsWritten(die)' = DimensionsWritten(die)
        BY <1>1, <1>2, <2>2 DEF DimensionsWritten, Dimensions
    <2> QED BY <2>1, <2>3
<1>7. \A die : ArrayWritten(die)' = ArrayWritten(die)
    BY <1>1, <1>2, <1>3, <1>6 DEF ArrayWritten
<1>8. \A c : PartWritten(c)' = PartWritten(c) /\ PartAlign(c)' = PartAlign(c)
    BY <1>1, <1>2, <1>3 DEF PartWritten, PartAlign
<1>9. ASSUME NEW die PROVE AggregateWritten(die)' = AggregateWritten(die)
    <2> DEFINE aligns == {PartAlign(c) : c \in Parts(die)}
    <2> DEFINE maximum == IF None \in aligns THEN None ELSE Max(aligns \cup {1})
    <2>1. aligns' = aligns
        BY <1>2, <1>8
    <2>2. maximum' = maximum
        <3> HIDE DEF aligns
        <3> QED BY <2>1
    <2> QED BY <1>1, <1>2, <1>3, <1>8, <2>2 DEF AggregateWritten
<1> QED BY <1>1, <1>2, <1>4, <1>5, <1>7, <1>9 DEF TypeWritten

LEMMA SameWritten ==
    ASSUME debug' = debug
    PROVE  Written' = Written
<1>1. AllDies' = AllDies /\ \A die : Entry(die)' = Entry(die)
    BY SameDies
<1>2. /\ Types' = Types /\ \A die : Fact(die)' = Fact(die) /\ Meant(die)' = Meant(die)
      /\ \A die : ReferenceWritten(die)' = ReferenceWritten(die)
      /\ \A die : Parts(die)' = Parts(die)
    BY SameFacts
<1>3. /\ \A to : SizeOf(to)' = SizeOf(to) /\ AlignOf(to)' = AlignOf(to)
      /\ \A to : IsEmpty(to)' = IsEmpty(to)
    BY <1>2 DEF SizeOf, AlignOf, IsEmpty
<1>4. \A c, real : PlacedAt(c, real)' = PlacedAt(c, real)
    <2>1. \A c : Storage(c)' = Storage(c)
        BY <1>1, <1>2, <1>3 DEF Storage
    <2>2. \A c, real : BitsWritten(c, real)' = BitsWritten(c, real)
        BY <1>1, <2>1 DEF BitsWritten
    <2> QED BY <1>1, <1>2, <1>3, <2>2 DEF PlacedAt
<1>5. \A die : LayoutWritten(die)' = LayoutWritten(die)
    BY <1>1, <1>2, <1>4 DEF LayoutWritten
<1>6. VariablesWritten' = VariablesWritten
    BY <1>1, <1>2, <1>3 DEF VariablesWritten, OfTag
<1>7. FunctionsWritten' = FunctionsWritten
    <2>1. \A piece, range : PieceWritten(piece, range)' = PieceWritten(piece, range)
        BY DEF PieceWritten, Wrap
    <2> QED BY <1>1, <2>1 DEF FunctionsWritten, OfTag
<1> QED BY <1>2, <1>5, <1>6, <1>7, SameTypes DEF Written

-----------------------------------------------------------------------------
ReadInv == debug \in Debugs /\ Written /\ LayoutsReadBack /\ VariablesReadBack /\ FunctionsReadBack

LEMMA ReadInit == ReaderInit /\ Written => ReadInv
BY DEF ReaderInit, Init, ReadInv, LayoutsReadBack, Known, Answers, VariablesReadBack, FunctionsReadBack

\* Answered layouts, variables and functions are what the reader finds when it is asked.
LEMMA ReadKept == ReadInv /\ [Next]_vars => ReadInv'
<1> SUFFICES ASSUME ReadInv, [Next]_vars PROVE ReadInv'
    OBVIOUS
<1>1. debug' = debug /\ Written'
    BY DebugKept, SameWritten DEF ReadInv
<1> DEFINE has(things) == {<<f.die, {f.ranges[k] : k \in DOMAIN f.ranges}>> : f \in things}
<1> DEFINE compiled(u) == {<<die, Code(die)>> : die \in {d \in DOMAIN debug.truthOfFunctions : d[1] = u /\ Code(d) # {}}}
<1>6. ASSUME query' = "functions" /\ answer' # None /\ answer'.status = "ok" => has(answer'.found) = compiled(answer'.unit)
      PROVE  FunctionsReadBack'
    <2> SUFFICES ASSUME query' = "functions", answer' # None, answer'.status = "ok"
                 PROVE  has(answer'.found)
                          = {<<die, Code(die)'>> : die \in {d \in DOMAIN debug'.truthOfFunctions :
                                                               d[1] = answer'.unit /\ Code(d)' # {}}}
        BY Zenon DEF FunctionsReadBack
    <2>1. \A die : Code(die)' = Code(die)
        BY <1>1 DEF Code
    <2>2. PICK u : u = answer'.unit
        OBVIOUS
    <2>3. compiled(u) = {<<die, Code(die)'>> : die \in {d \in DOMAIN debug'.truthOfFunctions : d[1] = u /\ Code(d)' # {}}}
        BY <1>1, <2>1
    <2> QED BY <1>6, <2>2, <2>3
<1>2. CASE query' = query /\ answer' = answer
    <2>1. query = "functions" /\ answer # None /\ answer.status = "ok" => has(answer.found) = compiled(answer.unit)
        BY Zenon DEF ReadInv, FunctionsReadBack
    <2>2. FunctionsReadBack'
        BY <1>2, <1>6, <2>1
    <2> QED BY <1>1, <1>2, <2>2 DEF ReadInv, LayoutsReadBack, Known, Truth, Answers, VariablesReadBack
<1>3. CASE FindTypes
    <2>1. /\ query' = "types"
          /\ answer'.found = {} \/ answer'.found = {Layout(d) : d \in definitions} \cup {Declaration(p) : p \in Declared}
        BY <1>3 DEF FindTypes, Answer, Failure, Found
    <2>2. ASSUME NEW l \in Known' PROVE \E d : l = Layout(d) /\ <<d.unit, d.at>> \in DOMAIN debug.truth /\ l.die = <<d.unit, d.at>>
        <3>1. l \in answer'.found /\ l.die \in DOMAIN debug.truth
            BY <1>1, <2>1, <2>2 DEF Known, Answers
        <3>2. l.die # None
            <4>1. l.die \in AllDies
                BY <3>1 DEF ReadInv, Written, LayoutWritten, Types
            <4> QED BY <4>1, NoneIsNoEntry DEF ReadInv
        <3>3. \A path : Declaration(path).die = None
            BY DEF Declaration
        <3>4. PICK d : l = Layout(d)
            BY <2>1, <3>1, <3>2, <3>3
        <3>5. Layout(d).die = <<d.unit, d.at>>
            BY DEF Layout
        <3> QED BY <3>1, <3>4, <3>5
    <2>3. LayoutsReadBack'
        <3> SUFFICES ASSUME NEW l \in Known'
                     PROVE  LET real == debug.truth[l.die]
                            IN  /\ {<<e.at, e.offset, e.size, e.what = "bitfield">> : e \in l.entries}
                                     = {<<e.at, e.offset, e.size, e.bitfield>> : e \in real.entries}
                                /\ l.virtualBases = real.virtualBases
                                /\ \A e \in l.entries : \A r \in real.entries :
                                      e.what = "field" /\ e.at = r.at => e.align = r.align /\ e.empty = r.empty
            BY <1>1 DEF LayoutsReadBack, Truth
        <3>1. PICK d : l = Layout(d) /\ <<d.unit, d.at>> \in DOMAIN debug.truth /\ l.die = <<d.unit, d.at>>
            BY <2>2
        <3>2. LET f    == Layout(d)
                  real == debug.truth[<<d.unit, d.at>>]
              IN  /\ {<<e.at, e.offset, e.size, e.what = "bitfield">> : e \in f.entries}
                       = {<<e.at, e.offset, e.size, e.bitfield>> : e \in real.entries}
                  /\ f.virtualBases = real.virtualBases
                  /\ \A e \in f.entries : \A r \in real.entries :
                        e.what = "field" /\ e.at = r.at => e.align = r.align /\ e.empty = r.empty
            BY <3>1, LayoutRead DEF ReadInv
        <3> QED BY <3>1, <3>2, Zenon
    <2> QED BY <1>1, <2>1, <2>3 DEF ReadInv, VariablesReadBack, FunctionsReadBack
<1>4. ASSUME NEW u \in 1..(Len(debug.units) + 1), FindFunctions(u) PROVE ReadInv'
    <2>1. /\ query' = "functions"
          /\ answer'.status = "ok" =>
                answer'.unit = u /\ answer'.found = IF u \in DOMAIN debug.units THEN Functions(u) ELSE {}
        BY <1>4 DEF FindFunctions, Answer, Failure, FoundIn
    <2>2. u \in DOMAIN debug.units => has(Functions(u)) = compiled(u)
        BY FunctionsRead DEF ReadInv
    <2>3. u \notin DOMAIN debug.units => has({}) = compiled(u)
        <3>1. \A d \in DOMAIN debug.truthOfFunctions : d[1] \in DOMAIN debug.units
            <4>1. \A d \in DOMAIN debug.truthOfFunctions : d \in AllDies
                BY DEF ReadInv, Written, FunctionsWritten, OfTag
            <4> QED BY <4>1, EntryNumbers DEF ReadInv
        <3> QED BY <3>1
    <2>4. answer'.status = "ok" => has(answer'.found) = compiled(answer'.unit)
        BY <2>1, <2>2, <2>3
    <2>5. FunctionsReadBack'
        BY <1>6, <2>4
    <2> QED BY <1>1, <2>1, <2>5 DEF ReadInv, LayoutsReadBack, Known, Answers, VariablesReadBack
<1>5. CASE FindVariables
    <2>1. query' = "variables" /\ (answer'.status = "ok" => answer'.found = Variables)
        BY <1>5 DEF FindVariables, Answer, Failure, Found
    <2>2. {<<v.die, v.size>> : v \in Variables} = debug.truthOfVariables
        BY VariablesRead DEF ReadInv
    <2>3. VariablesReadBack'
        BY <1>1, <2>1, <2>2 DEF VariablesReadBack
    <2> QED BY <1>1, <2>1, <2>3 DEF ReadInv, LayoutsReadBack, Known, Answers, FunctionsReadBack
<1> QED BY <1>2, <1>3, <1>4, <1>5 DEF Next, Index, Answered, vars

\* In whatever units are as a compiler writes them, members, bases and bit-fields of every
\* aggregate come back where the compiler put them, through any references, with the
\* alignment and emptiness of their types and the virtual bases at any distance.
THEOREM ReaderReadsLayoutsBack == Spec /\ Written => []LayoutsReadBack
<1>1. ReadInv => LayoutsReadBack
    BY DEF ReadInv
<1> QED BY <1>1, ReadInit, ReadKept, PTL DEF Spec

\* And the variables that come back are those in the image, with their types' sizes.
THEOREM ReaderReadsVariablesBack == Spec /\ Written => []VariablesReadBack
<1>1. ReadInv => VariablesReadBack
    BY DEF ReadInv
<1> QED BY <1>1, ReadInit, ReadKept, PTL DEF Spec

\* And the functions that come back are those that have code in the image, each with just
\* that code: however the linker marked what it discarded or folded away, by the addresses
\* 0, -1 and -2 with a length behind them that may wrap, or by ends that enclose nothing.
THEOREM ReaderReadsFunctionsBack == Spec /\ Written => []FunctionsReadBack
<1>1. ReadInv => FunctionsReadBack
    BY DEF ReadInv
<1> QED BY <1>1, ReadInit, ReadKept, PTL DEF Spec
=============================================================================
