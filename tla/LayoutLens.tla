----------------------------- MODULE LayoutLens -----------------------------
(***************************************************************************)
(* The layout lens (`compute' in layout.rs): from the members that a       *)
(* debug-info reader lists for one type, the holes and padding between     *)
(* them, the members that share storage or straddle cache lines, and an    *)
(* order of the members that makes the type smaller.                       *)
(*                                                                         *)
(* Two loops have a state of their own: the walk that finds holes and the  *)
(* one that lays the members out anew.  Each step takes the least of the   *)
(* members left (`pending') under the order that the code sorts by.  What  *)
(* the lens computes without a loop are operators on the raw layout.       *)
(***************************************************************************)
EXTENDS Integers, Sequences, FiniteSets, FiniteSetsExt

CONSTANTS MaxBits,     \* u64::MAX
          Raws,        \* [union, bytes, alignment, virtualBases, entries]
          LineBytes,   \* bytes of a cache line
          PowersOfTwo, \* is_power_of_two
          None         \* an Option's None

Kinds == {"Field", "Bitfield", "Base", "VirtualBase", "VtablePtr"}

Maybe(S) == S \cup {None}

Entry == [kind : Kinds, offset : Maybe(0..MaxBits), size : 0..MaxBits,
          align : Maybe(Nat), empty : BOOLEAN]

IsRaw(r) ==
    /\ r.union \in BOOLEAN /\ r.virtualBases \in BOOLEAN
    /\ r.bytes \in Nat /\ r.alignment \in Maybe(Nat)
    /\ r.entries \in Seq(Entry)
    /\ \A i \in DOMAIN r.entries :
          r.entries[i].offset = None => r.entries[i].kind \in {"Base", "VirtualBase"}

ASSUME LayoutAssumption ==
    /\ MaxBits \in Nat /\ LineBytes \in Nat \ {0}
    /\ PowersOfTwo \subseteq Nat \ {0}
    /\ \A a, b \in PowersOfTwo : a <= b => b % a = 0
    /\ None \notin Nat /\ None \notin [order : Seq(Nat), newSize : Nat, saved : Nat]
    /\ \A r \in Raws : IsRaw(r)

VARIABLES raw,       \* the reader's description of the type
          phase,     \* which loop runs
          pending,   \* members that the loop has not taken yet, by their place in raw.entries
          cursor,    \* end of the members taken, in bits
          holes,     \* gaps found, [from, to) in bits
          tail,      \* bits between the last member and the end of the type
          offset,    \* end of the members laid out anew, in bytes
          order,     \* the members laid out anew
          suggestion

vars == <<raw, phase, pending, cursor, holes, tail, offset, order, suggestion>>

-----------------------------------------------------------------------------
(* Members.                                                                *)
Larger(m, n) == IF m >= n THEN m ELSE n

FaultySaturate(n) == n

Saturate(n) == IF n <= MaxBits THEN n ELSE MaxBits

Members  == DOMAIN raw.entries
Placed   == {i \in Members : raw.entries[i].offset # None}
SizeBits == Saturate(raw.bytes * 8)

Start(i) == raw.entries[i].offset
End(i)   == Saturate(raw.entries[i].offset + raw.entries[i].size)

\* The stable sort by offset: members at one offset stay in the reader's order.
Before(i, j) == Start(i) < Start(j) \/ (Start(i) = Start(j) /\ i <= j)

\* The offsets of hidden members are unknown in types with virtual bases.
FindsHoles == ~raw.union /\ ~raw.virtualBases

-----------------------------------------------------------------------------
(* Members that share storage.                                             *)
FaultyIsData(i) == raw.entries[i].kind = "Field" /\ ~raw.entries[i].empty /\ raw.entries[i].size > 0

IsData(i) ==
    /\ raw.entries[i].kind = "Bitfield" \/ (raw.entries[i].kind = "Field" /\ ~raw.entries[i].empty)
    /\ raw.entries[i].size > 0

SharesWith(i, j) == i # j /\ Start(i) < End(j) /\ Start(j) < End(i)

SharingStorage ==
    IF raw.union THEN {}
    ELSE {i \in Members : IsData(i) /\ \E j \in Members : IsData(j) /\ SharesWith(i, j)}

-----------------------------------------------------------------------------
(* Cache lines.                                                            *)
Boundaries == {b \in 1..(raw.bytes - 1) : b % LineBytes = 0}

FaultyLastBit(i) == (raw.entries[i].offset + raw.entries[i].size) % (MaxBits + 1)

\* Plain u64 arithmetic: in a release build the sum wraps around.
LastBit(i) == (raw.entries[i].offset + raw.entries[i].size - 1) % (MaxBits + 1)

Straddling ==
    {i \in Placed : /\ raw.entries[i].size > 0
                    /\ (Start(i) \div 8) \div LineBytes # (LastBit(i) \div 8) \div LineBytes}

-----------------------------------------------------------------------------
(* Alignment, and when the lens proposes another order.                    *)
FieldsOnly == \A i \in Members : raw.entries[i].kind = "Field"

AlignsKnown == \A i \in Members : raw.entries[i].align # None

Packed ==
    \E i \in Members :
        /\ raw.entries[i].kind = "Field"
        /\ raw.entries[i].align \in Nat \ {0, 1}
        /\ raw.entries[i].offset % (raw.entries[i].align * 8) # 0

ComputedAlignment == Max({1} \cup {raw.entries[i].align : i \in Members})

Alignment ==
    IF raw.alignment # None THEN raw.alignment
    ELSE IF FieldsOnly /\ AlignsKnown /\ ~Packed THEN ComputedAlignment
    ELSE None

Align(i) == Larger(raw.entries[i].align, 1)

DivCeil(n, d) == (n + d - 1) \div d

Bytes(i) == DivCeil(raw.entries[i].size, 8)

FaultyPreconditions ==
    /\ Alignment \in PowersOfTwo
    /\ \A i \in Members : Align(i) \in PowersOfTwo /\ raw.entries[i].size % 8 = 0

Preconditions ==
    /\ Alignment \in PowersOfTwo
    /\ \A i \in Members :
          Align(i) \in PowersOfTwo /\ Bytes(i) % Align(i) = 0 /\ raw.entries[i].size % 8 = 0

Reorderable ==
    ~raw.union /\ FieldsOnly /\ ~Packed /\ Alignment # None /\ AlignsKnown /\ Preconditions

\* A member without size behind all others is a flexible array, which stays last.
IsFlexible(i) == raw.entries[i].size = 0 /\ \A j \in Members : Before(j, i)

FaultyPacksBefore(i, j) ==
    \/ ~IsFlexible(i) /\ IsFlexible(j)
    \/ /\ IsFlexible(i) = IsFlexible(j)
       /\ Bytes(i) > Bytes(j) \/ (Bytes(i) = Bytes(j) /\ Before(i, j))

\* Decreasing alignment, then decreasing size, then as they are.
PacksBefore(i, j) ==
    \/ ~IsFlexible(i) /\ IsFlexible(j)
    \/ /\ IsFlexible(i) = IsFlexible(j)
       /\ \/ Align(i) > Align(j)
          \/ Align(i) = Align(j) /\ Bytes(i) > Bytes(j)
          \/ Align(i) = Align(j) /\ Bytes(i) = Bytes(j) /\ Before(i, j)

RoundUp(n, align) == DivCeil(n, align) * align

-----------------------------------------------------------------------------
Init ==
    /\ raw \in Raws
    /\ phase = "holes"
    /\ pending = Placed
    /\ cursor = 0 /\ holes = {} /\ tail = 0
    /\ offset = 0 /\ order = <<>>
    /\ suggestion = None

FaultyWalkMember ==
    /\ phase = "holes"
    /\ \E i \in pending :
          /\ \A j \in pending : Before(i, j)
          /\ pending' = pending \ {i}
          /\ holes' = IF FindsHoles /\ Start(i) > cursor
                      THEN holes \cup {[from |-> cursor, to |-> Start(i)]} ELSE holes
          /\ cursor' = End(i)
    /\ UNCHANGED <<raw, phase, tail, offset, order, suggestion>>

\* A gap before the next member is a hole; a member inside another moves nothing.
WalkMember ==
    /\ phase = "holes"
    /\ \E i \in pending :
          /\ \A j \in pending : Before(i, j)
          /\ pending' = pending \ {i}
          /\ holes' = IF FindsHoles /\ Start(i) > cursor
                      THEN holes \cup {[from |-> cursor, to |-> Start(i)]} ELSE holes
          /\ cursor' = Larger(cursor, End(i))
    /\ UNCHANGED <<raw, phase, tail, offset, order, suggestion>>

HolesFound ==
    /\ phase = "holes" /\ pending = {}
    /\ tail' = IF raw.virtualBases THEN 0 ELSE Larger(SizeBits - cursor, 0)
    /\ phase' = IF Reorderable THEN "reorder" ELSE "done"
    /\ pending' = IF Reorderable THEN Members ELSE {}
    /\ UNCHANGED <<raw, cursor, holes, offset, order, suggestion>>

\* packed_size, along the order of suggest_reorder.
LayOutMember ==
    /\ phase = "reorder"
    /\ \E i \in pending :
          /\ \A j \in pending : PacksBefore(i, j)
          /\ pending' = pending \ {i}
          /\ offset' = RoundUp(offset, Align(i)) + Bytes(i)
          /\ order' = Append(order, i)
    /\ UNCHANGED <<raw, phase, cursor, holes, tail, suggestion>>

Suggest ==
    /\ phase = "reorder" /\ pending = {}
    /\ phase' = "done"
    /\ LET newSize == RoundUp(offset, Alignment)
       IN suggestion' = IF newSize >= raw.bytes THEN None
                        ELSE [order |-> order, newSize |-> newSize,
                              saved |-> raw.bytes - newSize]
    /\ UNCHANGED <<raw, pending, cursor, holes, tail, offset, order>>

Done == phase = "done" /\ UNCHANGED vars

Next == WalkMember \/ HolesFound \/ LayOutMember \/ Suggest \/ Done

Spec == Init /\ [][Next]_vars

-----------------------------------------------------------------------------
PaddingBits == SumFunction([h \in holes |-> h.to - h.from]) + tail

TypeOK ==
    /\ raw \in Raws
    /\ phase \in {"holes", "reorder", "done"}
    /\ pending \subseteq Members
    /\ cursor \in 0..MaxBits /\ tail \in 0..MaxBits
    /\ holes \subseteq [from : 0..MaxBits, to : 0..MaxBits]
    /\ offset \in Nat
    /\ order \in Seq(Members)
    /\ suggestion \in Maybe([order : Seq(Members), newSize : Nat, saved : Nat \ {0}])

Occupied(bit) == \E i \in Placed : Start(i) <= bit /\ bit < End(i)

InHole(h, bit) == h.from <= bit /\ bit < h.to

\* Holes and tail padding are exactly the bits that no member occupies, and no bit is
\* counted twice (docs/05-correlation.md section 2: gaps between sorted entries, and
\* what is left after the last): members that overlap, nest or have no size neither
\* hide a gap nor make one.
HolesAreGaps ==
    phase # "holes" /\ FindsHoles =>
        /\ \A bit \in 0..(Larger(cursor, SizeBits) - 1) :
              ~Occupied(bit) <=> \/ \E h \in holes : InHole(h, bit)
                                 \/ cursor <= bit /\ bit < cursor + tail
        /\ \A g, h \in holes : g # h => g.to <= h.from \/ h.to <= g.from
        /\ \A h \in holes : h.from < h.to /\ h.to <= cursor

\* In a struct of plain data members that lie within it, padding and members add up to
\* the size (docs/06-testing.md:54) unless the lens notes that members share storage, and
\* then they do not: the note is never missing and never wrong.
AddsUp ==
    (/\ phase # "holes" /\ FindsHoles
     /\ \A i \in Members :
           /\ raw.entries[i].kind \in {"Field", "Bitfield"} /\ ~raw.entries[i].empty
           /\ raw.entries[i].offset + raw.entries[i].size <= SizeBits) =>
        (SharingStorage = {} <=>
            SumFunction([i \in Members |-> raw.entries[i].size]) + PaddingBits = SizeBits)

\* A member straddles cache lines exactly if a reported boundary lies within it.
StraddlesWhereSplit ==
    \A i \in Placed :
        raw.entries[i].offset + raw.entries[i].size <= SizeBits =>
            (i \in Straddling <=>
                \E b \in Boundaries : Start(i) < b * 8 /\ b * 8 < End(i))

\* Laid out by decreasing alignment, every member starts where the one before it ends
\* (the argument in the comment of suggest_reorder).
NoPaddingInserted ==
    phase = "reorder" =>
        \A i \in pending : ~IsFlexible(i) => offset % Align(i) = 0

\* Orders of the members that leave a flexible array last, and the sizes they give.
Orders ==
    {f \in [1..Cardinality(Members) -> Members] :
        /\ \A k, l \in DOMAIN f : f[k] = f[l] => k = l
        /\ \A k \in DOMAIN f : IsFlexible(f[k]) => k = Cardinality(Members)}

PackedSize(f) ==
    LET end[k \in 0..Cardinality(Members)] ==
            IF k = 0 THEN 0 ELSE RoundUp(end[k - 1], Align(f[k])) + Bytes(f[k])
    IN RoundUp(end[Cardinality(Members)], Alignment)

\* The order proposed is one that the language allows, gives the size announced, and
\* no other order gives a smaller one; without a proposal no order shrinks the type
\* (docs/05-correlation.md section 2.8: "provably minimal over all orderings").
ReorderMinimal ==
    phase = "done" /\ Reorderable =>
        IF suggestion = None THEN \A f \in Orders : raw.bytes <= PackedSize(f)
        ELSE /\ suggestion.order \in Orders
             /\ PackedSize(suggestion.order) = suggestion.newSize
             /\ \A f \in Orders : suggestion.newSize <= PackedSize(f)

\* layout.rs:215-222: the size proposed is the bytes that the members occupy, rounded
\* up to the alignment; what shares storage now can share it in any order.
SmallestReachable ==
    suggestion # None =>
        suggestion.newSize =
            RoundUp(Cardinality({b \in 0..(raw.bytes - 1) : Occupied(b * 8)}), Alignment)
=============================================================================
