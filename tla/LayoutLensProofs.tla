-------------------------- MODULE LayoutLensProofs --------------------------
(***************************************************************************)
(* Theorems about the layout lens, for every type that a reader may list:  *)
(* overlapping, nested, misaligned or saturating members in any number.    *)
(***************************************************************************)
EXTENDS LayoutLens, Sums

-----------------------------------------------------------------------------
(* Arithmetic of alignments.                                               *)
LEMMA QuotientExists ==
  ASSUME NEW n \in Nat, NEW d \in Nat \ {0}, n % d = 0
  PROVE  \E q \in Nat : n = d * q
  BY SMTT(20)

LEMMA MultipleDivides ==
  ASSUME NEW q \in Nat, NEW d \in Nat \ {0}
  PROVE  (d * q) % d = 0
  BY SMTT(20)

\* An offset that is aligned stays where it is.
LEMMA AlignedStays ==
  ASSUME NEW n \in Nat, NEW d \in Nat \ {0}, n % d = 0
  PROVE  RoundUp(n, d) = n
<1>1. PICK q \in Nat : n = d * q
  BY QuotientExists
<1>2. (d * q + (d - 1)) \div d = q
  BY SMTT(20)
<1> QED
  BY <1>1, <1>2 DEF RoundUp, DivCeil

LEMMA DividesTransitive ==
  ASSUME NEW m \in Nat, NEW d \in Nat \ {0}, NEW e \in Nat \ {0}, m % d = 0, d % e = 0
  PROVE  m % e = 0
<1>1. PICK q \in Nat : m = d * q
  BY QuotientExists
<1>2. PICK r \in Nat : d = e * r
  BY QuotientExists
<1>3. m = e * (r * q)
  BY <1>1, <1>2, SMTT(20)
<1>4. r * q \in Nat
  BY SMTT(20)
<1> QED
  BY <1>3, <1>4, MultipleDivides

LEMMA DividesSum ==
  ASSUME NEW m \in Nat, NEW n \in Nat, NEW e \in Nat \ {0}, m % e = 0, n % e = 0
  PROVE  (m + n) % e = 0
<1>1. PICK q \in Nat : m = e * q
  BY QuotientExists
<1>2. PICK r \in Nat : n = e * r
  BY QuotientExists
<1>3. m + n = e * (q + r)
  BY <1>1, <1>2, SMTT(20)
<1>4. q + r \in Nat
  BY SMT
<1> QED
  BY <1>3, <1>4, MultipleDivides

LEMMA RoundUpNat ==
  ASSUME NEW n \in Nat, NEW d \in Nat \ {0}
  PROVE  RoundUp(n, d) \in Nat
<1>1. (n + d - 1) \div d \in Nat
  BY SMTT(20)
<1>2. ((n + d - 1) \div d) * d \in Nat
  BY <1>1, SMTT(20)
<1> QED
  BY <1>2 DEF RoundUp, DivCeil

-----------------------------------------------------------------------------
(* Members.                                                                *)
LEMMA RawType ==
  ASSUME raw \in Raws
  PROVE  IsRaw(raw)
  BY LayoutAssumption

LEMMA MemberType ==
  ASSUME raw \in Raws, NEW i \in Members
  PROVE  /\ raw.entries[i] \in Entry
         /\ i \in Nat
  BY RawType DEF Members, IsRaw

LEMMA PlacedType ==
  ASSUME raw \in Raws, NEW i \in Placed
  PROVE  /\ i \in Members /\ i \in Nat
         /\ Start(i) \in 0..MaxBits /\ End(i) \in 0..MaxBits
         /\ Start(i) <= End(i)
<1>1. i \in Members /\ raw.entries[i].offset # None
  BY DEF Placed
<1>2. raw.entries[i].offset \in 0..MaxBits /\ raw.entries[i].size \in 0..MaxBits /\ i \in Nat
  BY <1>1, MemberType DEF Entry, Maybe
<1> QED
  BY <1>1, <1>2, LayoutAssumption DEF Start, End, Saturate

LEMMA SizeBitsType ==
  ASSUME raw \in Raws
  PROVE  SizeBits \in 0..MaxBits
  BY RawType, LayoutAssumption DEF IsRaw, SizeBits, Saturate

\* Once every member is known to be a field of known alignment, it is placed and has a
\* power of two for its alignment that divides its size.
LEMMA ReorderableType ==
  ASSUME raw \in Raws, Reorderable
  PROVE  /\ Alignment \in PowersOfTwo
         /\ \A i \in Members : /\ i \in Placed
                               /\ Align(i) \in PowersOfTwo /\ Align(i) \in Nat \ {0}
                               /\ Bytes(i) \in Nat
                               /\ Bytes(i) % Align(i) = 0
<1>1. Alignment \in PowersOfTwo
  BY DEF Reorderable, Preconditions
<1>2. ASSUME NEW i \in Members
      PROVE  /\ i \in Placed
             /\ Align(i) \in PowersOfTwo /\ Align(i) \in Nat \ {0}
             /\ Bytes(i) \in Nat
             /\ Bytes(i) % Align(i) = 0
  <2>1. i \in Placed
    BY RawType DEF Reorderable, FieldsOnly, Placed, IsRaw, Members
  <2>2. Align(i) \in PowersOfTwo /\ Bytes(i) % Align(i) = 0
    BY DEF Reorderable, Preconditions
  <2>3. raw.entries[i].size \in Nat
    BY MemberType, LayoutAssumption DEF Entry
  <2>4. Bytes(i) \in Nat
    BY <2>3, SMTT(20) DEF Bytes, DivCeil
  <2> QED
    BY <2>1, <2>2, <2>4, LayoutAssumption
<1> QED
  BY <1>1, <1>2

-----------------------------------------------------------------------------
(* Types.                                                                  *)

\* The first loop takes members whose offset is known; in the second one the
\* preconditions of suggest_reorder hold, and keep holding.
PhaseInv ==
    /\ phase = "holes" => pending \subseteq Placed
    /\ phase = "reorder" => Reorderable

LEMMA TypeInit == Init => TypeOK /\ PhaseInv
<1> SUFFICES ASSUME Init PROVE TypeOK /\ PhaseInv
  OBVIOUS
<1>1. Placed \subseteq Members
  BY DEF Placed
<1>2. PhaseInv
  BY DEF Init, PhaseInv
<1>3. TypeOK
  BY <1>1, LayoutAssumption DEF Init, TypeOK, Maybe
<1> QED
  BY <1>2, <1>3

LEMMA WalkMemberType ==
  ASSUME TypeOK, PhaseInv, WalkMember
  PROVE  TypeOK'
<1> USE DEF TypeOK
<1>1. PICK i \in pending :
         /\ pending' = pending \ {i}
         /\ holes' = IF FindsHoles /\ Start(i) > cursor
                     THEN holes \cup {[from |-> cursor, to |-> Start(i)]} ELSE holes
         /\ cursor' = Larger(cursor, End(i))
  BY DEF WalkMember
<1>2. /\ raw' = raw /\ phase' = phase /\ tail' = tail /\ offset' = offset
      /\ order' = order /\ suggestion' = suggestion /\ phase = "holes"
  BY DEF WalkMember
<1>3. Members' = Members
  BY <1>2 DEF Members
<1>4. Start(i) \in 0..MaxBits /\ End(i) \in 0..MaxBits
  BY <1>2, PlacedType DEF PhaseInv
<1>5. cursor' \in 0..MaxBits
  BY <1>1, <1>4 DEF Larger
<1>6. holes' \subseteq [from : 0..MaxBits, to : 0..MaxBits]
  BY <1>1, <1>4
<1> QED
  BY <1>1, <1>2, <1>3, <1>5, <1>6

LEMMA HolesFoundType ==
  ASSUME TypeOK, HolesFound
  PROVE  TypeOK'
<1> USE DEF TypeOK
<1>1. /\ raw' = raw /\ cursor' = cursor /\ holes' = holes /\ offset' = offset
      /\ order' = order /\ suggestion' = suggestion
      /\ tail' = IF raw.virtualBases THEN 0 ELSE Larger(SizeBits - cursor, 0)
      /\ phase' \in {"reorder", "done"}
      /\ pending' \subseteq Members
  BY DEF HolesFound
<1>2. Members' = Members
  BY <1>1 DEF Members
<1>3. tail' \in 0..MaxBits
  BY <1>1, SizeBitsType, LayoutAssumption DEF Larger
<1> QED
  BY <1>1, <1>2, <1>3

LEMMA LayOutMemberType ==
  ASSUME TypeOK, PhaseInv, LayOutMember
  PROVE  TypeOK'
<1> USE DEF TypeOK
<1>1. PICK i \in pending :
         /\ pending' = pending \ {i}
         /\ offset' = RoundUp(offset, Align(i)) + Bytes(i)
         /\ order' = Append(order, i)
  BY DEF LayOutMember
<1>2. /\ raw' = raw /\ phase' = phase /\ cursor' = cursor /\ holes' = holes
      /\ tail' = tail /\ suggestion' = suggestion /\ phase = "reorder"
  BY DEF LayOutMember
<1>3. Members' = Members
  BY <1>2 DEF Members
<1>4. offset' \in Nat
  <2>1. i \in Members /\ Reorderable
    BY <1>2 DEF PhaseInv
  <2>2. Align(i) \in Nat \ {0} /\ Bytes(i) \in Nat
    BY <2>1, ReorderableType
  <2>3. RoundUp(offset, Align(i)) \in Nat
    BY <2>2, RoundUpNat
  <2> QED
    BY <1>1, <2>2, <2>3
<1>5. order' \in Seq(Members)
  BY <1>1
<1> QED
  BY <1>1, <1>2, <1>3, <1>4, <1>5

LEMMA SuggestType ==
  ASSUME TypeOK, PhaseInv, Suggest
  PROVE  TypeOK'
<1> USE DEF TypeOK
<1>1. /\ raw' = raw /\ pending' = pending /\ cursor' = cursor /\ holes' = holes
      /\ tail' = tail /\ offset' = offset /\ order' = order /\ phase' = "done"
      /\ phase = "reorder"
      /\ suggestion' = IF RoundUp(offset, Alignment) >= raw.bytes THEN None
                       ELSE [order |-> order, newSize |-> RoundUp(offset, Alignment),
                             saved |-> raw.bytes - RoundUp(offset, Alignment)]
  BY DEF Suggest
<1>2. Members' = Members
  BY <1>1 DEF Members
<1>3. suggestion' \in Maybe([order : Seq(Members), newSize : Nat, saved : Nat \ {0}])
  <2>1. Alignment \in Nat \ {0}
    BY <1>1, ReorderableType, LayoutAssumption DEF PhaseInv
  <2>2. RoundUp(offset, Alignment) \in Nat
    BY <2>1, RoundUpNat
  <2>3. raw.bytes \in Nat
    BY RawType DEF IsRaw
  <2>4. CASE RoundUp(offset, Alignment) >= raw.bytes
    BY <1>1, <2>4 DEF Maybe
  <2>5. CASE RoundUp(offset, Alignment) < raw.bytes
    <3>1. raw.bytes - RoundUp(offset, Alignment) \in Nat \ {0}
      BY <2>2, <2>3, <2>5
    <3>2. suggestion' = [order |-> order, newSize |-> RoundUp(offset, Alignment),
                         saved |-> raw.bytes - RoundUp(offset, Alignment)]
      BY <1>1, <2>2, <2>3, <2>5
    <3> QED
      BY <2>2, <3>1, <3>2 DEF Maybe
  <2> QED
    BY <2>2, <2>3, <2>4, <2>5
<1> QED
  BY <1>1, <1>2, <1>3

LEMMA TypeStep ==
  ASSUME TypeOK, PhaseInv, [Next]_vars
  PROVE  TypeOK'
<1>1. CASE UNCHANGED vars
  BY <1>1 DEF vars, TypeOK, Members
<1> QED
  BY <1>1, WalkMemberType, HolesFoundType, LayOutMemberType, SuggestType DEF Next, Done

\* What is decided from the raw layout alone stays decided.
LEMMA SameRaw ==
  ASSUME raw' = raw
  PROVE  /\ Members' = Members /\ Placed' = Placed /\ Reorderable' = Reorderable
         /\ Alignment' = Alignment /\ FindsHoles' = FindsHoles /\ SizeBits' = SizeBits
<1>1. Members' = Members /\ Placed' = Placed
  BY DEF Members, Placed
<1>2. FindsHoles' = FindsHoles /\ SizeBits' = SizeBits
  BY DEF FindsHoles, SizeBits
<1>3. Alignment' = Alignment
  BY <1>1 DEF Alignment, FieldsOnly, AlignsKnown, Packed, ComputedAlignment, Members
<1>4. Reorderable' = Reorderable
  BY <1>1, <1>3 DEF Reorderable, FieldsOnly, AlignsKnown, Packed, Preconditions, Align, Bytes
<1> QED
  BY <1>1, <1>2, <1>3, <1>4

LEMMA PhaseStep ==
  ASSUME TypeOK, PhaseInv, [Next]_vars
  PROVE  PhaseInv'
<1> USE DEF PhaseInv
<1>1. CASE WalkMember
  BY <1>1, SameRaw DEF WalkMember
<1>2. CASE HolesFound
  BY <1>2, SameRaw DEF HolesFound
<1>3. CASE LayOutMember
  BY <1>3, SameRaw DEF LayOutMember
<1>4. CASE Suggest
  BY <1>4 DEF Suggest
<1>5. CASE UNCHANGED vars
  BY <1>5, SameRaw DEF vars
<1> QED
  BY <1>1, <1>2, <1>3, <1>4, <1>5 DEF Next, Done

\* Offsets stay within u64, and the savings announced are positive.
THEOREM LayoutTypeCorrect == Spec => []TypeOK
<1>1. TypeOK /\ PhaseInv /\ [Next]_vars => (TypeOK /\ PhaseInv)'
  BY TypeStep, PhaseStep
<1> QED
  BY <1>1, TypeInit, PTL DEF Spec

-----------------------------------------------------------------------------
(* Holes.  At each step of the walk, the bits below the cursor are those   *)
(* of the members taken and those of the holes, and no hole reaches into a *)
(* member, whether taken or to come: the sort puts those behind it.        *)
Taken == Placed \ pending

WalkInv ==
    phase = "holes" =>
        /\ \A i \in Taken : End(i) <= cursor
        /\ \A h \in holes : h.from < h.to /\ h.to <= cursor
        /\ \A g, h \in holes : g # h => g.to <= h.from \/ h.to <= g.from
        /\ \A h \in holes, i \in pending : h.to <= Start(i)
        /\ \A h \in holes, i \in Taken : End(i) <= h.from \/ h.to <= Start(i)
        /\ FindsHoles =>
              \A bit \in 0..(cursor - 1) :
                 \/ \E h \in holes : h.from <= bit /\ bit < h.to
                 \/ \E i \in Taken : Start(i) <= bit /\ bit < End(i)

LEMMA BitsBelow ==
  ASSUME NEW n \in Nat, NEW bit \in 0..(n - 1)
  PROVE  bit \in Nat /\ bit < n
  BY SMT

LEMMA WalkInit == Init => WalkInv
<1> SUFFICES ASSUME Init PROVE WalkInv
  OBVIOUS
<1>1. Taken = {} /\ holes = {} /\ cursor = 0
  BY DEF Init, Taken
<1>2. 0..(cursor - 1) = {}
  BY <1>1, SMT
<1> QED
  BY <1>1, <1>2 DEF WalkInv

LEMMA WalkStep ==
  ASSUME TypeOK, PhaseInv, WalkInv, WalkMember
  PROVE  WalkInv'
<1>1. PICK i \in pending :
         /\ \A j \in pending : Before(i, j)
         /\ pending' = pending \ {i}
         /\ holes' = IF FindsHoles /\ Start(i) > cursor
                     THEN holes \cup {[from |-> cursor, to |-> Start(i)]} ELSE holes
         /\ cursor' = Larger(cursor, End(i))
  BY DEF WalkMember
<1>2. raw' = raw /\ phase' = "holes" /\ phase = "holes" /\ raw \in Raws
  BY DEF WalkMember, TypeOK
<1>3. pending \subseteq Placed /\ i \in Placed
  BY <1>2 DEF PhaseInv
<1>4. Taken' = Taken \cup {i}
  BY <1>1, <1>2, <1>3, SameRaw DEF Taken
<1>5. \A j \in Placed : /\ Start(j) \in 0..MaxBits /\ End(j) \in 0..MaxBits
                        /\ Start(j) <= End(j)
  BY <1>2, PlacedType
<1>6. MaxBits \in Nat /\ cursor \in 0..MaxBits
      /\ holes \subseteq [from : 0..MaxBits, to : 0..MaxBits]
  BY LayoutAssumption DEF TypeOK
<1>7. cursor' \in 0..MaxBits /\ cursor <= cursor' /\ End(i) <= cursor'
      /\ (cursor' = cursor \/ cursor' = End(i))
  BY <1>1, <1>3, <1>5, <1>6 DEF Larger
<1>8. \A j \in pending : Start(i) <= Start(j)
  BY <1>1, <1>3, <1>5 DEF Before
<1> DEFINE new == [from |-> cursor, to |-> Start(i)]
<1>9. \A h \in holes' : h \in holes \/ (h = new /\ FindsHoles /\ cursor < Start(i))
  BY <1>1, <1>3, <1>5, <1>6
<1>10. \A h \in holes : h \in holes'
  BY <1>1
<1>11. new.from = cursor /\ new.to = Start(i)
  OBVIOUS
<1> HIDE DEF new
<1>12. \A j \in Taken' : End(j) <= cursor'
  BY <1>3, <1>4, <1>5, <1>6, <1>7, <1>2 DEF WalkInv, Taken
<1>13. \A h \in holes' : h.from < h.to /\ h.to <= cursor'
  BY <1>2, <1>3, <1>5, <1>6, <1>7, <1>9, <1>11 DEF WalkInv
<1>14. \A h \in holes' : h \in holes => h.to <= cursor /\ h.to <= Start(i)
  BY <1>2, <1>3 DEF WalkInv
<1>15. \A g, h \in holes' : g # h => g.to <= h.from \/ h.to <= g.from
  BY <1>2, <1>9, <1>11, <1>14 DEF WalkInv
<1>16. \A h \in holes', j \in pending' : h.to <= Start(j)
  BY <1>1, <1>2, <1>8, <1>9, <1>11 DEF WalkInv
<1>17. \A h \in holes', j \in Taken' : End(j) <= h.from \/ h.to <= Start(j)
  <2> SUFFICES ASSUME NEW h \in holes', NEW j \in Taken'
               PROVE  End(j) <= h.from \/ h.to <= Start(j)
    OBVIOUS
  <2>1. CASE j = i
    BY <2>1, <1>3, <1>5, <1>9, <1>11, <1>14
  <2>2. CASE j \in Taken /\ h \in holes
    BY <2>2, <1>2 DEF WalkInv
  <2>3. CASE j \in Taken /\ h = new
    BY <2>3, <1>2, <1>11 DEF WalkInv
  <2> QED
    BY <2>1, <2>2, <2>3, <1>4, <1>9
<1>18. ASSUME FindsHoles, NEW bit \in Nat, bit < cursor'
       PROVE  \/ \E h \in holes' : h.from <= bit /\ bit < h.to
              \/ \E j \in Taken' : Start(j) <= bit /\ bit < End(j)
  <2>1. CASE bit < cursor
    <3>1. bit \in 0..(cursor - 1)
      BY <2>1, <1>6
    <3> QED
      BY <3>1, <1>2, <1>4, <1>10, <1>18 DEF WalkInv
  <2>2. CASE cursor <= bit /\ bit < Start(i)
    <3>1. cursor < Start(i)
      BY <2>2, <1>3, <1>5, <1>6
    <3>2. new \in holes'
      BY <3>1, <1>1, <1>3, <1>5, <1>6, <1>18 DEF new
    <3> QED
      BY <2>2, <3>2, <1>11
  <2>3. CASE cursor <= bit /\ Start(i) <= bit
    <3>1. cursor' = End(i)
      BY <2>3, <1>6, <1>7, <1>18
    <3>2. bit < End(i)
      BY <3>1, <1>18
    <3> QED
      BY <2>3, <3>2, <1>4
  <2> QED
    BY <2>1, <2>2, <2>3, <1>3, <1>5, <1>6
<1>19. FindsHoles' = FindsHoles
  BY <1>2, SameRaw
<1>20. \A bit \in 0..(cursor' - 1) : bit \in Nat /\ bit < cursor'
  <2>1. cursor' \in Nat
    BY <1>6, <1>7
  <2> QED
    BY <2>1, BitsBelow
<1> QED
  BY <1>2, <1>12, <1>13, <1>15, <1>16, <1>17, <1>18, <1>19, <1>20
  DEF WalkInv, Start, End, Saturate

\* When the walk ends, the tail is what is left.
LEMMA HolesStep ==
  ASSUME TypeOK, PhaseInv, WalkInv, HolesFound
  PROVE  HolesAreGaps'
<1>1. /\ raw' = raw /\ cursor' = cursor /\ holes' = holes /\ raw \in Raws
      /\ phase = "holes" /\ pending = {}
      /\ tail' = IF raw.virtualBases THEN 0 ELSE Larger(SizeBits - cursor, 0)
  BY DEF HolesFound, TypeOK
<1>2. Taken = Placed
  BY <1>1 DEF Taken
<1>3. /\ MaxBits \in Nat /\ cursor \in 0..MaxBits /\ SizeBits \in 0..MaxBits
      /\ holes \subseteq [from : 0..MaxBits, to : 0..MaxBits]
  BY <1>1, LayoutAssumption, SizeBitsType DEF TypeOK
<1>4. \A j \in Placed : Start(j) \in 0..MaxBits /\ End(j) \in 0..MaxBits
  BY <1>1, PlacedType
<1>5. ASSUME FindsHoles, NEW bit \in 0..(Larger(cursor, SizeBits) - 1)
      PROVE  ~(\E j \in Placed : Start(j) <= bit /\ bit < End(j))
                <=> \/ \E h \in holes : h.from <= bit /\ bit < h.to
                    \/ cursor <= bit /\ bit < cursor + tail'
  <2>1. bit \in Nat
    BY <1>3 DEF Larger
  <2>2. CASE bit < cursor
    <3>1. bit \in 0..(cursor - 1)
      BY <2>1, <2>2, <1>3
    <3>2. \/ \E h \in holes : h.from <= bit /\ bit < h.to
          \/ \E j \in Placed : Start(j) <= bit /\ bit < End(j)
      BY <3>1, <1>1, <1>2, <1>5 DEF WalkInv
    <3>3. \A h \in holes, j \in Placed : End(j) <= h.from \/ h.to <= Start(j)
      BY <1>1, <1>2 DEF WalkInv
    <3>4. \A h \in holes, j \in Placed :
             ~(h.from <= bit /\ bit < h.to /\ Start(j) <= bit /\ bit < End(j))
      BY <3>3, <2>1, <1>3, <1>4
    <3>5. ~(cursor <= bit /\ bit < cursor + tail')
      BY <2>1, <2>2, <1>3
    <3> QED
      BY <3>2, <3>4, <3>5
  <2>3. CASE cursor <= bit
    <3>1. \A j \in Placed : ~(Start(j) <= bit /\ bit < End(j))
      BY <2>1, <2>3, <1>1, <1>2, <1>3, <1>4 DEF WalkInv
    <3>2. bit < cursor + tail'
      BY <2>1, <2>3, <1>1, <1>3, <1>5 DEF Larger, FindsHoles
    <3> QED
      BY <2>3, <3>1, <3>2
  <2> QED
    BY <2>1, <2>2, <2>3, <1>3
<1>6. /\ \A g, h \in holes : g # h => g.to <= h.from \/ h.to <= g.from
      /\ \A h \in holes : h.from < h.to /\ h.to <= cursor
  BY <1>1 DEF WalkInv
<1>7. FindsHoles' = FindsHoles /\ Placed' = Placed /\ SizeBits' = SizeBits
  BY <1>1, SameRaw
<1> QED
  BY <1>1, <1>5, <1>6, <1>7 DEF HolesAreGaps, Occupied, InHole, Start, End, Saturate

LEMMA HolesUnchanged ==
  ASSUME HolesAreGaps, phase # "holes", UNCHANGED <<raw, cursor, holes, tail>>
  PROVE  HolesAreGaps'
  BY SameRaw DEF HolesAreGaps, Occupied, InHole, Start, End, Saturate

LEMMA GapsInductive ==
  ASSUME TypeOK, PhaseInv, WalkInv, HolesAreGaps, [Next]_vars
  PROVE  (WalkInv /\ HolesAreGaps)'
<1>1. CASE WalkMember
  <2>1. phase' = "holes"
    BY <1>1 DEF WalkMember
  <2> QED
    BY <1>1, <2>1, WalkStep DEF HolesAreGaps
<1>2. CASE HolesFound
  <2>1. phase' # "holes"
    BY <1>2 DEF HolesFound
  <2> QED
    BY <1>2, <2>1, HolesStep DEF WalkInv
<1>3. CASE LayOutMember \/ Suggest
  <2>1. phase # "holes" /\ phase' # "holes" /\ UNCHANGED <<raw, cursor, holes, tail>>
    BY <1>3 DEF LayOutMember, Suggest
  <2> QED
    BY <2>1, HolesUnchanged DEF WalkInv
<1>4. CASE UNCHANGED vars
  <2>1. WalkInv'
    BY <1>4, SameRaw DEF vars, WalkInv, Taken, Start, End, Saturate
  <2>2. CASE phase = "holes"
    BY <1>4, <2>1, <2>2 DEF vars, HolesAreGaps
  <2>3. CASE phase # "holes"
    BY <1>4, <2>1, <2>3, HolesUnchanged DEF vars
  <2> QED
    BY <2>1, <2>2, <2>3
<1> QED
  BY <1>1, <1>2, <1>3, <1>4 DEF Next, Done

\* Holes and tail padding are the bits that no member occupies, each counted once, for
\* every list of members (the walk of `compute').
THEOREM LayoutHolesAreGaps == Spec => []HolesAreGaps
<1> DEFINE Inv == TypeOK /\ PhaseInv /\ WalkInv /\ HolesAreGaps
<1>1. Init => Inv
  BY TypeInit, WalkInit DEF Init, HolesAreGaps
<1>2. Inv /\ [Next]_vars => Inv'
  BY TypeStep, PhaseStep, GapsInductive
<1> QED
  BY <1>1, <1>2, PTL DEF Spec

-----------------------------------------------------------------------------
(* Padding and members.                                                    *)

\* The cursor is where some member ends, and the tail is what is left behind it.
CursorInv ==
    /\ cursor = 0 \/ \E i \in Placed \ (IF phase = "holes" THEN pending ELSE {}) : End(i) = cursor
    /\ IsFiniteSet(holes)
    /\ phase # "holes" => tail = IF raw.virtualBases THEN 0 ELSE Larger(SizeBits - cursor, 0)

LEMMA CursorInit == Init => CursorInv
BY FS_EmptySet DEF Init, CursorInv

LEMMA CursorStep ==
  ASSUME TypeOK, PhaseInv, CursorInv, [Next]_vars
  PROVE  CursorInv'
<1>1. CASE WalkMember
  <2>1. PICK i \in pending :
           /\ pending' = pending \ {i}
           /\ holes' = IF FindsHoles /\ Start(i) > cursor
                       THEN holes \cup {[from |-> cursor, to |-> Start(i)]} ELSE holes
           /\ cursor' = Larger(cursor, End(i))
    BY <1>1 DEF WalkMember
  <2>2. raw' = raw /\ phase' = "holes" /\ phase = "holes" /\ pending \subseteq Placed
    BY <1>1 DEF WalkMember, PhaseInv
  <2>3. IsFiniteSet(holes')
    BY <2>1, FS_AddElement DEF CursorInv
  <2>4. cursor' = 0 \/ \E j \in Placed \ pending' : End(j) = cursor'
    <3>1. CASE cursor' = End(i)
      BY <2>1, <2>2, <3>1
    <3>2. CASE cursor' = cursor
      BY <2>1, <2>2, <3>2 DEF CursorInv
    <3> QED
      BY <2>1, <3>1, <3>2 DEF Larger
  <2> QED
    BY <2>2, <2>3, <2>4, SameRaw DEF CursorInv, End, Saturate
<1>2. CASE HolesFound
  BY <1>2, SameRaw DEF HolesFound, CursorInv, End, Saturate
<1>3. CASE LayOutMember \/ Suggest
  <2>1. phase # "holes" /\ phase' # "holes" /\ UNCHANGED <<raw, cursor, holes, tail>>
    BY <1>3 DEF LayOutMember, Suggest
  <2> QED
    BY <2>1, SameRaw DEF CursorInv, End, Saturate
<1>4. CASE UNCHANGED vars
  BY <1>4, SameRaw DEF vars, CursorInv, End, Saturate
<1> QED
  BY <1>1, <1>2, <1>3, <1>4 DEF Next, Done

LEMMA MembersFinite ==
  ASSUME raw \in Raws
  PROVE  IsFiniteSet(Members) /\ Cardinality(Members) \in Nat /\ Members = 1..Len(raw.entries)
<1>1. Members = 1..Len(raw.entries) /\ Len(raw.entries) \in Nat
  BY RawType DEF Members, IsRaw
<1>2. IsFiniteSet(1..Len(raw.entries))
  BY <1>1, FS_Interval
<1>3. IsFiniteSet(Members)
  BY <1>1, <1>2, Zenon
<1> QED
  BY <1>1, <1>3, FS_CardinalityType

\* Bits are occupied once, by members or by holes or by the tail, if no members share
\* storage, and the sizes then add up; if some do, the sizes add up to more.
LEMMA AddsUpLemma ==
  ASSUME TypeOK, CursorInv, HolesAreGaps
  PROVE  AddsUp
<1> SUFFICES ASSUME phase # "holes", FindsHoles,
                    \A i \in Members :
                       /\ raw.entries[i].kind \in {"Field", "Bitfield"} /\ ~raw.entries[i].empty
                       /\ raw.entries[i].offset + raw.entries[i].size <= SizeBits
             PROVE  SharingStorage = {} <=>
                      SumFunction([i \in Members |-> raw.entries[i].size]) + PaddingBits = SizeBits
  BY DEF AddsUp
<1> DEFINE size  == [i \in Members |-> raw.entries[i].size]
           bits  == [i \in Members |-> Start(i)..(End(i) - 1)]
           gaps  == [h \in holes |-> h.from..(h.to - 1)]
           width == [h \in holes |-> h.to - h.from]
           used  == UNION {bits[i] : i \in Members}
           holed == UNION {gaps[h] : h \in holes}
           rest  == cursor..(SizeBits - 1)
<1>1. raw \in Raws /\ MaxBits \in Nat /\ SizeBits \in Nat /\ SizeBits <= MaxBits
      /\ cursor \in Nat /\ holes \subseteq [from : 0..MaxBits, to : 0..MaxBits]
  BY SizeBitsType, LayoutAssumption DEF TypeOK
<1>2. Placed = Members
  BY <1>1, RawType DEF IsRaw, Placed, Members
<1>3. \A i \in Members : /\ Start(i) \in Nat /\ End(i) \in Nat /\ raw.entries[i].size \in Nat
                         /\ End(i) = Start(i) + raw.entries[i].size
                         /\ End(i) <= SizeBits
  <2> SUFFICES ASSUME NEW i \in Members
               PROVE  /\ Start(i) \in Nat /\ End(i) \in Nat /\ raw.entries[i].size \in Nat
                      /\ End(i) = Start(i) + raw.entries[i].size
                      /\ End(i) <= SizeBits
    OBVIOUS
  <2>1. Start(i) \in Nat /\ raw.entries[i].size \in Nat
    BY <1>1, <1>2, PlacedType, MemberType DEF Entry
  <2> QED
    BY <1>1, <2>1 DEF Start, End, Saturate
<1>4. cursor <= SizeBits
  BY <1>1, <1>2, <1>3 DEF CursorInv
<1>5. tail = SizeBits - cursor
  BY <1>1, <1>4 DEF CursorInv, FindsHoles, Larger
<1>6. \A h \in holes : h.from \in Nat /\ h.to \in Nat /\ h.from < h.to /\ h.to <= cursor
  BY <1>1 DEF HolesAreGaps
<1>7. IsFiniteSet(Members) /\ IsFiniteSet(holes)
  BY <1>1, MembersFinite DEF CursorInv
\* Members.
<1>8. \A i \in Members : IsFiniteSet(bits[i]) /\ Cardinality(bits[i]) = size[i]
  <2> SUFFICES ASSUME NEW i \in Members
               PROVE  IsFiniteSet(bits[i]) /\ Cardinality(bits[i]) = size[i]
    OBVIOUS
  <2>1. Start(i) <= End(i) /\ End(i) - Start(i) = raw.entries[i].size
    BY <1>3
  <2>2. IsFiniteSet(Start(i)..(End(i) - 1)) /\ Cardinality(Start(i)..(End(i) - 1)) = End(i) - Start(i)
    BY <1>3, <2>1, IntervalSize
  <2> QED
    BY <2>1, <2>2
<1>9. /\ IsFiniteSet(used) /\ SumFunctionOnSet(size, Members) \in Nat
      /\ Cardinality(used) = SumFunctionOnSet(size, Members)
            <=> \A i, j \in Members : i # j => bits[i] \cap bits[j] = {}
  <2> HIDE DEF bits, size
  <2> DEFINE count == [i \in Members |-> Cardinality(bits[i])]
  <2>1. /\ IsFiniteSet(used) /\ SumFunctionOnSet(count, Members) \in Nat
        /\ Cardinality(used) = SumFunctionOnSet(count, Members)
              <=> \A i, j \in Members : i # j => bits[i] \cap bits[j] = {}
    BY <1>7, <1>8, SumOfSizes
  <2>2. \A i \in Members : count[i] = size[i]
    BY <1>8
  <2> HIDE DEF count
  <2>3. SumFunctionOnSet(count, Members) = SumFunctionOnSet(size, Members)
    BY <1>7, <2>2, SumSame
  <2> QED
    BY <2>1, <2>3
<1>10. SharingStorage = {} <=> \A i, j \in Members : i # j => bits[i] \cap bits[j] = {}
  <2>1. ~raw.union
    BY DEF FindsHoles
  <2>2. \A i \in Members : IsData(i) <=> raw.entries[i].size > 0
    BY DEF IsData
  <2>3. ASSUME NEW i \in Members, NEW j \in Members, i # j
        PROVE  IsData(i) /\ IsData(j) /\ SharesWith(i, j) <=> bits[i] \cap bits[j] # {}
    <3>1. ASSUME IsData(i), IsData(j), SharesWith(i, j)
          PROVE  bits[i] \cap bits[j] # {}
      <4> DEFINE bit == Larger(Start(i), Start(j))
      <4>1. bit \in bits[i] /\ bit \in bits[j]
        BY <1>3, <2>2, <2>3, <3>1 DEF SharesWith, Larger
      <4> QED
        BY <4>1
    <3>2. ASSUME NEW bit \in bits[i], bit \in bits[j]
          PROVE  IsData(i) /\ IsData(j) /\ SharesWith(i, j)
      <4>1. /\ bit \in Int /\ Start(i) <= bit /\ bit <= End(i) - 1
            /\ Start(j) <= bit /\ bit <= End(j) - 1
        BY <3>2, <1>3
      <4>2. Start(i) < End(j) /\ Start(j) < End(i)
        BY <1>3, <4>1
      <4>3. raw.entries[i].size > 0 /\ raw.entries[j].size > 0
        BY <1>3, <4>1
      <4> QED
        BY <2>2, <2>3, <4>2, <4>3 DEF SharesWith
    <3> QED
      BY <3>1, <3>2
  <2> HIDE DEF bits
  <2> QED
    BY <2>1, <2>3 DEF SharingStorage, SharesWith
\* Holes.
<1>11. \A h \in holes : IsFiniteSet(gaps[h]) /\ Cardinality(gaps[h]) = width[h]
  <2> SUFFICES ASSUME NEW h \in holes
               PROVE  IsFiniteSet(gaps[h]) /\ Cardinality(gaps[h]) = width[h]
    OBVIOUS
  <2>1. IsFiniteSet(h.from..(h.to - 1)) /\ Cardinality(h.from..(h.to - 1)) = h.to - h.from
    BY <1>6, IntervalSize
  <2> QED
    BY <2>1
<1>12. \A g, h \in holes : g # h => gaps[g] \cap gaps[h] = {}
  <2> SUFFICES ASSUME NEW g \in holes, NEW h \in holes, g # h, NEW bit \in gaps[g], bit \in gaps[h]
               PROVE  FALSE
    OBVIOUS
  <2>1. g.to <= h.from \/ h.to <= g.from
    BY DEF HolesAreGaps
  <2> QED
    BY <1>6, <2>1
<1>13. /\ IsFiniteSet(holed) /\ SumFunctionOnSet(width, holes) \in Nat
       /\ Cardinality(holed) = SumFunctionOnSet(width, holes)
  <2> HIDE DEF gaps, width
  <2> DEFINE count == [h \in holes |-> Cardinality(gaps[h])]
  <2>1. /\ IsFiniteSet(holed) /\ SumFunctionOnSet(count, holes) \in Nat
        /\ Cardinality(holed) = SumFunctionOnSet(count, holes)
    BY <1>7, <1>11, <1>12, SumOfSizes
  <2>2. \A h \in holes : count[h] = width[h]
    BY <1>11
  <2> HIDE DEF count
  <2>3. SumFunctionOnSet(count, holes) = SumFunctionOnSet(width, holes)
    BY <1>7, <2>2, SumSame
  <2> QED
    BY <2>1, <2>3
\* Every bit of the type is in one of the three.
<1>14. IsFiniteSet(rest) /\ Cardinality(rest) = tail
  BY <1>1, <1>4, <1>5, IntervalSize
<1>15. \A bit \in 0..(SizeBits - 1) : bit \notin used <=> bit \in holed \/ bit \in rest
  <2> SUFFICES ASSUME NEW bit \in 0..(SizeBits - 1)
               PROVE  bit \notin used <=> bit \in holed \/ bit \in rest
    OBVIOUS
  <2>1. bit \in Nat /\ bit < SizeBits /\ bit \in 0..(Larger(cursor, SizeBits) - 1)
    BY <1>1, <1>4 DEF Larger
  <2>2. bit \in used <=> Occupied(bit)
    BY <1>2, <1>3, <2>1 DEF Occupied
  <2>3. bit \in holed <=> \E h \in holes : InHole(h, bit)
    BY <1>6, <2>1 DEF InHole
  <2>4. bit \in rest <=> cursor <= bit /\ bit < cursor + tail
    BY <1>1, <1>5, <2>1
  <2> QED
    BY <2>1, <2>2, <2>3, <2>4 DEF HolesAreGaps
<1>16. /\ used \subseteq 0..(SizeBits - 1) /\ holed \subseteq 0..(SizeBits - 1)
       /\ rest \subseteq 0..(SizeBits - 1)
  <2>1. used \subseteq 0..(SizeBits - 1)
    BY <1>1, <1>3
  <2>2. holed \subseteq 0..(SizeBits - 1)
    BY <1>1, <1>4, <1>6
  <2>3. rest \subseteq 0..(SizeBits - 1)
    BY <1>1
  <2> QED
    BY <2>1, <2>2, <2>3
<1>17. holed \cap rest = {}
  BY <1>1, <1>6
<1> HIDE DEF size, bits, gaps, width, used, holed, rest
<1>18. Cardinality(0..(SizeBits - 1)) = SizeBits
  BY <1>1, IntervalSize
<1>19. 0..(SizeBits - 1) = used \cup (holed \cup rest) /\ used \cap (holed \cup rest) = {}
  BY <1>15, <1>16
<1>20. /\ IsFiniteSet(holed \cup rest)
       /\ Cardinality(holed \cup rest) = Cardinality(holed) + Cardinality(rest)
  BY <1>13, <1>14, <1>17, DisjointUnion
<1>21. Cardinality(used \cup (holed \cup rest)) = Cardinality(used) + Cardinality(holed \cup rest)
  BY <1>9, <1>19, <1>20, DisjointUnion
<1>22. Cardinality(0..(SizeBits - 1)) = Cardinality(used \cup (holed \cup rest))
  BY <1>19, Zenon
<1>23. SizeBits = Cardinality(used) + (SumFunctionOnSet(width, holes) + tail)
  BY <1>13, <1>14, <1>18, <1>20, <1>21, <1>22
<1>24. /\ SumFunction([i \in Members |-> raw.entries[i].size]) = SumFunctionOnSet(size, Members)
       /\ PaddingBits = SumFunctionOnSet(width, holes) + tail
  BY DEF SumFunction, PaddingBits, size, width
<1>25. Cardinality(used) \in Nat /\ tail \in Nat
  BY <1>1, <1>4, <1>5, <1>9, FS_CardinalityType
<1> QED
  BY <1>1, <1>9, <1>10, <1>13, <1>23, <1>24, <1>25

\* In a struct of plain members that lie within it, sizes, holes and tail padding add up
\* to the size of the type exactly if the lens notes no shared storage.
THEOREM LayoutAddsUp == Spec => []AddsUp
<1> DEFINE Inv == TypeOK /\ PhaseInv /\ CursorInv
<1>1. Init => Inv
  BY TypeInit, CursorInit
<1>2. Inv /\ [Next]_vars => Inv'
  BY TypeStep, PhaseStep, CursorStep
<1>3. Inv /\ HolesAreGaps => AddsUp
  BY AddsUpLemma
<1> QED
  BY <1>1, <1>2, <1>3, LayoutHolesAreGaps, PTL DEF Spec

-----------------------------------------------------------------------------
(* Reordering.                                                             *)

\* Laying out one member leaves the offset aligned for all that come later.
LEMMA LayOutKeepsAligned ==
  ASSUME TypeOK, PhaseInv, NoPaddingInserted, LayOutMember
  PROVE  NoPaddingInserted'
<1>1. PICK i \in pending :
         /\ \A j \in pending : PacksBefore(i, j)
         /\ pending' = pending \ {i}
         /\ offset' = RoundUp(offset, Align(i)) + Bytes(i)
  BY DEF LayOutMember
<1>2. /\ raw' = raw /\ raw \in Raws /\ phase = "reorder" /\ Reorderable
      /\ pending \subseteq Members /\ offset \in Nat
  BY DEF LayOutMember, TypeOK, PhaseInv
<1>3. \A j \in Members : /\ Align(j) \in PowersOfTwo /\ Align(j) \in Nat \ {0}
                         /\ Bytes(j) \in Nat /\ Bytes(j) % Align(j) = 0
  BY <1>2, ReorderableType
<1>4. ASSUME NEW j \in pending', ~IsFlexible(j)
      PROVE  offset' % Align(j) = 0
  <2>1. j \in pending /\ j \in Members /\ i \in Members
    BY <1>1, <1>2
  <2>2. PacksBefore(i, j)
    BY <1>1, <2>1
  <2>3. ~IsFlexible(i) /\ Align(j) <= Align(i)
    BY <1>3, <1>4, <2>1, <2>2 DEF PacksBefore
  <2>4. Align(i) % Align(j) = 0
    BY <1>3, <2>1, <2>3, LayoutAssumption
  <2>5. offset % Align(i) = 0
    BY <1>1, <1>2, <2>3 DEF NoPaddingInserted
  <2>6. offset % Align(j) = 0
    BY <1>2, <1>4, <2>1 DEF NoPaddingInserted
  <2>7. offset' = offset + Bytes(i)
    BY <1>1, <1>2, <1>3, <2>1, <2>5, AlignedStays
  <2>8. Bytes(i) % Align(j) = 0
    BY <1>3, <2>1, <2>4, DividesTransitive
  <2> QED
    BY <1>2, <1>3, <2>1, <2>6, <2>7, <2>8, DividesSum
<1> QED
  BY <1>2, <1>4, SameRaw DEF NoPaddingInserted, IsFlexible, Align, Before, Start

LEMMA NoPaddingStep ==
  ASSUME TypeOK, PhaseInv, NoPaddingInserted, offset = 0 \/ phase # "holes", [Next]_vars
  PROVE  NoPaddingInserted'
<1>1. CASE WalkMember
  BY <1>1 DEF WalkMember, NoPaddingInserted
<1>2. CASE HolesFound
  <2>1. /\ raw' = raw /\ raw \in Raws /\ offset' = 0
        /\ phase' = IF Reorderable THEN "reorder" ELSE "done"
        /\ pending' = IF Reorderable THEN Members ELSE {}
    BY <1>2 DEF HolesFound, TypeOK
  <2>2. CASE Reorderable
    <3>1. \A i \in Members : Align(i) \in Nat \ {0}
      BY <2>1, <2>2, ReorderableType
    <3>2. \A i \in Members : 0 % Align(i) = 0
      BY <3>1, SMTT(20)
    <3> QED
      BY <2>1, <2>2, <3>2 DEF NoPaddingInserted, Align
  <2>3. CASE ~Reorderable
    BY <2>1, <2>3 DEF NoPaddingInserted
  <2> QED
    BY <2>2, <2>3
<1>3. CASE LayOutMember
  BY <1>3, LayOutKeepsAligned
<1>4. CASE Suggest
  BY <1>4 DEF Suggest, NoPaddingInserted
<1>5. CASE UNCHANGED vars
  BY <1>5, SameRaw DEF vars, NoPaddingInserted, IsFlexible, Align, Before, Start
<1> QED
  BY <1>1, <1>2, <1>3, <1>4, <1>5 DEF Next, Done

\* The order of suggest_reorder inserts no padding before any member but a flexible
\* array, whatever the members' sizes and alignments: the step of its comment's argument
\* from which the size proposed follows.
THEOREM LayoutInsertsNoPadding == Spec => []NoPaddingInserted
<1> DEFINE Fresh == offset = 0 \/ phase # "holes"
           Inv == TypeOK /\ PhaseInv /\ NoPaddingInserted /\ Fresh
<1>1. Init => Inv
  BY TypeInit DEF Init, NoPaddingInserted
<1>2. Inv /\ [Next]_vars => Fresh'
  BY DEF Next, WalkMember, HolesFound, LayOutMember, Suggest, Done, vars
<1>3. Inv /\ [Next]_vars => Inv'
  BY <1>2, TypeStep, PhaseStep, NoPaddingStep
<1> QED
  BY <1>1, <1>3, PTL DEF Spec

-----------------------------------------------------------------------------
(* Cache lines.                                                            *)
LEMMA FactorLess ==
  ASSUME NEW a \in Nat, NEW b \in Nat, NEW c \in Nat \ {0}, a * c < b * c
  PROVE  a < b
  BY SMTT(20)

LEMMA FactorMonotone ==
  ASSUME NEW a \in Nat, NEW b \in Nat, NEW c \in Nat \ {0}, a <= b
  PROVE  a * c <= b * c
  BY SMTT(20)

LEMMA ProductNat ==
  ASSUME NEW a \in Nat, NEW c \in Nat
  PROVE  a * c \in Nat
  BY SMTT(20)

LEMMA Quotient ==
  ASSUME NEW x \in Nat, NEW c \in Nat \ {0}
  PROVE  x \div c \in Nat /\ (x \div c) * c <= x /\ x < (x \div c + 1) * c
  BY SMTT(20)

\* A multiple of c lies behind x and not behind y exactly if c parts them.
LEMMA MultipleBetween ==
  ASSUME NEW x \in Nat, NEW y \in Nat, NEW c \in Nat \ {0}, x <= y
  PROVE  x \div c # y \div c <=> \E k \in Nat : x < k * c /\ k * c <= y
<1> DEFINE q == x \div c
           r == y \div c
<1>1. /\ q \in Nat /\ r \in Nat
      /\ q * c <= x /\ x < (q + 1) * c
      /\ r * c <= y /\ y < (r + 1) * c
  BY Quotient
<1> HIDE DEF q, r
<1>2. /\ q * c \in Nat /\ r * c \in Nat /\ (q + 1) * c \in Nat /\ (r + 1) * c \in Nat
  BY <1>1, ProductNat
<1>3. q <= r
  <2>1. q * c < (r + 1) * c
    BY <1>1, <1>2
  <2>2. q < r + 1
    BY <1>1, <2>1, FactorLess
  <2> QED
    BY <1>1, <2>2
<1>4. ASSUME q # r
      PROVE  \E k \in Nat : x < k * c /\ k * c <= y
  <2>1. q + 1 <= r
    BY <1>1, <1>3, <1>4
  <2>2. (q + 1) * c <= r * c
    BY <1>1, <2>1, FactorMonotone
  <2>3. x < r * c
    BY <1>1, <1>2, <2>2
  <2> QED
    BY <1>1, <2>3
<1>5. ASSUME q = r, NEW k \in Nat, x < k * c, k * c <= y
      PROVE  FALSE
  <2>1. k * c \in Nat
    BY ProductNat
  <2>2. q * c < k * c /\ k * c < (r + 1) * c
    BY <1>1, <1>2, <1>5, <2>1
  <2>3. q < k /\ k < r + 1
    BY <1>1, <2>2, FactorLess
  <2> QED
    BY <1>1, <1>5, <2>3
<1>6. q # r <=> \E k \in Nat : x < k * c /\ k * c <= y
  BY <1>4, <1>5
<1> QED
  BY <1>6 DEF q, r

LEMMA QuotientOfQuotient ==
  ASSUME NEW x \in Nat, NEW c \in Nat \ {0}
  PROVE  (x \div 8) \div c = x \div (c * 8)
<1> DEFINE a == x \div 8
           q == a \div c
<1>1. a \in Nat /\ a * 8 <= x /\ x < (a + 1) * 8
  BY SMT
<1>2. q \in Nat /\ q * c <= a /\ a < (q + 1) * c
  BY <1>1, Quotient
<1> HIDE DEF a, q
<1>3. q * c \in Nat /\ (q + 1) * c \in Nat
  BY <1>2, ProductNat
<1>4. (q * c) * 8 <= x /\ x < ((q + 1) * c) * 8
  BY <1>1, <1>2, <1>3
<1>5. (q * c) * 8 = q * (c * 8) /\ ((q + 1) * c) * 8 = (q + 1) * (c * 8)
  BY <1>2, SMTT(20)
<1>6. c * 8 \in Nat \ {0}
  OBVIOUS
<1> DEFINE d == c * 8
           r == x \div d
<1>7. r \in Nat /\ r * d <= x /\ x < (r + 1) * d
  BY <1>6, Quotient
<1>8. q * d <= x /\ x < (q + 1) * d
  BY <1>4, <1>5
<1>9. d \in Nat \ {0}
  BY <1>6
<1> HIDE DEF d, r
<1>10. q * d \in Nat /\ (q + 1) * d \in Nat /\ r * d \in Nat /\ (r + 1) * d \in Nat
  BY <1>2, <1>7, <1>9, ProductNat
<1>11. q * d < (r + 1) * d /\ r * d < (q + 1) * d
  BY <1>7, <1>8, <1>10
<1>12. q < r + 1 /\ r < q + 1
  BY <1>2, <1>7, <1>9, <1>11, FactorLess
<1>13. q = r
  BY <1>2, <1>7, <1>12
<1> QED
  BY <1>13 DEF a, q, d, r

LEMMA StraddleLemma ==
  ASSUME TypeOK
  PROVE  StraddlesWhereSplit
<1> SUFFICES ASSUME NEW i \in Placed,
                    raw.entries[i].offset + raw.entries[i].size <= SizeBits
             PROVE  i \in Straddling <=>
                        \E b \in Boundaries : Start(i) < b * 8 /\ b * 8 < End(i)
  BY DEF StraddlesWhereSplit
<1> DEFINE x == raw.entries[i].offset
           s == raw.entries[i].size
           y == x + s - 1
           c == LineBytes
<1>1. /\ MaxBits \in Nat /\ LineBytes \in Nat \ {0} /\ raw.bytes \in Nat
      /\ SizeBits <= MaxBits /\ SizeBits <= raw.bytes * 8 /\ SizeBits \in Nat
  BY RawType, SizeBitsType, LayoutAssumption DEF TypeOK, IsRaw, SizeBits, Saturate
<1>2. x \in Nat /\ s \in Nat
  <2>1. i \in Members /\ x # None
    BY DEF Placed
  <2> QED
    BY <2>1, MemberType, <1>1 DEF Entry, Maybe, TypeOK
<1>3. Start(i) = x /\ End(i) = x + s
  BY <1>1, <1>2 DEF Start, End, Saturate
<1>4. CASE s = 0
  <2>1. i \notin Straddling
    BY <1>4 DEF Straddling
  <2>2. \A b \in Boundaries : ~(x < b * 8 /\ b * 8 < x + s)
    BY <1>1, <1>2, <1>4 DEF Boundaries
  <2> QED
    BY <1>3, <2>1, <2>2
<1>5. CASE s > 0
  <2>1. y \in Nat /\ x <= y /\ y < MaxBits + 1 /\ y < raw.bytes * 8
    BY <1>1, <1>2, <1>5
  <2>2. LastBit(i) = y
    BY <1>1, <2>1 DEF LastBit
  <2>3. i \in Straddling <=> (x \div 8) \div c # (y \div 8) \div c
    BY <1>3, <1>5, <2>2, <1>2 DEF Straddling
  <2> HIDE DEF y
  <2>4. i \in Straddling <=> x \div (c * 8) # y \div (c * 8)
    BY <1>1, <1>2, <2>1, <2>3, QuotientOfQuotient
  <2>5. c * 8 \in Nat \ {0}
    BY <1>1
  <2>6. i \in Straddling <=> \E k \in Nat : x < k * (c * 8) /\ k * (c * 8) <= y
    BY <1>2, <2>1, <2>4, <2>5, MultipleBetween
  <2>7. ASSUME NEW k \in Nat, x < k * (c * 8), k * (c * 8) <= y
        PROVE  \E b \in Boundaries : x < b * 8 /\ b * 8 <= y
    <3>1. k * c \in Nat /\ k * (c * 8) = (k * c) * 8
      BY <1>1, ProductNat, SMTT(20)
    <3>2. k * c \in 1..(raw.bytes - 1)
      BY <1>1, <1>2, <2>1, <2>7, <3>1
    <3>3. (k * c) % c = 0
      <4>1. k * c = c * k
        BY <1>1, SMTT(20)
      <4> QED
        BY <1>1, <4>1, MultipleDivides
    <3>4. k * c \in Boundaries
      BY <3>2, <3>3 DEF Boundaries
    <3> QED
      BY <2>7, <3>1, <3>4
  <2>8. ASSUME NEW b \in Boundaries, x < b * 8, b * 8 <= y
        PROVE  \E k \in Nat : x < k * (c * 8) /\ k * (c * 8) <= y
    <3>1. b \in Nat /\ b % c = 0
      BY <1>1 DEF Boundaries
    <3>2. PICK k \in Nat : b = c * k
      BY <1>1, <3>1, QuotientExists
    <3>3. b * 8 = k * (c * 8)
      BY <1>1, <3>2, SMTT(20)
    <3> QED
      BY <2>8, <3>3
  <2>9. \A b \in Boundaries : b * 8 <= y <=> b * 8 < x + s
    BY <1>1, <1>2, <2>1 DEF Boundaries, y
  <2> QED
    BY <1>3, <2>6, <2>7, <2>8, <2>9
<1> QED
  BY <1>2, <1>4, <1>5

\* A member within the type straddles cache lines exactly if a reported boundary lies
\* inside it, for lines of any length: `straddling' and `boundaries' never disagree.
THEOREM LayoutStraddlesWhereSplit == Spec => []StraddlesWhereSplit
<1>1. TypeOK => StraddlesWhereSplit
  BY StraddleLemma
<1> QED
  BY <1>1, LayoutTypeCorrect, PTL
-----------------------------------------------------------------------------
(* Orders.                                                                 *)

\* Rounding up adds at most what is missing, and keeps the order of sizes.
LEMMA RoundUpGrows ==
  ASSUME NEW n \in Nat, NEW d \in Nat \ {0}
  PROVE  RoundUp(n, d) \in Nat /\ n <= RoundUp(n, d)
<1> DEFINE q == (n + d - 1) \div d
<1>1. n + d - 1 \in Nat
  OBVIOUS
<1>2. q \in Nat /\ n + d - 1 < (q + 1) * d
  BY <1>1, Quotient
<1> HIDE DEF q
<1>3. q * d \in Nat /\ (q + 1) * d = q * d + d
  BY <1>2, SMTT(20)
<1>4. n <= q * d
  BY <1>2, <1>3
<1> QED
  BY <1>3, <1>4 DEF q, RoundUp, DivCeil

LEMMA RoundUpMonotone ==
  ASSUME NEW m \in Nat, NEW n \in Nat, NEW d \in Nat \ {0}, m <= n
  PROVE  RoundUp(m, d) <= RoundUp(n, d)
<1> DEFINE q == (m + d - 1) \div d
           r == (n + d - 1) \div d
<1>1. m + d - 1 \in Nat /\ n + d - 1 \in Nat
  OBVIOUS
<1>2. q \in Nat /\ q * d <= m + d - 1 /\ r \in Nat /\ n + d - 1 < (r + 1) * d
  BY <1>1, Quotient
<1> HIDE DEF q, r
<1>3. q * d \in Nat /\ (r + 1) * d \in Nat
  BY <1>2, ProductNat
<1>4. q * d < (r + 1) * d
  BY <1>2, <1>3
<1>5. q < r + 1
  BY <1>2, <1>4, FactorLess
<1>6. q <= r
  BY <1>2, <1>5
<1>7. q * d <= r * d
  BY <1>2, <1>6, FactorMonotone
<1> QED
  BY <1>7 DEF q, r, RoundUp, DivCeil

\* The function g holds where each of the first m members of f ends when they are laid
\* out one after the other: the recursive function of PackedSize.
Ends(g, f, m) ==
    g = [k \in 0..m |-> IF k = 0 THEN 0 ELSE RoundUp(g[k - 1], Align(f[k])) + Bytes(f[k])]

LEMMA PackedSizeUnfolds ==
  ASSUME NEW f
  PROVE  PackedSize(f) =
            RoundUp((CHOOSE g : Ends(g, f, Cardinality(Members)))[Cardinality(Members)], Alignment)
BY DEF PackedSize, Ends

LEMMA EndsAt ==
  ASSUME NEW g, NEW f, NEW m \in Nat, Ends(g, f, m)
  PROVE  /\ g[0] = 0
         /\ \A k \in 1..m : g[k] = RoundUp(g[k - 1], Align(f[k])) + Bytes(f[k])
<1>1. 0 \in 0..m
  OBVIOUS
<1>2. g[0] = 0
  BY <1>1 DEF Ends
<1>3. ASSUME NEW k \in 1..m
      PROVE  g[k] = RoundUp(g[k - 1], Align(f[k])) + Bytes(f[k])
  <2>1. k \in 0..m /\ k # 0
    OBVIOUS
  <2> QED
    BY <2>1 DEF Ends
<1> QED
  BY <1>2, <1>3

\* One more member ends where the code puts it.
LEMMA EndsExtend ==
  ASSUME NEW g, NEW f, NEW h, NEW m \in Nat, Ends(g, f, m), \A k \in 1..m : h[k] = f[k]
  PROVE  \E e : /\ Ends(e, h, m + 1)
                /\ e[m + 1] = RoundUp(g[m], Align(h[m + 1])) + Bytes(h[m + 1])
<1> DEFINE last == RoundUp(g[m], Align(h[m + 1])) + Bytes(h[m + 1])
           e == [k \in 0..(m + 1) |-> IF k = m + 1 THEN last ELSE g[k]]
<1>1. g[0] = 0 /\ \A k \in 1..m : g[k] = RoundUp(g[k - 1], Align(f[k])) + Bytes(f[k])
  BY EndsAt
<1> HIDE DEF last
<1>2. e[m + 1] = last
  OBVIOUS
<1>3. \A k \in 0..m : e[k] = g[k]
  OBVIOUS
<1>4. ASSUME NEW k \in 0..(m + 1)
      PROVE  e[k] = IF k = 0 THEN 0 ELSE RoundUp(e[k - 1], Align(h[k])) + Bytes(h[k])
  <2>1. CASE k = 0
    BY <1>1, <1>3, <2>1
  <2>2. CASE k = m + 1
    <3>1. k # 0 /\ k - 1 = m /\ m \in 0..m
      BY <2>2
    <3>2. e[k - 1] = g[m]
      BY <1>3, <3>1
    <3>3. e[k] = RoundUp(e[k - 1], Align(h[k])) + Bytes(h[k])
      BY <1>2, <2>2, <3>2, Zenon DEF last
    <3> QED
      BY <3>1, <3>3
  <2>3. CASE k \in 1..m
    <3>1. k # 0 /\ k \in 0..m /\ k - 1 \in 0..m
      BY <2>3
    <3>2. e[k] = g[k] /\ e[k - 1] = g[k - 1] /\ h[k] = f[k]
      BY <1>3, <2>3, <3>1
    <3>3. g[k] = RoundUp(g[k - 1], Align(f[k])) + Bytes(f[k])
      BY <1>1, <2>3
    <3>4. e[k] = RoundUp(e[k - 1], Align(h[k])) + Bytes(h[k])
      BY <3>2, <3>3, Zenon
    <3> QED
      BY <3>1, <3>4
  <2> QED
    BY <2>1, <2>2, <2>3
<1>5. e = [k \in 0..(m + 1) |-> IF k = 0 THEN 0 ELSE RoundUp(e[k - 1], Align(h[k])) + Bytes(h[k])]
  <2> DEFINE val(k) == IF k = 0 THEN 0 ELSE RoundUp(e[k - 1], Align(h[k])) + Bytes(h[k])
  <2>1. \A k \in 0..(m + 1) : e[k] = val(k)
    BY <1>4
  <2>2. e = [k \in 0..(m + 1) |-> e[k]]
    OBVIOUS
  <2> HIDE DEF e, val
  <2>3. e = [k \in 0..(m + 1) |-> val(k)]
    BY <2>1, <2>2
  <2> QED
    BY <2>3 DEF val
<1>6. Ends(e, h, m + 1)
  BY <1>5 DEF Ends
<1> QED
  BY <1>2, <1>6 DEF last

LEMMA EndsExist ==
  ASSUME NEW f, NEW n \in Nat
  PROVE  \E g : Ends(g, f, n)
<1> DEFINE Bad == {m \in Nat : ~ \E g : Ends(g, f, m)}
<1>1. SUFFICES ASSUME Bad # {} PROVE FALSE
  OBVIOUS
<1>2. PICK m \in Bad : \A k \in Bad : m <= k
  BY <1>1, LeastNat
<1>3. m # 0
  <2>1. Ends([k \in {0} |-> 0], f, 0)
    <3>1. 0..0 = {0}
      OBVIOUS
    <3> QED
      BY <3>1 DEF Ends
  <2> QED
    BY <2>1
<1>4. m - 1 \in Nat /\ m - 1 \notin Bad /\ (m - 1) + 1 = m
  BY <1>2, <1>3
<1>5. PICK g : Ends(g, f, m - 1)
  BY <1>4
<1>6. \E e : Ends(e, f, (m - 1) + 1)
  BY <1>4, <1>5, EndsExtend
<1> QED
  BY <1>2, <1>4, <1>6

\* Members laid out in the same order end in the same places.
LEMMA EndsAgree ==
  ASSUME NEW g, NEW h, NEW f, NEW m \in Nat, Ends(g, f, m), Ends(h, f, m)
  PROVE  g[m] = h[m]
<1> DEFINE Bad == {k \in 0..m : g[k] # h[k]}
<1>1. SUFFICES ASSUME Bad # {} PROVE FALSE
  OBVIOUS
<1>2. PICK k \in Bad : \A l \in Bad : k <= l
  <2>1. Bad \subseteq Nat
    OBVIOUS
  <2> HIDE DEF Bad
  <2> QED
    BY <1>1, <2>1, LeastNat
<1>3. g[0] = 0 /\ h[0] = 0
  BY EndsAt
<1>4. k \in 1..m /\ k - 1 \in 0..m /\ k - 1 \notin Bad
  BY <1>2, <1>3
<1>5. /\ g[k] = RoundUp(g[k - 1], Align(f[k])) + Bytes(f[k])
      /\ h[k] = RoundUp(h[k - 1], Align(f[k])) + Bytes(f[k])
  BY <1>4, EndsAt
<1>6. g[k - 1] = h[k - 1]
  BY <1>4
<1> QED
  BY <1>2, <1>5, <1>6, Zenon

LEMMA PackedSizeIs ==
  ASSUME NEW f, NEW g, Cardinality(Members) \in Nat, Ends(g, f, Cardinality(Members))
  PROVE  PackedSize(f) = RoundUp(g[Cardinality(Members)], Alignment)
<1> DEFINE n == Cardinality(Members)
           c == CHOOSE e : Ends(e, f, n)
<1>1. Ends(c, f, n)
  OBVIOUS
<1>2. c[n] = g[n]
  BY <1>1, EndsAgree
<1> QED
  BY <1>2, PackedSizeUnfolds, Zenon

ByteSize == [i \in Members |-> Bytes(i)]

BytesOf(S) == SumFunctionOnSet(ByteSize, S)

LEMMA BytesType ==
  ASSUME raw \in Raws, Reorderable
  PROVE  /\ IsFiniteSet(Members) /\ Cardinality(Members) \in Nat
         /\ \A i \in Members : /\ ByteSize[i] = Bytes(i) /\ Bytes(i) \in Nat /\ Bytes(i) \in Int
                               /\ Align(i) \in Nat \ {0}
<1>1. \A i \in Members : Align(i) \in Nat \ {0} /\ Bytes(i) \in Nat
  BY ReorderableType
<1> QED
  BY <1>1, MembersFinite DEF ByteSize

LEMMA BytesOfNat ==
  ASSUME raw \in Raws, Reorderable, NEW S, S \subseteq Members
  PROVE  BytesOf(S) \in Nat
<1>1. IsFiniteSet(S)
  BY BytesType, FS_Subset
<1>2. \A i \in S : ByteSize[i] \in Nat
  BY BytesType
<1> QED
  BY <1>1, <1>2, SumNat DEF BytesOf

LEMMA BytesOfAdd ==
  ASSUME raw \in Raws, Reorderable, NEW S, S \subseteq Members, NEW i \in Members, i \notin S
  PROVE  BytesOf(S \cup {i}) = BytesOf(S) + Bytes(i)
<1>1. IsFiniteSet(S)
  BY BytesType, FS_Subset
<1>2. \A j \in S : ByteSize[j] \in Int
  BY BytesType
<1>3. ByteSize[i] = Bytes(i) /\ Bytes(i) \in Int
  BY BytesType
<1>4. SumFunctionOnSet(ByteSize, S \cup {i}) = SumFunctionOnSet(ByteSize, S) + ByteSize[i]
  BY <1>1, <1>2, <1>3, SumAdd
<1> QED
  BY <1>3, <1>4, Zenon DEF BytesOf

\* However they are ordered, distinct members end no earlier than their bytes allow.
LEMMA EndsBound ==
  ASSUME raw \in Raws, Reorderable, NEW f, NEW g, NEW m \in Nat, Ends(g, f, m),
         \A k \in 1..m : f[k] \in Members,
         \A k, l \in 1..m : f[k] = f[l] => k = l
  PROVE  g[m] \in Nat /\ BytesOf({f[l] : l \in 1..m}) <= g[m]
<1> DEFINE first(k) == {f[l] : l \in 1..k}
           Good(k) == g[k] \in Nat /\ BytesOf(first(k)) <= g[k]
           Bad == {k \in 0..m : ~ Good(k)}
<1>1. SUFFICES ASSUME Bad # {} PROVE FALSE
  <2>1. m \in 0..m
    OBVIOUS
  <2> QED
    BY <1>1, <2>1
<1>2. PICK k \in Bad : \A l \in Bad : k <= l
  <2>1. Bad \subseteq Nat
    OBVIOUS
  <2> HIDE DEF Bad
  <2> QED
    BY <1>1, <2>1, LeastNat
<1>3. Good(0)
  <2>1. 1..0 = {}
    OBVIOUS
  <2>2. first(0) = {}
    BY <2>1
  <2>3. BytesOf(first(0)) = 0
    BY <2>2, SumEmpty, Zenon DEF BytesOf
  <2> QED
    BY <2>3, EndsAt
<1>4. k \in 1..m /\ k - 1 \in 0..m /\ k - 1 \notin Bad /\ k \in Nat
  BY <1>2, <1>3, SMTT(30)
<1>5. g[k] = RoundUp(g[k - 1], Align(f[k])) + Bytes(f[k])
  BY <1>4, EndsAt
<1>6. g[k - 1] \in Nat /\ BytesOf(first(k - 1)) <= g[k - 1]
  BY <1>4
<1>7. f[k] \in Members /\ Align(f[k]) \in Nat \ {0} /\ Bytes(f[k]) \in Nat
  BY <1>4, BytesType
<1>8. RoundUp(g[k - 1], Align(f[k])) \in Nat /\ g[k - 1] <= RoundUp(g[k - 1], Align(f[k]))
  BY <1>6, <1>7, RoundUpGrows
<1>9. first(k) = first(k - 1) \cup {f[k]} /\ f[k] \notin first(k - 1) /\ first(k - 1) \subseteq Members
  <2>1. \A l : l \in 1..k <=> l \in 1..(k - 1) \/ l = k
    BY <1>4
  <2>2. \A l \in 1..(k - 1) : l \in 1..m /\ l # k
    BY <1>4
  <2> QED
    BY <1>4, <2>1, <2>2
<1> HIDE DEF first
<1>10. BytesOf(first(k - 1) \cup {f[k]}) = BytesOf(first(k - 1)) + Bytes(f[k])
  BY <1>7, <1>9, BytesOfAdd
<1>11. BytesOf(first(k)) = BytesOf(first(k - 1)) + Bytes(f[k])
  BY <1>9, <1>10, Zenon
<1>12. BytesOf(first(k - 1)) \in Nat
  BY <1>9, BytesOfNat
<1>13. Good(k)
  BY <1>5, <1>6, <1>7, <1>8, <1>11, <1>12
<1> QED
  BY <1>2, <1>13

\* One member at most is a flexible array, and it has no bytes.
LEMMA FlexibleUnique ==
  ASSUME raw \in Raws, Reorderable, NEW i \in Members, NEW j \in Members,
         IsFlexible(i), IsFlexible(j)
  PROVE  i = j /\ Bytes(i) = 0
<1>1. Before(i, j) /\ Before(j, i) /\ raw.entries[i].size = 0
  BY DEF IsFlexible
<1>2. Start(i) \in Int /\ Start(j) \in Int /\ i \in Int /\ j \in Int
  BY ReorderableType, PlacedType, LayoutAssumption
<1>3. Bytes(i) = 0
  BY <1>1, SMT DEF Bytes, DivCeil
<1> QED
  BY <1>1, <1>2, <1>3 DEF Before

\* An order of all members reaches each of them.
LEMMA OrderCovers ==
  ASSUME IsFiniteSet(Members), NEW f \in Orders
  PROVE  /\ Cardinality(Members) \in Nat
         /\ \A k \in 1..Cardinality(Members) : f[k] \in Members
         /\ {f[k] : k \in 1..Cardinality(Members)} = Members
<1> DEFINE n == Cardinality(Members)
           D == 1..n
<1>1. n \in Nat
  BY FS_CardinalityType
<1>2. f \in [D -> Members] /\ \A k, l \in D : f[k] = f[l] => k = l
  BY DEF Orders
<1>3. IsFiniteSet(D) /\ Cardinality(D) = n
  <2>1. IsFiniteSet(D) /\ Cardinality(D) = IF 1 > n THEN 0 ELSE n - 1 + 1
    BY <1>1, FS_Interval
  <2> QED
    BY <1>1, <2>1
<1> HIDE DEF D
<1>4. f \in Injection(D, Members)
  BY <1>2 DEF Injection, IsInjective
<1>5. f \in Surjection(D, Members)
  BY <1>3, <1>4, FS_Injection
<1>6. {f[k] : k \in D} = Members
  BY <1>2, <1>5 DEF Surjection
<1> QED
  BY <1>1, <1>2, <1>6 DEF D

\* What no order can go below: the bytes of all members, and behind them the alignment
\* of a flexible array.
LEMMA EveryOrderBound ==
  ASSUME raw \in Raws, Reorderable, NEW f \in Orders, NEW g, Ends(g, f, Cardinality(Members))
  PROVE  /\ g[Cardinality(Members)] \in Nat
         /\ BytesOf(Members) <= g[Cardinality(Members)]
         /\ \A e \in Members : IsFlexible(e) =>
               RoundUp(BytesOf(Members \ {e}), Align(e)) <= g[Cardinality(Members)]
<1> DEFINE n == Cardinality(Members)
<1>1. /\ n \in Nat /\ {f[k] : k \in 1..n} = Members
      /\ \A k \in 1..n : f[k] \in Members
  BY BytesType, OrderCovers
<1>2. /\ \A k, l \in 1..n : f[k] = f[l] => k = l
      /\ \A k \in 1..n : IsFlexible(f[k]) => k = n
  BY DEF Orders
<1> HIDE DEF n
<1>3. g[n] \in Nat /\ BytesOf({f[k] : k \in 1..n}) <= g[n]
  <2>1. Ends(g, f, n) /\ n \in Nat
    BY <1>1 DEF n
  <2>2. \A k \in 1..n : f[k] \in Members
    BY <1>1
  <2>3. \A k, l \in 1..n : f[k] = f[l] => k = l
    BY <1>2
  <2> QED
    BY <2>1, <2>2, <2>3, EndsBound
<1>4. BytesOf(Members) <= g[n]
  BY <1>1, <1>3
<1>5. ASSUME NEW e \in Members, IsFlexible(e)
      PROVE  RoundUp(BytesOf(Members \ {e}), Align(e)) <= g[n]
  <2> DEFINE m == n - 1
  <2>1. PICK k \in 1..n : f[k] = e
    BY <1>1
  <2>2. k = n /\ f[n] = e /\ n \in 1..n /\ m \in Nat /\ m <= n
    BY <1>1, <1>2, <1>5, <2>1
  <2>3. Bytes(e) = 0 /\ Align(e) \in Nat \ {0}
    BY <1>5, FlexibleUnique, BytesType
  <2>4. g[n] = RoundUp(g[m], Align(e)) + Bytes(e)
    <3>1. g[n] = RoundUp(g[m], Align(f[n])) + Bytes(f[n])
      BY <1>1, <2>2, EndsAt DEF n
    <3> QED
      BY <2>2, <3>1, Zenon
  <2>5. {f[l] : l \in 1..m} = Members \ {e}
    <3>1. \A l : l \in 1..n <=> l \in 1..m \/ l = n
      BY <1>1, <2>2
    <3>2. \A l \in 1..m : l # n
      BY <1>1, <2>2
    <3> QED
      BY <1>1, <1>2, <2>2, <3>1, <3>2
  <2>6. g[m] \in Nat /\ BytesOf({f[l] : l \in 1..m}) <= g[m]
    <3>1. \A l \in 1..m : l \in 1..n
      BY <1>1, <2>2
    <3>2. Ends([l \in 0..m |-> g[l]], f, m)
      <4> DEFINE h == [l \in 0..m |-> g[l]]
      <4>1. g[0] = 0 /\ \A l \in 1..n : g[l] = RoundUp(g[l - 1], Align(f[l])) + Bytes(f[l])
        BY <1>1, EndsAt DEF n
      <4>2. ASSUME NEW l \in 0..m
            PROVE  g[l] = IF l = 0 THEN 0 ELSE RoundUp(h[l - 1], Align(f[l])) + Bytes(f[l])
        <5>1. CASE l = 0
          BY <4>1, <5>1
        <5>2. CASE l # 0
          <6>1. l \in 1..n /\ l - 1 \in 0..m
            BY <1>1, <2>2, <5>2
          <6>2. h[l - 1] = g[l - 1]
            BY <6>1
          <6> QED
            BY <4>1, <5>2, <6>1, <6>2
        <5> QED
          BY <5>1, <5>2
      <4>3. h = [l \in 0..m |-> IF l = 0 THEN 0 ELSE RoundUp(h[l - 1], Align(f[l])) + Bytes(f[l])]
        BY <4>2
      <4> QED
        BY <4>3 DEF Ends
    <3> DEFINE h == [l \in 0..m |-> g[l]]
    <3>3. h[m] = g[m]
      BY <2>2
    <3> HIDE DEF h
    <3>4. \A l \in 1..m : f[l] \in Members
      BY <1>1, <3>1
    <3>5. \A l, r \in 1..m : f[l] = f[r] => l = r
      BY <1>2, <3>1
    <3>6. Ends(h, f, m)
      BY <3>2 DEF h
    <3>7. h[m] \in Nat /\ BytesOf({f[l] : l \in 1..m}) <= h[m]
      BY <2>2, <3>4, <3>5, <3>6, EndsBound, ZenonT(40)
    <3> QED
      BY <3>3, <3>7
  <2> HIDE DEF m
  <2>7. BytesOf(Members \ {e}) \in Nat
    BY BytesOfNat
  <2>8. BytesOf(Members \ {e}) <= g[m]
    BY <2>5, <2>6, Zenon
  <2>9. RoundUp(BytesOf(Members \ {e}), Align(e)) <= RoundUp(g[m], Align(e))
    BY <2>3, <2>6, <2>7, <2>8, RoundUpMonotone
  <2>10. RoundUp(g[m], Align(e)) \in Nat
    BY <2>3, <2>6, RoundUpGrows
  <2> QED
    BY <2>3, <2>4, <2>9, <2>10
<1> QED
  BY <1>3, <1>4, <1>5 DEF n

-----------------------------------------------------------------------------
(* The order that the lens lays the members out in.                        *)

\* What holds of the members laid out so far: they are an order of those taken, end at
\* the offset, and the offset is the sum of their bytes, rounded up once before a
\* flexible array, which is taken last.
OrderFacts(left, ord, off) ==
    /\ left \subseteq Members
    /\ ord \in Seq(Members) /\ off \in Nat
    /\ Len(ord) + Cardinality(left) = Cardinality(Members)
    /\ \A k \in 1..Len(ord) : ord[k] \notin left
    /\ \A k, l \in 1..Len(ord) : ord[k] = ord[l] => k = l
    /\ \A k \in 1..Len(ord) : IsFlexible(ord[k]) => k = Cardinality(Members)
    /\ \E g : Ends(g, ord, Len(ord)) /\ g[Len(ord)] = off
    /\ (\A e \in Members : IsFlexible(e) => e \in left) => off = BytesOf(Members \ left)
    /\ \A e \in Members : IsFlexible(e) /\ e \notin left =>
          left = {} /\ off = RoundUp(BytesOf(Members \ {e}), Align(e))

LEMMA OrderFactsInit ==
  ASSUME raw \in Raws, Reorderable
  PROVE  OrderFacts(Members, <<>>, 0)
<1>1. IsFiniteSet(Members) /\ Cardinality(Members) \in Nat
  BY BytesType
<1>2. <<>> \in Seq(Members) /\ Len(<<>>) = 0 /\ 1..0 = {}
  OBVIOUS
<1>3. \E g : Ends(g, <<>>, 0) /\ g[0] = 0
  BY EndsExist, EndsAt
<1>4. Members \ Members = {}
  OBVIOUS
<1>5. BytesOf(Members \ Members) = 0
  BY <1>4, SumEmpty, Zenon DEF BytesOf
<1> QED
  BY <1>1, <1>2, <1>3, <1>5 DEF OrderFacts

LEMMA OrderFactsStep ==
  ASSUME raw \in Raws, Reorderable, NEW left, NEW ord, NEW off, OrderFacts(left, ord, off),
         NEW i \in left, \A j \in left : PacksBefore(i, j),
         ~IsFlexible(i) => off % Align(i) = 0
  PROVE  OrderFacts(left \ {i}, Append(ord, i), RoundUp(off, Align(i)) + Bytes(i))
<1> DEFINE n    == Cardinality(Members)
           m    == Len(ord)
           ord2 == Append(ord, i)
           rest == left \ {i}
           off2 == RoundUp(off, Align(i)) + Bytes(i)
<1>1. /\ left \subseteq Members /\ i \in Members /\ ord \in Seq(Members) /\ off \in Nat
      /\ m \in Nat /\ m + Cardinality(left) = n
  BY DEF OrderFacts
<1>2. /\ IsFiniteSet(Members) /\ n \in Nat /\ IsFiniteSet(left)
      /\ Align(i) \in Nat \ {0} /\ Bytes(i) \in Nat
  BY <1>1, BytesType, FS_Subset
<1>3. /\ ord2 \in Seq(Members) /\ Len(ord2) = m + 1 /\ ord2[m + 1] = i
      /\ \A k \in 1..m : ord2[k] = ord[k]
  BY <1>1
<1>4. /\ IsFiniteSet(rest) /\ Cardinality(rest) \in Nat
      /\ m + 1 + Cardinality(rest) = n
  <2>1. IsFiniteSet(rest) /\ Cardinality(rest) = Cardinality(left) - 1
    BY <1>2, FS_RemoveElement
  <2>2. Cardinality(left) \in Nat /\ Cardinality(rest) \in Nat
    BY <1>2, <2>1, FS_CardinalityType
  <2> QED
    BY <1>1, <2>1, <2>2
<1>5. off2 \in Nat
  <2>1. RoundUp(off, Align(i)) \in Nat
    BY <1>1, <1>2, RoundUpGrows
  <2> QED
    BY <1>2, <2>1
<1>6. \A k \in 1..(m + 1) : k \in 1..m \/ k = m + 1
  BY <1>1
<1>7. \A k \in 1..m : ord[k] \notin left
  BY DEF OrderFacts
<1>8. \A k \in 1..(m + 1) : ord2[k] \notin rest
  BY <1>3, <1>6, <1>7
<1>9. \A k, l \in 1..(m + 1) : ord2[k] = ord2[l] => k = l
  <2>1. \A k, l \in 1..m : ord[k] = ord[l] => k = l
    BY DEF OrderFacts
  <2> QED
    BY <1>3, <1>6, <1>7, <2>1
\* A flexible array is taken when nothing else is left.
<1>10. ASSUME IsFlexible(i)
       PROVE  left = {i} /\ m + 1 = n
  <2>1. \A j \in left : IsFlexible(j)
    BY <1>10 DEF PacksBefore
  <2>2. left = {i}
    BY <1>1, <1>10, <2>1, FlexibleUnique
  <2>3. rest = {}
    BY <2>2
  <2>4. Cardinality(rest) = 0
    BY <2>3, FS_EmptySet, Zenon
  <2> QED
    BY <1>1, <1>2, <1>4, <2>2, <2>4
<1>11. \A k \in 1..(m + 1) : IsFlexible(ord2[k]) => k = n
  <2>1. \A k \in 1..m : IsFlexible(ord[k]) => k = n
    BY DEF OrderFacts
  <2> QED
    BY <1>3, <1>6, <1>10, <2>1
<1>12. \E g : Ends(g, ord2, m + 1) /\ g[m + 1] = off2
  <2>1. PICK g : Ends(g, ord, m) /\ g[m] = off
    BY DEF OrderFacts
  <2>2. PICK e : /\ Ends(e, ord2, m + 1)
                 /\ e[m + 1] = RoundUp(g[m], Align(ord2[m + 1])) + Bytes(ord2[m + 1])
    <3>1. m \in Nat /\ Ends(g, ord, m) /\ \A k \in 1..m : ord2[k] = ord[k]
      BY <1>1, <1>3, <2>1
    <3> HIDE DEF m, ord2
    <3> QED
      BY <3>1, EndsExtend, ZenonT(40)
  <2>3. e[m + 1] = off2
    BY <1>3, <2>1, <2>2, Zenon
  <2> QED
    BY <2>2, <2>3
<1>13. \A e \in Members : IsFlexible(e) => e \in left
  BY <1>1 DEF OrderFacts
<1>14. off = BytesOf(Members \ left)
  BY <1>13 DEF OrderFacts
<1>15. ASSUME \A e \in Members : IsFlexible(e) => e \in rest
       PROVE  off2 = BytesOf(Members \ rest)
  <2>1. ~IsFlexible(i)
    BY <1>1, <1>15
  <2>2. RoundUp(off, Align(i)) = off
    BY <1>1, <1>2, <2>1, AlignedStays
  <2>3. Members \ rest = (Members \ left) \cup {i} /\ i \notin Members \ left
    BY <1>1
  <2>4. BytesOf((Members \ left) \cup {i}) = BytesOf(Members \ left) + Bytes(i)
    BY <1>1, <2>3, BytesOfAdd
  <2>5. BytesOf(Members \ rest) = BytesOf(Members \ left) + Bytes(i)
    BY <2>3, <2>4, Zenon
  <2> QED
    BY <1>14, <2>2, <2>5
<1>16. ASSUME NEW e \in Members, IsFlexible(e), e \notin rest
       PROVE  rest = {} /\ off2 = RoundUp(BytesOf(Members \ {e}), Align(e))
  <2>1. e = i
    BY <1>13, <1>16
  <2>2. left = {i} /\ Bytes(i) = 0
    BY <1>1, <1>10, <1>16, <2>1, FlexibleUnique
  <2>3. off2 = RoundUp(off, Align(i))
    <3>1. RoundUp(off, Align(i)) \in Nat
      BY <1>1, <1>2, RoundUpGrows
    <3> QED
      BY <2>2, <3>1
  <2>4. off2 = RoundUp(BytesOf(Members \ {e}), Align(e))
    BY <1>14, <2>1, <2>2, <2>3, Zenon
  <2> QED
    BY <2>2, <2>4
<1>17. rest \subseteq Members
  BY <1>1
<1> HIDE DEF ord2, rest, off2, m, n
<1>18. OrderFacts(rest, ord2, off2)
  <2>1. Len(ord2) + Cardinality(rest) = Cardinality(Members)
    BY <1>3, <1>4 DEF n
  <2>2. \A k \in 1..Len(ord2) : ord2[k] \notin rest
    BY <1>3, <1>8, Zenon
  <2>3. \A k, l \in 1..Len(ord2) : ord2[k] = ord2[l] => k = l
    BY <1>3, <1>9, Zenon
  <2>4. \A k \in 1..Len(ord2) : IsFlexible(ord2[k]) => k = Cardinality(Members)
    BY <1>3, <1>11, Zenon DEF n
  <2>5. \E g : Ends(g, ord2, Len(ord2)) /\ g[Len(ord2)] = off2
    BY <1>3, <1>12, Zenon
  <2> QED
    BY <1>3, <1>5, <1>15, <1>16, <1>17, <2>1, <2>2, <2>3, <2>4, <2>5, Zenon DEF OrderFacts
<1> QED
  BY <1>18 DEF ord2, rest, off2

\* A member's place in the order, size and alignment are as fixed as the raw layout.
LEMMA SameFacts ==
  ASSUME raw' = raw, OrderFacts(pending', order', offset')
  PROVE  OrderFacts(pending, order, offset)'
<1>1. Members' = Members
  BY DEF Members
<1>2. \A i : IsFlexible(i)' = IsFlexible(i)
  BY <1>1 DEF IsFlexible, Before, Start
<1>3. \A i : Align(i)' = Align(i) /\ Bytes(i)' = Bytes(i)
  BY DEF Align, Bytes
<1>4. \A g, f, m : Ends(g, f, m)' = Ends(g, f, m)
  BY <1>3 DEF Ends
<1>5. ByteSize' = ByteSize
  BY <1>1, <1>3 DEF ByteSize
<1>6. \A S : BytesOf(S)' = BytesOf(S)
  BY <1>5 DEF BytesOf
<1> QED
  BY <1>1, <1>2, <1>3, <1>4, <1>6 DEF OrderFacts

Proposal ==
    LET newSize == RoundUp(offset, Alignment)
    IN IF newSize >= raw.bytes THEN None
       ELSE [order |-> order, newSize |-> newSize, saved |-> raw.bytes - newSize]

OrderInv ==
    /\ phase = "holes" => order = <<>> /\ offset = 0
    /\ phase # "holes" /\ Reorderable => OrderFacts(pending, order, offset)
    /\ phase = "done" /\ Reorderable => pending = {} /\ suggestion = Proposal

LEMMA OrderInvStep ==
  ASSUME TypeOK, PhaseInv, NoPaddingInserted, OrderInv, [Next]_vars
  PROVE  OrderInv'
<1>1. CASE WalkMember
  BY <1>1 DEF WalkMember, OrderInv
<1>2. CASE HolesFound
  <2>1. /\ raw' = raw /\ raw \in Raws /\ order' = <<>> /\ offset' = 0
        /\ phase' = IF Reorderable THEN "reorder" ELSE "done"
        /\ pending' = IF Reorderable THEN Members ELSE {}
    BY <1>2 DEF HolesFound, TypeOK, OrderInv
  <2>2. CASE Reorderable
    <3>1. OrderFacts(pending', order', offset')
      BY <2>1, <2>2, OrderFactsInit
    <3> QED
      BY <2>1, <2>2, <3>1, SameFacts DEF OrderInv
  <2>3. CASE ~Reorderable
    BY <2>1, <2>3, SameRaw DEF OrderInv
  <2> QED
    BY <2>2, <2>3
<1>3. CASE LayOutMember
  <2>1. PICK i \in pending :
           /\ \A j \in pending : PacksBefore(i, j)
           /\ pending' = pending \ {i}
           /\ offset' = RoundUp(offset, Align(i)) + Bytes(i)
           /\ order' = Append(order, i)
    BY <1>3 DEF LayOutMember
  <2>2. /\ raw' = raw /\ raw \in Raws /\ phase = "reorder" /\ phase' = "reorder" /\ Reorderable
    BY <1>3 DEF LayOutMember, TypeOK, PhaseInv
  <2>3. ~IsFlexible(i) => offset % Align(i) = 0
    BY <2>1, <2>2 DEF NoPaddingInserted
  <2>4. OrderFacts(pending, order, offset)
    BY <2>2 DEF OrderInv
  <2>5. OrderFacts(pending', order', offset')
    BY <2>1, <2>2, <2>3, <2>4, OrderFactsStep
  <2> QED
    BY <2>2, <2>5, SameFacts DEF OrderInv
<1>4. CASE Suggest
  <2>1. /\ raw' = raw /\ phase = "reorder" /\ phase' = "done" /\ pending = {} /\ Reorderable
        /\ UNCHANGED <<pending, offset, order>> /\ suggestion' = Proposal
    BY <1>4 DEF Suggest, PhaseInv, Proposal
  <2>2. OrderFacts(pending', order', offset')
    BY <2>1 DEF OrderInv
  <2>3. Proposal' = Proposal
    BY <2>1, SameRaw DEF Proposal
  <2> QED
    BY <2>1, <2>2, <2>3, SameFacts DEF OrderInv
<1>5. CASE UNCHANGED vars
  <2>1. /\ raw' = raw
        /\ UNCHANGED <<phase, pending, offset, order, suggestion>>
    BY <1>5 DEF vars
  <2>2. Proposal' = Proposal
    BY <2>1, SameRaw DEF Proposal
  <2>3. ASSUME phase # "holes", Reorderable
        PROVE  OrderFacts(pending, order, offset)'
    <3>1. OrderFacts(pending', order', offset')
      BY <2>1, <2>3 DEF OrderInv
    <3> QED
      BY <2>1, <3>1, SameFacts
  <2> QED
    BY <2>1, <2>2, <2>3, SameRaw DEF OrderInv
<1> QED
  BY <1>1, <1>2, <1>3, <1>4, <1>5 DEF Next, Done

\* Every order ends at the offset reached or behind it, and so does the type.
LEMMA OrderMinimal ==
  ASSUME TypeOK, OrderInv
  PROVE  ReorderMinimal
<1> SUFFICES ASSUME phase = "done", Reorderable
             PROVE  IF suggestion = None THEN \A f \in Orders : raw.bytes <= PackedSize(f)
                    ELSE /\ suggestion.order \in Orders
                         /\ PackedSize(suggestion.order) = suggestion.newSize
                         /\ \A f \in Orders : suggestion.newSize <= PackedSize(f)
  BY DEF ReorderMinimal
<1> DEFINE n == Cardinality(Members)
           newSize == RoundUp(offset, Alignment)
<1>1. /\ raw \in Raws /\ pending = {} /\ suggestion = Proposal
      /\ OrderFacts({}, order, offset) /\ offset \in Nat
  BY DEF OrderInv, TypeOK
<1>2. IsFiniteSet(Members) /\ n \in Nat
  BY <1>1, BytesType
<1>3. Alignment \in Nat \ {0}
  BY <1>1, ReorderableType, LayoutAssumption
<1>4. newSize \in Nat /\ raw.bytes \in Nat
  BY <1>1, <1>3, RoundUpGrows, RawType DEF IsRaw
<1>5. ASSUME NEW f \in Orders
      PROVE  newSize <= PackedSize(f) /\ PackedSize(f) \in Nat
  <2>1. PICK g : Ends(g, f, n)
    BY <1>2, EndsExist
  <2>2. /\ g[n] \in Nat /\ BytesOf(Members) <= g[n]
        /\ \A e \in Members : IsFlexible(e) => RoundUp(BytesOf(Members \ {e}), Align(e)) <= g[n]
    BY <1>1, <2>1, EveryOrderBound
  <2>3. offset <= g[n]
    <3>1. CASE \E e \in Members : IsFlexible(e)
      BY <1>1, <2>2, <3>1 DEF OrderFacts
    <3>2. CASE ~ \E e \in Members : IsFlexible(e)
      <4>1. offset = BytesOf(Members \ {})
        BY <1>1, <3>2 DEF OrderFacts
      <4>2. Members \ {} = Members
        OBVIOUS
      <4>3. offset = BytesOf(Members)
        BY <4>1, <4>2, Zenon
      <4> QED
        BY <2>2, <4>3
    <3> QED
      BY <3>1, <3>2
  <2>4. PackedSize(f) = RoundUp(g[n], Alignment)
    BY <1>2, <2>1, PackedSizeIs
  <2>5. RoundUp(offset, Alignment) <= RoundUp(g[n], Alignment) /\ RoundUp(g[n], Alignment) \in Nat
    BY <1>1, <1>3, <2>2, <2>3, RoundUpMonotone, RoundUpGrows
  <2> QED
    BY <2>4, <2>5
<1>6. order \in Orders /\ PackedSize(order) = newSize
  <2>1. Len(order) = n /\ order \in Seq(Members)
    <3>1. Len(order) + Cardinality({}) = n /\ order \in Seq(Members)
      BY <1>1 DEF OrderFacts
    <3>2. Cardinality({}) = 0
      BY FS_EmptySet
    <3> QED
      BY <3>1, <3>2
  <2>2. order \in [1..n -> Members] /\ DOMAIN order = 1..n
    BY <2>1
  <2>3. /\ \A k, l \in 1..n : order[k] = order[l] => k = l
        /\ \A k \in 1..n : IsFlexible(order[k]) => k = n
    BY <1>1, <2>1 DEF OrderFacts
  <2>4. order \in Orders
    BY <2>2, <2>3 DEF Orders
  <2>5. PICK g : Ends(g, order, n) /\ g[n] = offset
    BY <1>1, <2>1 DEF OrderFacts
  <2>6. PackedSize(order) = RoundUp(g[n], Alignment)
    BY <1>2, <2>5, PackedSizeIs
  <2> QED
    BY <2>4, <2>5, <2>6, Zenon
<1> HIDE DEF newSize
<1>7. CASE newSize >= raw.bytes
  <2>1. suggestion = None
    BY <1>1, <1>7 DEF Proposal, newSize
  <2>2. \A f \in Orders : raw.bytes <= PackedSize(f)
    BY <1>4, <1>5, <1>7
  <2> QED
    BY <2>1, <2>2
<1>8. CASE ~(newSize >= raw.bytes)
  <2>1. suggestion = [order |-> order, newSize |-> newSize, saved |-> raw.bytes - newSize]
    BY <1>1, <1>8 DEF Proposal, newSize
  <2>2. suggestion.order = order /\ suggestion.newSize = newSize
    BY <2>1
  <2>3. /\ suggestion.order \in Orders
        /\ PackedSize(suggestion.order) = suggestion.newSize
        /\ \A f \in Orders : suggestion.newSize <= PackedSize(f)
    BY <1>5, <1>6, <2>2, Zenon
  <2>4. suggestion # None
    <3>1. order \in Seq(Nat)
      BY <1>1, MembersFinite DEF OrderFacts
    <3>2. raw.bytes - newSize \in Nat
      BY <1>4, <1>8
    <3> QED
      BY <1>4, <2>1, <3>1, <3>2, LayoutAssumption
  <2> QED
    BY <2>3, <2>4
<1> QED
  BY <1>7, <1>8

\* The order that the lens proposes is an order of all members that leaves a flexible
\* array last, packs into the size announced, and no order packs into less: the claim of
\* docs/05-correlation.md section 2.8, for members in any number and of any size.
THEOREM LayoutReorderMinimal == Spec => []ReorderMinimal
<1>1. Init => OrderInv
  BY DEF Init, OrderInv
<1>2. TypeOK /\ PhaseInv /\ NoPaddingInserted /\ OrderInv /\ [Next]_vars => OrderInv'
  BY OrderInvStep
<1>3. Init => TypeOK /\ PhaseInv
  BY TypeInit
<1>4. TypeOK /\ PhaseInv /\ [Next]_vars => (TypeOK /\ PhaseInv)'
  BY TypeStep, PhaseStep
<1>5. TypeOK /\ OrderInv => ReorderMinimal
  BY OrderMinimal
<1> QED
  BY <1>1, <1>2, <1>3, <1>4, <1>5, LayoutInsertsNoPadding, PTL DEF Spec
=============================================================================
