--------------------------- MODULE SummaryProofs ---------------------------
(***************************************************************************)
(* Session::summary for every image and every answer of the debug readers. *)
(* First the attribution of bytes: the numbers stay in range, each byte of *)
(* the universe is attributed exactly once, overlapping sections and       *)
(* symbols are resolved in the order of the claims, and rows add up.  Then *)
(* the summary as a whole: all this carries over to the symbols that the   *)
(* table hands to the attribution, sizes only ever gain evidence, and a    *)
(* guessed size takes no bytes from a symbol that starts elsewhere.        *)
(***************************************************************************)
EXTENDS Summary, Sums

-----------------------------------------------------------------------------
(* Extreme elements of sets of addresses.                                  *)
LEMMA GreatestOf ==
    ASSUME NEW bound \in Nat, NEW S, S \subseteq 0..bound, S # {}
    PROVE  \E m \in S : \A n \in S : n <= m
  <1> DEFINE distances == {bound - n : n \in S}
  <1>1. PICK d \in distances : \A e \in distances : d <= e
    <2>1. distances \subseteq Nat /\ distances # {}
      <3>1. distances \subseteq Nat
        OBVIOUS
      <3>2. distances # {}
        OBVIOUS
      <3>3. QED
        BY <3>1, <3>2
    <2> HIDE DEF distances
    <2>2. QED
      BY <2>1, LeastNat
  <1>2. PICK m \in S : d = bound - m
    OBVIOUS
  <1>3. ASSUME NEW n \in S PROVE n <= m
    <2>1. bound - n \in distances
      OBVIOUS
    <2>2. bound - m <= bound - n
      BY <1>1, <1>2, <2>1
    <2>3. m \in Nat /\ n \in Nat
      OBVIOUS
    <2>4. QED
      BY <2>2, <2>3
  <1>4. QED
    BY <1>3

LEMMA AddressFacts == Addresses \subseteq Nat /\ \A a \in Addresses : a <= MaxAddress
  BY InputAssumption DEF Addresses

(* The numbers of the headers, once saturated, are addresses.              *)
LEMMA SaturateFacts ==
    ASSUME NEW n \in Nat
    PROVE  /\ Saturate(n) \in Addresses
           /\ Saturate(n) <= n
           /\ n <= MaxAddress => Saturate(n) = n
           /\ n > MaxAddress => Saturate(n) = MaxAddress
  BY InputAssumption DEF Saturate, Smaller, Addresses

LEMMA LargerFacts ==
    ASSUME NEW m \in Int, NEW n \in Int
    PROVE  /\ Larger(m, n) >= m /\ Larger(m, n) >= n
           /\ Larger(m, n) = m \/ Larger(m, n) = n
  BY DEF Larger

LEMMA LargerAddress ==
    ASSUME NEW m \in Addresses, NEW n \in Addresses
    PROVE  /\ Larger(m, n) \in Addresses
           /\ m <= Larger(m, n) /\ n <= Larger(m, n)
           /\ Larger(m, n) = m \/ Larger(m, n) = n
  BY AddressFacts DEF Larger

LEMMA SmallerFacts ==
    ASSUME NEW m \in Int, NEW n \in Int
    PROVE  /\ Smaller(m, n) <= m /\ Smaller(m, n) <= n
           /\ Smaller(m, n) = m \/ Smaller(m, n) = n
  BY DEF Smaller

LEMMA BoundsFacts ==
    ASSUME NEW thing, thing.extent \in Extents, NEW where \in Spaces, Occupies(thing, where)
    PROVE  /\ thing.extent[where] \in Ranges
           /\ Bounds(thing, where) \in [from : Addresses, to : Addresses]
           /\ Bounds(thing, where).from = thing.extent[where].start
           /\ \/ Bounds(thing, where).from < Bounds(thing, where).to
              \/ /\ Bounds(thing, where).from = MaxAddress
                 /\ Bounds(thing, where).to = MaxAddress
  <1>1. thing.extent[where] \in Ranges /\ thing.extent[where].size > 0
    BY DEF Extents, Occupies
  <1> DEFINE start == thing.extent[where].start
             size  == thing.extent[where].size
  <1>2. start \in Addresses /\ size \in Addresses /\ size > 0
    BY <1>1 DEF Ranges
  <1>3. End(thing.extent[where]) = Saturate(start + size)
    BY DEF End
  <1>4. start \in Nat /\ size \in Nat /\ start <= MaxAddress /\ start + size \in Nat
    BY <1>2, InputAssumption DEF Addresses
  <1>5. /\ Saturate(start + size) \in Addresses
        /\ \/ start < Saturate(start + size)
           \/ start = MaxAddress /\ Saturate(start + size) = MaxAddress
    <2> HIDE DEF start, size
    <2>1. QED
      BY <1>2, <1>4, SaturateFacts, InputAssumption DEF Addresses
  <1>6. Bounds(thing, where) = [from |-> start, to |-> Saturate(start + size)]
    BY <1>3 DEF Bounds
  <1>7. QED
    BY <1>1, <1>2, <1>5, <1>6

LEMMA OwnerSection ==
    ASSUME NEW image, IsInput(image), NEW symbol \in Owners(image)
    PROVE  /\ SectionOf(image, symbol) \in SectionsOf(image, symbol)
           /\ \A j \in SectionsOf(image, symbol) : SectionOf(image, symbol) <= j
  <1>1. SectionsOf(image, symbol) # {}
    BY DEF Owners
  <1>2. SectionsOf(image, symbol) \subseteq Nat
    BY DEF SectionsOf, IsInput
  <1>3. \E i \in SectionsOf(image, symbol) : \A j \in SectionsOf(image, symbol) : i <= j
    BY <1>1, <1>2, LeastNat
  <1>4. QED
    BY <1>3 DEF SectionOf

(* A group is a symbol's place in a section that is mapped there.          *)
LEMMA GroupFacts ==
    ASSUME NEW image, IsInput(image), NEW group \in Groups(image)
    PROVE  /\ group \in Groupings
           /\ group.section \in DOMAIN image.sections
           /\ image.sections[group.section].extent["vm"] \in Ranges
           /\ image.sections[group.section].extent["vm"].start <= group.address
  <1>1. PICK symbol \in Owners(image) : group = GroupKey(image, symbol)
    BY DEF Groups
  <1>2. /\ symbol.address \in Addresses /\ symbol.size \in Addresses
        /\ SectionsOf(image, symbol) # {}
    BY DEF Owners, IsInput
  <1>3. SectionsOf(image, symbol) \subseteq DOMAIN image.sections /\ DOMAIN image.sections \subseteq Nat
    BY DEF SectionsOf, IsInput
  <1>4. SectionOf(image, symbol) \in SectionsOf(image, symbol)
    BY OwnerSection
  <1> DEFINE i  == SectionOf(image, symbol)
             vm == image.sections[i].extent["vm"]
  <1>5. i \in DOMAIN image.sections /\ vm # NoRange /\ Contains(vm, symbol.address)
    BY <1>4 DEF SectionsOf
  <1>6. vm \in Ranges
    BY <1>5 DEF IsInput, Extents, Spaces
  <1>7. vm.start <= symbol.address
    BY <1>5 DEF Contains
  <1>8. group.section = i /\ group.address = symbol.address /\ group.size = symbol.size
    BY <1>1 DEF GroupKey
  <1>9. group \in Groupings
    BY <1>1, <1>2, <1>3, <1>5, InputAssumption DEF GroupKey, Groupings, Addresses
  <1>10. QED
    BY <1>5, <1>6, <1>7, <1>8, <1>9

\* Where a group starts in a section.
LEMMA PlaceFacts ==
    ASSUME IsInput(input), space \in Spaces, NEW group \in Groups(input), NEW piece,
           piece.section = group.section, piece.section \in SectionIndices
    PROVE  /\ GroupFrom(group, piece) \in Nat
           /\ GroupFrom(group, piece) = Section(piece.section).extent[space].start
                                         + (group.address - Section(piece.section).extent["vm"].start)
           /\ Section(piece.section).extent[space].start \in Nat
           /\ Section(piece.section).extent["vm"].start \in Nat
           /\ group.address \in Nat /\ group.size \in Nat
           /\ Section(piece.section).extent["vm"].start <= group.address
  <1> DEFINE here == Section(piece.section).extent[space].start
             vm   == Section(piece.section).extent["vm"].start
  <1>1. here \in Nat
    <2>1. Section(piece.section).extent \in Extents /\ Occupies(Section(piece.section), space)
      BY DEF IsInput, SectionIndices, Section
    <2>2. Section(piece.section).extent[space] \in Ranges
      BY <2>1, BoundsFacts
    <2>3. QED
      BY <2>2, InputAssumption DEF Ranges, Addresses
  <1>2. vm \in Nat /\ group.address \in Nat /\ group.size \in Nat /\ vm <= group.address
    BY GroupFacts, InputAssumption DEF Section, Groupings, Ranges, Addresses
  <1>3. GroupFrom(group, piece) = here + (group.address - vm)
    BY DEF GroupFrom
  <1> HIDE DEF here, vm
  <1>4. GroupFrom(group, piece) \in Nat
    BY <1>1, <1>2, <1>3
  <1>5. QED
    BY <1>1, <1>2, <1>3, <1>4 DEF here, vm

(* The groups of a span lie within it and are not empty.                   *)
LEMMA MemberFacts ==
    ASSUME IsInput(input), space \in Spaces,
           NEW piece, piece.section \in SectionIndices,
           piece.from \in Addresses, piece.to \in Addresses,
           NEW member \in Members(piece)
    PROVE  /\ member.from \in Addresses /\ member.to \in Addresses
           /\ piece.from <= member.from /\ member.from < member.to /\ member.to <= piece.to
           /\ member.group \in Groups(input)
  <1>1. PICK group \in Groups(input) : /\ group.section = piece.section
                                       /\ member = Member(group, piece)
                                       /\ member.from < member.to
    BY DEF Members
  <1> DEFINE from == GroupFrom(group, piece)
  <1>5. from \in Nat /\ from + group.size \in Nat
    <2>1. from \in Nat /\ group.size \in Nat
      BY <1>1, PlaceFacts
    <2> HIDE DEF from
    <2>2. QED
      BY <2>1
  <1>6. /\ member.from = Larger(from, piece.from)
        /\ member.to = Smaller(Saturate(from + group.size), piece.to)
        /\ member.group = group
    BY <1>1 DEF Member
  <1> HIDE DEF from
  <1>7. piece.from \in Nat /\ piece.to \in Nat /\ Saturate(from + group.size) \in Nat
    BY <1>5, SaturateFacts, InputAssumption DEF Addresses
  <1>8. /\ member.from \in Nat /\ member.to \in Nat
        /\ piece.from <= member.from /\ member.to <= piece.to
    BY <1>5, <1>6, <1>7, LargerFacts, SmallerFacts
  <1>9. QED
    BY <1>1, <1>6, <1>8, InputAssumption DEF Addresses

-----------------------------------------------------------------------------
(* What the sweeps walk over.                                              *)
LEMMA ClaimFacts ==
    ASSUME IsInput(input), space \in Spaces, NEW claim \in Claims
    PROVE  /\ claim.from \in Addresses /\ claim.to \in Addresses
           /\ claim.section \in SectionIndices /\ claim = Claim(claim.section)
           /\ claim.from < claim.to \/ (claim.from = MaxAddress /\ claim.to = MaxAddress)
           /\ claim.from < claim.to => [from |-> claim.from, to |-> claim.to] \in UniverseRanges
  <1>1. PICK i \in SectionIndices : claim = Claim(i)
    BY DEF Claims
  <1>2. /\ Bounds(Section(i), space) \in [from : Addresses, to : Addresses]
        /\ \/ Bounds(Section(i), space).from < Bounds(Section(i), space).to
           \/ /\ Bounds(Section(i), space).from = MaxAddress
              /\ Bounds(Section(i), space).to = MaxAddress
    BY BoundsFacts DEF IsInput, SectionIndices, Section
  <1>3. /\ claim.from = Bounds(Section(i), space).from
        /\ claim.to = Bounds(Section(i), space).to
        /\ claim.section = i
    BY <1>1 DEF Claim
  <1>4. claim.from < claim.to => Bounds(Section(i), space) \in UniverseRanges
    BY <1>3 DEF UniverseRanges
  <1>5. Bounds(Section(i), space) = [from |-> claim.from, to |-> claim.to]
    BY <1>2, <1>3
  <1>6. QED
    BY <1>1, <1>2, <1>3, <1>4, <1>5

LEMMA UniverseFacts ==
    ASSUME IsInput(input), space \in Spaces, NEW range \in UniverseRanges
    PROVE  /\ range \in [from : Addresses, to : Addresses]
           /\ range.from < range.to
  <1>1. CASE \E k \in Segments : range = Bounds(input.segments[k], space)
    BY <1>1, BoundsFacts DEF IsInput, Segments, UniverseRanges
  <1>2. CASE \E i \in SectionIndices : range = Bounds(Section(i), space)
    BY <1>2, BoundsFacts DEF IsInput, SectionIndices, Section, UniverseRanges
  <1>3. CASE range = [from |-> 0, to |-> input.fileSize]
    BY <1>3, InputAssumption DEF IsInput, UniverseRanges, Addresses
  <1>4. QED
    BY <1>1, <1>2, <1>3 DEF UniverseRanges

-----------------------------------------------------------------------------
(* Spans that tile a set of bytes: each byte of it is in exactly one span. *)
Covered(S)         == {x \in Addresses : \E s \in S : Covers(s, x)}
Interval(from, to) == {x \in Addresses : from <= x /\ x < to}

Tiles(S, bytes) ==
    /\ Covered(S) = bytes
    /\ \A s, t \in S : \A x \in Addresses : Covers(s, x) /\ Covers(t, x) => s = t

LEMMA TilesMore ==
    ASSUME NEW S, NEW B, NEW T, NEW C, Tiles(S, B), Tiles(T, C), B \cap C = {}
    PROVE  Tiles(S \cup T, B \cup C)
  <1>1. Covered(S \cup T) = B \cup C
    BY DEF Tiles, Covered
  <1>2. ASSUME NEW s \in S \cup T, NEW t \in S \cup T, NEW x \in Addresses,
               Covers(s, x), Covers(t, x)
        PROVE  s = t
    <2>1. \A r \in S : Covers(r, x) => x \in B
      BY DEF Tiles, Covered
    <2>2. \A r \in T : Covers(r, x) => x \in C
      BY DEF Tiles, Covered
    <2>3. ~(x \in B /\ x \in C)
      OBVIOUS
    <2>4. CASE s \in S /\ t \in S
      BY <1>2, <2>4 DEF Tiles
    <2>5. CASE s \in T /\ t \in T
      BY <1>2, <2>5 DEF Tiles
    <2>6. QED
      BY <1>2, <2>1, <2>2, <2>3, <2>4, <2>5
  <1>3. QED
    BY <1>1, <1>2 DEF Tiles

LEMMA TilesNonEmpty ==
    ASSUME NEW from \in Addresses, NEW to \in Addresses, NEW owner
    PROVE  Tiles(NonEmpty(from, to, owner), Interval(from, to))
  <1>1. from \in Nat /\ to \in Nat /\ Addresses \subseteq Nat
    BY AddressFacts
  <1>2. CASE from < to
    <2>1. /\ NonEmpty(from, to, owner) = {Span(from, to, owner)}
          /\ Span(from, to, owner).from = from /\ Span(from, to, owner).to = to
      BY <1>2 DEF NonEmpty, Span
    <2>2. QED
      BY <2>1 DEF Tiles, Interval, Covered, Covers
  <1>3. CASE ~(from < to)
    <2>1. NonEmpty(from, to, owner) = {}
      BY <1>3 DEF NonEmpty
    <2>2. \A x \in Addresses : ~(from <= x /\ x < to)
      BY <1>1, <1>3
    <2>3. QED
      BY <2>1, <2>2 DEF Tiles, Covered, Interval
  <1>4. QED
    BY <1>2, <1>3

LEMMA CutsFacts ==
    ASSUME IsInput(input), space \in Spaces, NEW gapFrom \in Addresses, NEW gapTo \in Addresses
    PROVE  Cuts(gapFrom, gapTo) \subseteq Addresses
  <1>1. HeadersEnd(gapFrom) \subseteq Addresses
    <2>1. input.headersSize \in Addresses /\ gapFrom + input.headersSize \in Nat
      BY InputAssumption DEF IsInput, Addresses
    <2>2. QED
      BY <2>1, SaturateFacts DEF HeadersEnd
  <1>2. \A k \in NamedEmpty : Bounds(input.segments[k], space) \in [from : Addresses, to : Addresses]
    BY BoundsFacts DEF NamedEmpty, Segments, IsInput
  <1>3. QED
    BY <1>1, <1>2 DEF Cuts

(* The windows between neighbouring cuts tile the gap.                     *)
LEMMA GapSpansTile ==
    ASSUME IsInput(input), space \in Spaces, NEW gapFrom \in Addresses, NEW gapTo \in Addresses
    PROVE  /\ Tiles(GapSpans(gapFrom, gapTo), Interval(gapFrom, gapTo))
           /\ \A span \in GapSpans(gapFrom, gapTo) :
                 /\ span.from \in Addresses /\ span.to \in Addresses /\ span.from < span.to
                 /\ \E from, to : span.owner = GapName(from, to, gapFrom)
  <1> DEFINE cuts    == Cuts(gapFrom, gapTo)
             windows == {v \in cuts \X cuts : /\ gapFrom < gapTo /\ v[1] < v[2]
                                              /\ ~\E cut \in cuts : v[1] < cut /\ cut < v[2]}
             SpanOf(w) == Span(w[1], w[2], GapName(w[1], w[2], gapFrom))
  <1>1. GapSpans(gapFrom, gapTo) = {SpanOf(w) : w \in windows}
    BY DEF GapSpans
  <1>2. /\ cuts \subseteq 0..MaxAddress /\ gapFrom \in cuts /\ gapTo \in cuts
        /\ gapFrom < gapTo => \A cut \in cuts : gapFrom <= cut /\ cut <= gapTo
    <2>1. cuts \subseteq Addresses
      BY CutsFacts
    <2>2. QED
      BY <2>1, InputAssumption DEF Cuts, Addresses
  <1> HIDE DEF cuts
  <1>3. ASSUME NEW w \in windows
        PROVE  /\ SpanOf(w).from = w[1] /\ SpanOf(w).to = w[2]
               /\ w[1] \in Addresses /\ w[2] \in Addresses
               /\ gapFrom <= w[1] /\ w[1] < w[2] /\ w[2] <= gapTo
               /\ SpanOf(w).owner = GapName(w[1], w[2], gapFrom)
    BY <1>2 DEF Span, Addresses
  <1>4. ASSUME NEW w \in windows, NEW v \in windows, NEW x \in Addresses,
               Covers(SpanOf(w), x), Covers(SpanOf(v), x)
        PROVE  w = v
    <2>1. w[1] <= x /\ x < w[2] /\ v[1] <= x /\ x < v[2]
      BY <1>3, <1>4 DEF Covers
    <2>2. w[1] \in Nat /\ w[2] \in Nat /\ v[1] \in Nat /\ v[2] \in Nat /\ x \in Nat
      BY <1>3, AddressFacts
    <2>3. ~(w[1] < v[1]) /\ ~(v[1] < w[1])
      <3>1. v[1] \in cuts /\ w[1] \in cuts
        OBVIOUS
      <3>2. QED
        BY <2>1, <2>2, <3>1
    <2>4. ~(w[2] < v[2]) /\ ~(v[2] < w[2])
      <3>1. v[2] \in cuts /\ w[2] \in cuts
        OBVIOUS
      <3>2. QED
        BY <2>1, <2>2, <3>1
    <2>5. w[1] = v[1] /\ w[2] = v[2]
      BY <2>2, <2>3, <2>4
    <2>6. w = <<w[1], w[2]>> /\ v = <<v[1], v[2]>>
      OBVIOUS
    <2>7. QED
      BY <2>5, <2>6
  <1>5. ASSUME NEW x \in Interval(gapFrom, gapTo)
        PROVE  \E w \in windows : Covers(SpanOf(w), x)
    <2>1. x \in Nat /\ gapFrom \in Nat /\ gapTo \in Nat /\ gapFrom <= x /\ x < gapTo
      BY InputAssumption DEF Interval, Addresses
    <2>2. PICK low \in {cut \in cuts : cut <= x} : \A cut \in {cut \in cuts : cut <= x} : cut <= low
      <3>1. {cut \in cuts : cut <= x} \subseteq 0..MaxAddress /\ gapFrom \in {cut \in cuts : cut <= x}
        BY <1>2, <2>1
      <3>2. {cut \in cuts : cut <= x} # {}
        BY <3>1
      <3>3. QED
        BY <3>1, <3>2, GreatestOf, InputAssumption
    <2>3. PICK high \in {cut \in cuts : x < cut} : \A cut \in {cut \in cuts : x < cut} : high <= cut
      <3>1. cuts \subseteq Nat /\ gapTo \in {cut \in cuts : x < cut}
        BY <1>2, <2>1
      <3>2. {cut \in cuts : x < cut} # {}
        BY <3>1
      <3>3. QED
        BY <3>1, <3>2, LeastNat
    <2>4. low \in Nat /\ high \in Nat /\ low <= x /\ x < high /\ low \in cuts /\ high \in cuts
      BY <1>2
    <2>5. ASSUME NEW cut \in cuts, low < cut, cut < high PROVE FALSE
      <3>1. cut \in Nat
        BY <1>2
      <3>2. cut <= x \/ x < cut
        BY <2>1, <3>1
      <3>3. QED
        BY <2>2, <2>3, <2>4, <2>5, <3>1, <3>2
    <2>6. <<low, high>> \in windows
      BY <2>1, <2>4, <2>5
    <2>7. Covers(SpanOf(<<low, high>>), x)
      BY <2>4, <1>3, <2>6 DEF Covers
    <2>8. QED
      BY <2>6, <2>7
  <1>6. Covered(GapSpans(gapFrom, gapTo)) = Interval(gapFrom, gapTo)
    <2>1. ASSUME NEW x \in Addresses, NEW w \in windows, Covers(SpanOf(w), x)
          PROVE  x \in Interval(gapFrom, gapTo)
      <3>1. w[1] \in Nat /\ w[2] \in Nat /\ x \in Nat /\ gapFrom \in Nat /\ gapTo \in Nat
        BY <1>3, AddressFacts
      <3>2. w[1] <= x /\ x < w[2] /\ gapFrom <= w[1] /\ w[2] <= gapTo
        BY <1>3, <2>1 DEF Covers
      <3>3. QED
        BY <3>1, <3>2 DEF Interval
    <2> HIDE DEF windows, SpanOf
    <2>2. QED
      BY <1>1, <1>5, <2>1 DEF Covered, Interval
  <1>7. QED
    <2>1. \A w \in windows : /\ SpanOf(w).from \in Addresses /\ SpanOf(w).to \in Addresses
                             /\ SpanOf(w).from < SpanOf(w).to
                             /\ SpanOf(w).owner = GapName(w[1], w[2], gapFrom)
      BY <1>3
    <2> HIDE DEF windows, SpanOf
    <2>2. QED
      BY <1>1, <1>4, <1>6, <2>1 DEF Tiles

-----------------------------------------------------------------------------
(* Types, and which of the loops' variables mean something in which phase. *)
OwnerTypes == [what : {"symbol", "noSymbol", "segment", "[headers]", "[alignment]", "[non-section]"},
               of : Groupings]

VarTypes ==
    /\ IsInput(input) /\ space \in Spaces
    /\ phase \in {"merge", "claim", "symbols", "gaps", "done"}
    /\ universe \subseteq [from : Addresses, to : Addresses]
    /\ owned \subseteq [from : Addresses, to : Addresses, section : SectionIndices]
    /\ claimedEnd \in Addresses
    /\ claimedBy \in SectionIndices \cup {0}
    /\ cursor \in Addresses
    /\ lastOwner \in Groups(input) \cup {NoGroup}

NothingEmpty ==
    /\ \A range \in universe : range.from < range.to
    /\ \A piece \in owned : piece.from < piece.to

SpanTypes ==
    \A span \in spans :
        /\ span.from \in Addresses /\ span.to \in Addresses /\ span.from < span.to
        /\ span.owner \in OwnerTypes

\* The current span of the gaps' loop.
Entered(range) == [from |-> range.from, to |-> range.to, section |-> 0]

Merging ==
    phase = "merge" => /\ pending \subseteq UniverseRanges
                       /\ owned = {} /\ claimedEnd = 0 /\ claimedBy = 0
Claiming == phase = "claim" => pending \subseteq Claims
Unattributed ==
    phase \in {"merge", "claim"} => todo = {} /\ spans = {} /\ current = NoSpan
Attributing ==
    phase = "symbols" =>
        /\ todo \subseteq owned
        /\ current = NoSpan => pending = {}
        /\ current # NoSpan => /\ current \in owned \ todo
                               /\ pending \subseteq Members(current)
                               /\ current.from <= cursor /\ cursor <= current.to
Naming ==
    phase = "gaps" =>
        /\ todo \subseteq universe /\ pending \subseteq owned
        /\ current = NoSpan => pending = {}
        /\ current # NoSpan => \E range \in universe \ todo : current = Entered(range)
Finished == phase = "done" => todo = {} /\ current = NoSpan

Phases  == Merging /\ Claiming /\ Unattributed /\ Attributing /\ Naming /\ Finished
TypeInv == VarTypes /\ NothingEmpty /\ SpanTypes /\ Phases

LEMMA NextFixes ==
    ASSUME [Next]_vars
    PROVE  input' = input /\ space' = space
  BY DEF Next, vars, MergeRange, UniverseMerged, ClaimSection, SectionsClaimed, EnterPiece,
         AttributeSymbol, LeavePiece, SymbolsAttributed, EnterRange, SkipPiece, LeaveRange,
         GapsNamed, Attributed

\* What depends on the image and the space only.
LEMMA FixedFacts ==
    ASSUME input' = input, space' = space
    PROVE  /\ UniverseRanges' = UniverseRanges
           /\ SectionIndices' = SectionIndices
           /\ Claims' = Claims
           /\ Groups(input)' = Groups(input)
           /\ \A i : Claim(i)' = Claim(i)
           /\ \A piece : Members(piece)' = Members(piece)
  <1>1. UniverseRanges' = UniverseRanges
    BY DEF UniverseRanges, Segments, SectionIndices, Section, Reserved
  <1>2. SectionIndices' = SectionIndices
    BY DEF SectionIndices, Section
  <1>3. \A i : Claim(i)' = Claim(i)
    BY DEF Claim, Section
  <1>4. Claims' = Claims
    BY <1>2, <1>3 DEF Claims
  <1>5. \A piece : Members(piece)' = Members(piece)
    BY DEF Members, Member, GroupFrom, Section
  <1>6. QED
    BY <1>1, <1>2, <1>3, <1>4, <1>5

LEMMA InputFacts ==
    ASSUME VarTypes
    PROVE  IsInput(input) /\ space \in Spaces /\ MaxAddress \in Nat /\ SectionIndices \subseteq Nat \ {0}
  BY InputAssumption DEF VarTypes, IsInput, SectionIndices

LEMMA MergeTypes ==
    ASSUME TypeInv, [Next]_vars,
           (\E range \in pending : MergeRange(range)) \/ UniverseMerged
    PROVE  TypeInv'
  <1>0. /\ IsInput(input) /\ space \in Spaces /\ Addresses \subseteq Nat
        /\ input' = input /\ space' = space
        /\ UniverseRanges' = UniverseRanges /\ SectionIndices' = SectionIndices
        /\ Claims' = Claims /\ Groups(input)' = Groups(input)
    BY InputFacts, AddressFacts, NextFixes, FixedFacts DEF TypeInv
  <1>1. /\ phase = "merge" /\ pending \subseteq UniverseRanges /\ owned = {}
        /\ todo = {} /\ spans = {} /\ current = NoSpan /\ claimedEnd = 0 /\ claimedBy = 0
    BY DEF TypeInv, Phases, Merging, Unattributed, MergeRange, UniverseMerged
  <1>2. ASSUME NEW range \in pending, MergeRange(range) PROVE TypeInv'
    <2>1. range \in [from : Addresses, to : Addresses] /\ range.from < range.to
      BY <1>0, <1>1, UniverseFacts
    <2>2. ASSUME NEW merged \in universe'
          PROVE  merged \in [from : Addresses, to : Addresses] /\ merged.from < merged.to
      <3>1. \/ merged = range \/ merged \in universe
            \/ \E last \in universe : merged = [last EXCEPT !.to = Larger(last.to, range.to)]
        BY <1>2 DEF MergeRange
      <3>2. ASSUME NEW last \in universe, merged = [last EXCEPT !.to = Larger(last.to, range.to)]
            PROVE  merged \in [from : Addresses, to : Addresses] /\ merged.from < merged.to
        <4>1. last \in [from : Addresses, to : Addresses] /\ last.from < last.to
          BY DEF TypeInv, VarTypes, NothingEmpty
        <4>2. Larger(last.to, range.to) \in Addresses /\ last.to <= Larger(last.to, range.to)
          BY <2>1, <4>1, LargerAddress
        <4>3. last.from < Larger(last.to, range.to)
          <5>1. last.from \in Nat /\ last.to \in Nat /\ Larger(last.to, range.to) \in Nat
            BY <1>0, <4>1, <4>2
          <5>2. QED
            BY <4>1, <4>2, <5>1
        <4>4. QED
          BY <3>2, <4>1, <4>2, <4>3
      <3>3. QED
        BY <2>1, <3>1, <3>2 DEF TypeInv, VarTypes, NothingEmpty
    <2>3. /\ phase' = phase /\ pending' \subseteq pending
          /\ UNCHANGED <<todo, owned, claimedEnd, claimedBy, current, cursor, lastOwner, spans>>
      BY <1>2 DEF MergeRange
    <2>4. VarTypes' /\ NothingEmpty'
      BY <1>0, <2>2, <2>3 DEF TypeInv, VarTypes, NothingEmpty
    <2>5. SpanTypes' /\ Phases'
      BY <1>0, <1>1, <2>3 DEF SpanTypes, Phases, Merging, Claiming, Unattributed, Attributing,
                              Naming, Finished, NoSpan
    <2>6. QED
      BY <2>4, <2>5 DEF TypeInv
  <1>3. CASE UniverseMerged
    <2>1. /\ phase' = "claim" /\ pending' = Claims
          /\ UNCHANGED <<universe, todo, owned, claimedEnd, claimedBy, current, cursor, lastOwner, spans>>
      BY <1>3 DEF UniverseMerged
    <2>2. VarTypes' /\ NothingEmpty'
      BY <1>0, <2>1 DEF TypeInv, VarTypes, NothingEmpty
    <2>3. SpanTypes' /\ Phases'
      BY <1>0, <1>1, <2>1 DEF SpanTypes, Phases, Merging, Claiming, Unattributed, Attributing,
                              Naming, Finished, NoSpan
    <2>4. QED
      BY <2>2, <2>3 DEF TypeInv
  <1>4. QED
    BY <1>2, <1>3

LEMMA ClaimTypes ==
    ASSUME TypeInv, [Next]_vars,
           (\E claim \in pending : ClaimSection(claim)) \/ SectionsClaimed
    PROVE  TypeInv'
  <1>0. /\ IsInput(input) /\ space \in Spaces /\ Addresses \subseteq Nat
        /\ input' = input /\ space' = space
        /\ UniverseRanges' = UniverseRanges /\ SectionIndices' = SectionIndices
        /\ Claims' = Claims /\ Groups(input)' = Groups(input)
    BY InputFacts, AddressFacts, NextFixes, FixedFacts DEF TypeInv
  <1>1. /\ phase = "claim" /\ pending \subseteq Claims
        /\ todo = {} /\ spans = {} /\ current = NoSpan
    BY DEF TypeInv, Phases, Claiming, Unattributed, ClaimSection, SectionsClaimed
  <1>2. ASSUME NEW claim \in pending, ClaimSection(claim) PROVE TypeInv'
    <2> DEFINE from  == Larger(claim.from, claimedEnd)
               piece == [from |-> from, to |-> claim.to, section |-> claim.section]
    <2>1. claim.from \in Addresses /\ claim.to \in Addresses /\ claim.section \in SectionIndices
      BY <1>0, <1>1, ClaimFacts
    <2>2. from \in Addresses
      BY <2>1, LargerAddress DEF TypeInv, VarTypes
    <2>3. /\ phase' = phase /\ pending' \subseteq pending
          /\ UNCHANGED <<universe, todo, current, cursor, lastOwner, spans>>
          /\ \/ from < claim.to /\ owned' = owned \cup {piece}
                /\ claimedEnd' = claim.to /\ claimedBy' = claim.section
             \/ UNCHANGED <<owned, claimedEnd, claimedBy>>
      BY <1>2 DEF ClaimSection
    <2>4. piece \in [from : Addresses, to : Addresses, section : SectionIndices]
          /\ piece.from = from /\ piece.to = claim.to
      BY <2>1, <2>2
    <2> HIDE DEF from, piece
    <2>5. VarTypes' /\ NothingEmpty'
      BY <1>0, <2>1, <2>3, <2>4 DEF TypeInv, VarTypes, NothingEmpty
    <2>6. SpanTypes' /\ Phases'
      BY <1>0, <1>1, <2>3 DEF SpanTypes, Phases, Merging, Claiming, Unattributed, Attributing,
                              Naming, Finished, NoSpan
    <2>7. QED
      BY <2>5, <2>6 DEF TypeInv
  <1>3. CASE SectionsClaimed
    <2>1. /\ phase' = "symbols" /\ todo' = owned /\ pending = {}
          /\ UNCHANGED <<universe, pending, owned, claimedEnd, claimedBy, current, cursor, lastOwner, spans>>
      BY <1>3 DEF SectionsClaimed
    <2>2. VarTypes' /\ NothingEmpty'
      BY <1>0, <2>1 DEF TypeInv, VarTypes, NothingEmpty
    <2>3. SpanTypes' /\ Phases'
      BY <1>0, <1>1, <2>1 DEF SpanTypes, Phases, Merging, Claiming, Unattributed, Attributing,
                              Naming, Finished, NoSpan
    <2>4. QED
      BY <2>2, <2>3 DEF TypeInv
  <1>4. QED
    BY <1>2, <1>3

LEMMA CurrentMembers ==
    ASSUME input' = input, space' = space
    PROVE  Members(current)' = Members(current')
  BY DEF Members, Member, GroupFrom, Section

LEMMA OwnerFacts ==
    ASSUME VarTypes
    PROVE  /\ \A i \in SectionIndices : NoSymbolOwner(i) \in OwnerTypes
           /\ \A group \in Groups(input) : SymbolOwner(group) \in OwnerTypes
           /\ \A from, to, gapFrom : GapName(from, to, gapFrom) \in OwnerTypes
  <1>0. SectionIndices \subseteq Nat /\ IsInput(input)
    BY InputFacts
  <1>1. \A i \in Nat : [NoGroup EXCEPT !.section = i] \in Groupings
    BY DEF NoGroup, Groupings
  <1>2. NoGroup \in Groupings
    BY DEF NoGroup, Groupings
  <1>3. \A i \in SectionIndices : NoSymbolOwner(i) \in OwnerTypes
    BY <1>0, <1>1 DEF NoSymbolOwner, OwnerTypes
  <1>4. \A group \in Groups(input) : SymbolOwner(group) \in OwnerTypes
    BY <1>0, GroupFacts DEF SymbolOwner, OwnerTypes
  <1>5. ASSUME NEW from, NEW to, NEW gapFrom PROVE GapName(from, to, gapFrom) \in OwnerTypes
    <2> DEFINE named == {k \in NamedEmpty : Inside(from, to, k, space)}
    <2>1. \A label \in {"[headers]", "[non-section]", "[alignment]"} : GapOwner(label) \in OwnerTypes
      BY <1>2 DEF GapOwner, OwnerTypes
    <2>2. CASE named # {}
      <3>1. named \subseteq Nat
        BY <1>0 DEF NamedEmpty, Segments, IsInput
      <3>2. \E k \in named : \A j \in named : k <= j
        BY <3>1, <2>2, LeastNat
      <3>3. (CHOOSE k \in named : \A j \in named : k <= j) \in Nat
        BY <3>1, <3>2
      <3>4. SegmentOwner(CHOOSE k \in named : \A j \in named : k <= j) \in OwnerTypes
        BY <1>1, <3>3 DEF SegmentOwner, OwnerTypes
      <3>5. QED
        BY <2>2, <3>4 DEF GapName
    <2>3. CASE named = {}
      BY <2>1, <2>3 DEF GapName
    <2>4. QED
      BY <2>2, <2>3
  <1>6. QED
    BY <1>3, <1>4, <1>5

LEMMA NonEmptyTypes ==
    ASSUME NEW from \in Addresses, NEW to \in Addresses, NEW owner \in OwnerTypes,
           NEW span \in NonEmpty(from, to, owner)
    PROVE  /\ span.from \in Addresses /\ span.to \in Addresses /\ span.from < span.to
           /\ span.owner \in OwnerTypes
  BY DEF NonEmpty, Span

LEMMA EnterPieceTypes ==
    ASSUME TypeInv, [Next]_vars, NEW piece \in todo, EnterPiece(piece)
    PROVE  TypeInv'
  <1>0. /\ IsInput(input) /\ space \in Spaces /\ Addresses \subseteq Nat
        /\ input' = input /\ space' = space
        /\ UniverseRanges' = UniverseRanges /\ SectionIndices' = SectionIndices
        /\ Claims' = Claims /\ Groups(input)' = Groups(input)
        /\ Members(current)' = Members(current')
    BY InputFacts, AddressFacts, NextFixes, FixedFacts, CurrentMembers DEF TypeInv
  <1>1. /\ phase = "symbols" /\ current = NoSpan /\ pending = {} /\ todo \subseteq owned
    BY DEF TypeInv, Phases, Attributing, EnterPiece
  <1>2. /\ piece \in [from : Addresses, to : Addresses, section : SectionIndices]
        /\ piece.from < piece.to
    BY <1>1 DEF TypeInv, VarTypes, NothingEmpty
  <1>3. /\ phase' = "symbols" /\ todo' = todo \ {piece}
        /\ UNCHANGED <<universe, owned, claimedEnd, claimedBy>>
        /\ \/ /\ spans' = spans \cup {Span(piece.from, piece.to, NoSymbolOwner(piece.section))}
              /\ UNCHANGED <<current, pending, cursor, lastOwner>>
           \/ /\ current' = piece /\ pending' = Members(piece) /\ cursor' = piece.from
              /\ lastOwner' = NoGroup /\ UNCHANGED spans
    BY <1>1 DEF EnterPiece
  <1>4. VarTypes' /\ NothingEmpty'
    BY <1>0, <1>2, <1>3 DEF TypeInv, VarTypes, NothingEmpty
  <1>5. SpanTypes'
    <2>1. NoSymbolOwner(piece.section) \in OwnerTypes
      BY <1>2, OwnerFacts DEF TypeInv
    <2>2. QED
      BY <1>2, <1>3, <2>1 DEF TypeInv, SpanTypes, Span
  <1>6. Phases'
    <2>1. piece.from \in Nat /\ piece.to \in Nat
      BY <1>0, <1>2
    <2>2. Attributing'
      <3>1. CASE UNCHANGED <<current, pending, cursor>>
        BY <1>1, <1>3, <3>1 DEF Attributing
      <3>2. CASE current' = piece /\ pending' = Members(piece) /\ cursor' = piece.from
        <4>1. Members(current)' = Members(piece)
          BY <1>0, <3>2, FixedFacts
        <4>2. piece.from <= piece.from /\ piece.from <= piece.to
          BY <1>2, <2>1
        <4>3. current' \in owned' \ todo'
          BY <1>1, <1>3, <3>2
        <4>4. QED
          BY <1>1, <1>2, <1>3, <2>1, <3>2, <4>1, <4>2, <4>3 DEF Attributing, NoSpan
      <3>3. QED
        BY <1>3, <3>1, <3>2
    <2>3. QED
      BY <1>3, <2>2 DEF Phases, Merging, Claiming, Unattributed, Naming, Finished
  <1>7. QED
    BY <1>4, <1>5, <1>6 DEF TypeInv

LEMMA AttributeSymbolTypes ==
    ASSUME TypeInv, [Next]_vars, NEW member \in pending, AttributeSymbol(member)
    PROVE  TypeInv'
  <1>0. /\ IsInput(input) /\ space \in Spaces /\ Addresses \subseteq Nat
        /\ input' = input /\ space' = space
        /\ UniverseRanges' = UniverseRanges /\ SectionIndices' = SectionIndices
        /\ Claims' = Claims /\ Groups(input)' = Groups(input)
        /\ Members(current)' = Members(current')
    BY InputFacts, AddressFacts, NextFixes, FixedFacts, CurrentMembers DEF TypeInv
  <1>1. /\ phase = "symbols" /\ current # NoSpan /\ current \in owned \ todo
        /\ pending \subseteq Members(current) /\ todo \subseteq owned
        /\ current.from <= cursor /\ cursor <= current.to
    BY DEF TypeInv, Phases, Attributing, AttributeSymbol
  <1>2. /\ current.section \in SectionIndices /\ current.from \in Addresses
        /\ current.to \in Addresses /\ cursor \in Addresses
    BY <1>1 DEF TypeInv, VarTypes
  <1>3. /\ member.from \in Addresses /\ member.to \in Addresses /\ member.from < member.to
        /\ current.from <= member.from /\ member.to <= current.to
        /\ member.group \in Groups(input)
    BY <1>0, <1>1, <1>2, MemberFacts
  <1> DEFINE from == Larger(cursor, member.from)
  <1>4. /\ phase' = "symbols" /\ pending' \subseteq pending
        /\ spans' = spans \cup NonEmpty(cursor, member.from, NoSymbolOwner(current.section))
                          \cup NonEmpty(from, member.to, SymbolOwner(member.group))
        /\ cursor' = Larger(from, member.to)
        /\ lastOwner' \in {member.group, lastOwner}
        /\ UNCHANGED <<todo, universe, owned, claimedEnd, claimedBy, current>>
    BY <1>1 DEF AttributeSymbol
  <1>5. from \in Addresses /\ cursor <= from /\ member.from <= from
        /\ (from = cursor \/ from = member.from)
    BY <1>2, <1>3, LargerAddress
  <1> HIDE DEF from
  <1>6. cursor' \in Addresses /\ from <= cursor' /\ (cursor' = from \/ cursor' = member.to)
    BY <1>3, <1>4, <1>5, LargerAddress
  <1>7. current.from <= cursor' /\ cursor' <= current.to
    <2>1. /\ current.from \in Nat /\ current.to \in Nat /\ cursor \in Nat /\ member.from \in Nat
          /\ member.to \in Nat /\ from \in Nat /\ cursor' \in Nat
      BY <1>0, <1>2, <1>3, <1>5, <1>6
    <2>2. QED
      BY <1>1, <1>3, <1>5, <1>6, <2>1
  <1>8. VarTypes' /\ NothingEmpty'
    BY <1>0, <1>3, <1>4, <1>6 DEF TypeInv, VarTypes, NothingEmpty
  <1>9. SpanTypes'
    <2>1. NoSymbolOwner(current.section) \in OwnerTypes /\ SymbolOwner(member.group) \in OwnerTypes
      BY <1>2, <1>3, OwnerFacts DEF TypeInv
    <2>2. QED
      BY <1>2, <1>3, <1>4, <1>5, <2>1, NonEmptyTypes DEF TypeInv, SpanTypes
  <1>10. Phases'
    <2>1. Attributing'
      BY <1>0, <1>1, <1>4, <1>7 DEF Attributing
    <2>2. QED
      BY <1>4, <2>1 DEF Phases, Merging, Claiming, Unattributed, Naming, Finished
  <1>11. QED
    BY <1>8, <1>9, <1>10 DEF TypeInv

LEMMA LeavePieceTypes ==
    ASSUME TypeInv, [Next]_vars, LeavePiece \/ SymbolsAttributed
    PROVE  TypeInv'
  <1>0. /\ IsInput(input) /\ space \in Spaces /\ Addresses \subseteq Nat
        /\ input' = input /\ space' = space
        /\ UniverseRanges' = UniverseRanges /\ SectionIndices' = SectionIndices
        /\ Claims' = Claims /\ Groups(input)' = Groups(input)
        /\ Members(current)' = Members(current')
    BY InputFacts, AddressFacts, NextFixes, FixedFacts, CurrentMembers DEF TypeInv
  <1>1. CASE LeavePiece
    <2>1. /\ phase = "symbols" /\ pending = {} /\ current \in owned \ todo /\ todo \subseteq owned
      BY <1>1 DEF TypeInv, Phases, Attributing, LeavePiece
    <2>2. /\ phase' = "symbols" /\ current' = NoSpan
          /\ spans' = spans \cup NonEmpty(cursor, current.to, NoSymbolOwner(current.section))
          /\ UNCHANGED <<todo, pending, universe, owned, claimedEnd, claimedBy, cursor, lastOwner>>
      BY <1>1, <2>1 DEF LeavePiece
    <2>3. VarTypes' /\ NothingEmpty'
      BY <1>0, <2>2 DEF TypeInv, VarTypes, NothingEmpty
    <2>4. SpanTypes'
      <3>1. /\ current.section \in SectionIndices /\ current.to \in Addresses /\ cursor \in Addresses
        BY <2>1 DEF TypeInv, VarTypes
      <3>2. NoSymbolOwner(current.section) \in OwnerTypes
        BY <3>1, OwnerFacts DEF TypeInv
      <3>3. QED
        BY <2>2, <3>1, <3>2, NonEmptyTypes DEF TypeInv, SpanTypes
    <2>5. Phases'
      BY <1>0, <2>1, <2>2 DEF Phases, Merging, Claiming, Unattributed, Attributing, Naming, Finished
    <2>6. QED
      BY <2>3, <2>4, <2>5 DEF TypeInv
  <1>2. CASE SymbolsAttributed
    <2>1. /\ phase = "symbols" /\ pending = {} /\ current = NoSpan
      BY <1>2 DEF TypeInv, Phases, Attributing, SymbolsAttributed
    <2>2. /\ phase' = "gaps" /\ todo' = universe
          /\ UNCHANGED <<spans, pending, universe, owned, claimedEnd, claimedBy, current, cursor,
                         lastOwner>>
      BY <1>2 DEF SymbolsAttributed
    <2>3. VarTypes' /\ NothingEmpty' /\ SpanTypes'
      BY <1>0, <2>2 DEF TypeInv, VarTypes, NothingEmpty, SpanTypes
    <2>4. Phases'
      BY <1>0, <2>1, <2>2 DEF Phases, Merging, Claiming, Unattributed, Attributing, Naming,
                              Finished, NoSpan
    <2>5. QED
      BY <2>3, <2>4 DEF TypeInv
  <1>3. QED
    BY <1>1, <1>2

LEMMA GapTypes ==
    ASSUME TypeInv, NEW from \in Addresses, NEW to \in Addresses, NEW span \in GapSpans(from, to)
    PROVE  /\ span.from \in Addresses /\ span.to \in Addresses /\ span.from < span.to
           /\ span.owner \in OwnerTypes
  BY InputFacts, GapSpansTile, OwnerFacts DEF TypeInv

LEMMA NamingTypes ==
    ASSUME TypeInv, [Next]_vars,
           \/ \E range \in todo : EnterRange(range)
           \/ \E piece \in pending : SkipPiece(piece)
           \/ LeaveRange
           \/ GapsNamed
    PROVE  TypeInv'
  <1>0. /\ IsInput(input) /\ space \in Spaces /\ Addresses \subseteq Nat
        /\ input' = input /\ space' = space
        /\ UniverseRanges' = UniverseRanges /\ SectionIndices' = SectionIndices
        /\ Claims' = Claims /\ Groups(input)' = Groups(input)
    BY InputFacts, AddressFacts, NextFixes, FixedFacts DEF TypeInv
  <1>1. /\ phase = "gaps" /\ todo \subseteq universe /\ pending \subseteq owned
        /\ current = NoSpan => pending = {}
        /\ current # NoSpan => \E range \in universe \ todo : current = Entered(range)
        /\ universe \subseteq [from : Addresses, to : Addresses]
        /\ owned \subseteq [from : Addresses, to : Addresses, section : SectionIndices]
        /\ cursor \in Addresses
    BY DEF TypeInv, VarTypes, Phases, Naming, EnterRange, SkipPiece, LeaveRange, GapsNamed
  <1>2. ASSUME NEW range \in todo, EnterRange(range) PROVE TypeInv'
    <2>1. /\ phase' = "gaps" /\ todo' = todo \ {range} /\ current' = Entered(range)
          /\ cursor' = range.from /\ pending' \subseteq owned
          /\ UNCHANGED <<universe, owned, claimedEnd, claimedBy, lastOwner, spans>>
      BY <1>1, <1>2 DEF EnterRange, Entered
    <2>2. VarTypes' /\ NothingEmpty' /\ SpanTypes'
      BY <1>0, <1>1, <2>1 DEF TypeInv, VarTypes, NothingEmpty, SpanTypes
    <2>3. current' # NoSpan
      <3>1. range.from < range.to /\ range.from \in Nat /\ range.to \in Nat
        BY <1>0, <1>1 DEF TypeInv, NothingEmpty
      <3>2. QED
        BY <2>1, <3>1 DEF Entered, NoSpan
    <2>4. Naming'
      BY <1>1, <2>1, <2>3 DEF Naming, Entered
    <2>5. QED
      BY <2>1, <2>2, <2>4 DEF TypeInv, Phases, Merging, Claiming, Unattributed, Attributing, Finished
  <1>3. ASSUME NEW piece \in pending, SkipPiece(piece) PROVE TypeInv'
    <2>1. /\ phase' = "gaps" /\ pending' \subseteq pending
          /\ spans' = spans \cup GapSpans(cursor, piece.from)
          /\ cursor' = Larger(cursor, piece.to)
          /\ UNCHANGED <<todo, universe, owned, claimedEnd, claimedBy, current, lastOwner>>
      BY <1>1, <1>3 DEF SkipPiece
    <2>2. piece.from \in Addresses /\ cursor' \in Addresses
      BY <1>1, <2>1, LargerAddress
    <2>3. VarTypes' /\ NothingEmpty'
      BY <1>0, <2>1, <2>2 DEF TypeInv, VarTypes, NothingEmpty
    <2>4. SpanTypes'
      BY <1>1, <2>1, <2>2, GapTypes DEF TypeInv, SpanTypes
    <2>5. Naming'
      BY <1>1, <2>1 DEF Naming, NoSpan, Entered
    <2>6. QED
      BY <2>1, <2>3, <2>4, <2>5 DEF TypeInv, Phases, Merging, Claiming, Unattributed, Attributing, Finished
  <1>4. CASE LeaveRange
    <2>1. /\ phase' = "gaps" /\ pending = {} /\ current' = NoSpan /\ current # NoSpan
          /\ spans' = spans \cup GapSpans(cursor, current.to)
          /\ UNCHANGED <<todo, pending, universe, owned, claimedEnd, claimedBy, cursor, lastOwner>>
      BY <1>1, <1>4 DEF LeaveRange
    <2>2. current.to \in Addresses
      BY <1>1, <2>1 DEF Entered
    <2>3. VarTypes' /\ NothingEmpty'
      BY <1>0, <2>1 DEF TypeInv, VarTypes, NothingEmpty
    <2>4. SpanTypes'
      BY <1>1, <2>1, <2>2, GapTypes DEF TypeInv, SpanTypes
    <2>5. Naming'
      BY <1>1, <2>1 DEF Naming, NoSpan
    <2>6. QED
      BY <2>1, <2>3, <2>4, <2>5 DEF TypeInv, Phases, Merging, Claiming, Unattributed, Attributing, Finished
  <1>5. CASE GapsNamed
    <2>1. /\ phase' = "done" /\ todo = {} /\ current = NoSpan
          /\ UNCHANGED <<todo, pending, universe, owned, claimedEnd, claimedBy, current, cursor,
                         lastOwner, spans>>
      BY <1>5 DEF GapsNamed
    <2>2. VarTypes' /\ NothingEmpty' /\ SpanTypes'
      BY <1>0, <2>1 DEF TypeInv, VarTypes, NothingEmpty, SpanTypes
    <2>3. Phases'
      BY <2>1 DEF Phases, Merging, Claiming, Unattributed, Attributing, Naming, Finished, NoSpan
    <2>4. QED
      BY <2>2, <2>3 DEF TypeInv
  <1>6. QED
    BY <1>2, <1>3, <1>4, <1>5

LEMMA TypeInvStarts == ASSUME IsInput(input), Start PROVE TypeInv
  <1>1. VarTypes
    BY InputAssumption DEF Start, VarTypes, Addresses
  <1>2. QED
    BY <1>1 DEF Start, TypeInv, NothingEmpty, SpanTypes, Phases, Merging, Claiming, Unattributed,
                Attributing, Naming, Finished

LEMMA TypeInvKept ==
    ASSUME TypeInv, [Next]_vars
    PROVE  TypeInv'
  <1>1. CASE UNCHANGED vars
    <2>1. /\ UniverseRanges' = UniverseRanges /\ SectionIndices' = SectionIndices
          /\ Claims' = Claims /\ Groups(input)' = Groups(input)
          /\ Members(current)' = Members(current')
      BY <1>1, FixedFacts, CurrentMembers DEF vars
    <2>2. Members(current)' = Members(current)
      BY <1>1 DEF vars, Members, Member, GroupFrom, Section
    <2>3. QED
      BY <1>1, <2>1, <2>2 DEF vars, TypeInv, VarTypes, NothingEmpty, SpanTypes, Phases, Merging,
         Claiming, Unattributed, Attributing, Naming, Finished, NoSpan
  <1>2. QED
    BY <1>1, MergeTypes, ClaimTypes, EnterPieceTypes, AttributeSymbolTypes, LeavePieceTypes,
       NamingTypes DEF Next, Attributed

LEMMA TypesAreOK == ASSUME TypeInv PROVE TypeOK
  <1>1. current \in [from : Addresses, to : Addresses, section : SectionIndices \cup {0}]
    <2>1. NoSpan \in [from : Addresses, to : Addresses, section : SectionIndices \cup {0}]
      BY InputAssumption DEF NoSpan, Addresses
    <2>2. \A range \in universe :
             Entered(range) \in [from : Addresses, to : Addresses, section : SectionIndices \cup {0}]
      BY DEF TypeInv, VarTypes, Entered
    <2>3. QED
      BY <2>1, <2>2 DEF TypeInv, VarTypes, Phases, Unattributed, Attributing, Naming, Finished
  <1>2. todo \subseteq universe \cup owned
    BY DEF TypeInv, VarTypes, Phases, Unattributed, Attributing, Naming, Finished
  <1>3. /\ phase = "merge"   => pending \subseteq UniverseRanges
        /\ phase = "claim"   => pending \subseteq Claims
        /\ phase = "symbols" => pending \subseteq Members(current)
        /\ phase = "gaps"    => pending \subseteq owned
    BY DEF TypeInv, Phases, Merging, Claiming, Attributing, Naming
  <1>4. QED
    BY <1>1, <1>2, <1>3 DEF TypeInv, VarTypes, SpanTypes, OwnerTypes, TypeOK

-----------------------------------------------------------------------------
(* The universe: separate spans that hold the ranges merged so far, and     *)
(* nothing else; the ranges to come start no earlier.                      *)
Merged == IF phase = "merge" THEN UniverseRanges \ pending ELSE UniverseRanges

Apart(r, s) == r = s \/ r.to < s.from \/ s.to < r.from

MergeInv ==
    /\ \A r, s \in universe : Apart(r, s)
    /\ \A range \in Merged :
          \E u \in universe : u.from <= range.from /\ range.to <= u.to
    /\ \A u \in universe, x \in Addresses :
          Covers(u, x) => \E range \in Merged : Covers(range, x)
    /\ phase = "merge" => \A u \in universe, range \in pending : u.from <= range.from

LEMMA MergeRangeMerges ==
    ASSUME TypeInv, MergeInv, [Next]_vars, NEW range \in pending, MergeRange(range)
    PROVE  MergeInv'
  <1>0. /\ Addresses \subseteq Nat /\ UniverseRanges' = UniverseRanges
        /\ phase = "merge" /\ phase' = "merge" /\ pending' = pending \ {range}
        /\ pending \subseteq UniverseRanges
    BY AddressFacts, NextFixes, FixedFacts DEF MergeRange, TypeInv, Phases, Merging
  <1>1. \A r \in UniverseRanges : r.from \in Nat /\ r.to \in Nat /\ r.from < r.to
    BY <1>0, InputFacts, UniverseFacts DEF TypeInv
  <1>2. \A u \in universe : u \in [from : Addresses, to : Addresses]
                            /\ u.from \in Nat /\ u.to \in Nat /\ u.from < u.to
    BY <1>0 DEF TypeInv, VarTypes, NothingEmpty
  <1>3. \A other \in pending' : range.from <= other.from
    BY <1>0, <1>1 DEF MergeRange, Least, RangeBefore
  <1>4. Merged' = Merged \cup {range} /\ Merged \subseteq UniverseRanges
    BY <1>0 DEF Merged
  <1>5. \A u \in universe : u.from <= range.from
    BY <1>0 DEF MergeInv
  <1>6. CASE \E last \in universe : range.from <= last.to
    <2>1. PICK last \in universe : range.from <= last.to
      BY <1>6
    <2> DEFINE end      == Larger(last.to, range.to)
               extended == [last EXCEPT !.to = end]
    <2>2. end \in Nat /\ last.to <= end /\ range.to <= end /\ (end = last.to \/ end = range.to)
      BY <1>0, <1>1, <1>2, LargerFacts
    <2>3. extended.from = last.from /\ extended.to = end
      BY <1>2
    <2>4. \A u \in universe : u # last => u.to < last.from /\ u.to < range.from
      <3>1. \A u \in universe : u # last => u.to < last.from \/ last.to < u.from
        BY DEF MergeInv, Apart
      <3>2. QED
        BY <1>0, <1>1, <1>2, <1>5, <2>1, <3>1
    <2>5. universe' = (universe \ {last}) \cup {extended}
      <3>1. universe' = {IF range.from <= u.to THEN [u EXCEPT !.to = Larger(u.to, range.to)] ELSE u :
                            u \in universe}
        BY <1>6 DEF MergeRange
      <3>2. \A u \in universe : u # last => ~(range.from <= u.to)
        BY <1>0, <1>1, <1>2, <2>4
      <3>3. QED
        BY <2>1, <3>1, <3>2
    <2> HIDE DEF end, extended
    <2>6. \A r, s \in universe' : Apart(r, s)
      BY <1>2, <2>2, <2>3, <2>4, <2>5 DEF MergeInv, Apart
    <2>7. ASSUME NEW r \in Merged' PROVE \E u \in universe' : u.from <= r.from /\ r.to <= u.to
      <3>1. CASE r = range
        BY <1>0, <1>5, <2>2, <2>3, <2>5, <3>1
      <3>2. CASE r # range
        <4>1. PICK u \in universe : u.from <= r.from /\ r.to <= u.to
          BY <1>4, <3>2 DEF MergeInv
        <4>2. CASE u = last
          <5>1. r.to \in Nat /\ last.to \in Nat
            BY <1>1, <1>2, <1>4, <3>2
          <5>2. extended.from <= r.from /\ r.to <= extended.to
            BY <2>2, <2>3, <4>1, <4>2, <5>1
          <5>3. QED
            BY <2>5, <5>2
        <4>3. QED
          BY <2>5, <4>1, <4>2
      <3>3. QED
        BY <3>1, <3>2
    <2>8. ASSUME NEW u \in universe', NEW x \in Addresses, Covers(u, x)
          PROVE  \E r \in Merged' : Covers(r, x)
      <3>1. CASE u = extended
        <4>1. x \in Nat /\ last.from <= x /\ x < end
          BY <1>0, <2>3, <2>8, <3>1 DEF Covers
        <4>2. CASE x < last.to
          BY <1>4, <4>1, <4>2 DEF MergeInv, Covers
        <4>3. CASE ~(x < last.to)
          <5>1. range.from <= x /\ x < range.to
            BY <1>0, <1>1, <1>2, <2>1, <2>2, <4>1, <4>3
          <5>2. QED
            BY <1>4, <5>1 DEF Covers
        <4>4. QED
          BY <4>2, <4>3
      <3>2. CASE u \in universe
        BY <1>4, <2>8, <3>2 DEF MergeInv
      <3>3. QED
        BY <2>5, <3>1, <3>2
    <2>9. \A u \in universe', other \in pending' : u.from <= other.from
      BY <1>0, <2>3, <2>5 DEF MergeInv
    <2>10. QED
      BY <1>0, <2>6, <2>7, <2>8, <2>9 DEF MergeInv
  <1>7. CASE ~\E last \in universe : range.from <= last.to
    <2>1. universe' = universe \cup {range}
      BY <1>7 DEF MergeRange
    <2>2. \A u \in universe : u.to < range.from
      BY <1>0, <1>1, <1>2, <1>7
    <2>3. \A r, s \in universe' : Apart(r, s)
      BY <2>1, <2>2 DEF MergeInv, Apart
    <2>4. range.from <= range.from /\ range.to <= range.to
      BY <1>0, <1>1
    <2>5. \A r \in Merged' : \E u \in universe' : u.from <= r.from /\ r.to <= u.to
      BY <1>4, <2>1, <2>4 DEF MergeInv
    <2>6. \A u \in universe', x \in Addresses : Covers(u, x) => \E r \in Merged' : Covers(r, x)
      BY <1>4, <2>1 DEF MergeInv
    <2>7. \A u \in universe', other \in pending' : u.from <= other.from
      BY <1>0, <1>3, <2>1 DEF MergeInv
    <2>8. QED
      BY <1>0, <2>3, <2>5, <2>6, <2>7 DEF MergeInv
  <1>8. QED
    BY <1>6, <1>7

LEMMA MergeInvStarts == ASSUME Start PROVE MergeInv
  BY DEF Start, MergeInv, Merged

LEMMA MergeInvKept ==
    ASSUME TypeInv, MergeInv, [Next]_vars
    PROVE  MergeInv'
  <1>0. UniverseRanges' = UniverseRanges
    BY NextFixes, FixedFacts
  <1>1. CASE \E range \in pending : MergeRange(range)
    BY <1>1, MergeRangeMerges
  <1>2. CASE UniverseMerged
    <2>1. universe' = universe /\ phase' = "claim" /\ Merged' = Merged
      BY <1>0, <1>2 DEF UniverseMerged, Merged
    <2>2. QED
      BY <2>1 DEF MergeInv
  <1>3. CASE UNCHANGED vars
    <2>1. universe' = universe /\ phase' = phase /\ pending' = pending /\ Merged' = Merged
      BY <1>0, <1>3 DEF vars, Merged
    <2>2. QED
      BY <2>1 DEF MergeInv
  <1>4. ASSUME universe' = universe, phase # "merge", phase' # "merge" PROVE MergeInv'
    <2>1. Merged' = Merged
      BY <1>0, <1>4 DEF Merged
    <2>2. QED
      BY <1>4, <2>1 DEF MergeInv
  <1>5. CASE \E claim \in pending : ClaimSection(claim)
    BY <1>4, <1>5 DEF ClaimSection
  <1>6. CASE SectionsClaimed
    BY <1>4, <1>6 DEF SectionsClaimed
  <1>7. CASE \/ \E piece \in todo : EnterPiece(piece)
             \/ \E member \in pending : AttributeSymbol(member)
             \/ LeavePiece \/ SymbolsAttributed
    BY <1>4, <1>7 DEF EnterPiece, AttributeSymbol, LeavePiece, SymbolsAttributed
  <1>8. CASE \/ \E range \in todo : EnterRange(range)
             \/ \E piece \in pending : SkipPiece(piece)
             \/ LeaveRange \/ GapsNamed
    BY <1>4, <1>8 DEF EnterRange, SkipPiece, LeaveRange, GapsNamed
  <1>9. QED
    BY <1>1, <1>2, <1>3, <1>5, <1>6, <1>7, <1>8 DEF Next, Attributed

-----------------------------------------------------------------------------
(* The sections: separate spans, each the end of its section's extent, that *)
(* hold every byte of the extents taken so far.  The sweep needs no more    *)
(* than claimedEnd because no extent to come starts before one that is      *)
(* behind it.                                                              *)
Claimed == IF phase = "merge" THEN {}
           ELSE IF phase = "claim" THEN Claims \ pending ELSE Claims

\* The sweep's order, up to the order of sections with the same extent.
First(c, d) ==
    \/ c.from < d.from
    \/ c.from = d.from /\ ~c.tls /\ d.tls
    \/ c.from = d.from /\ c.tls = d.tls /\ c.to >= d.to

PieceInv ==
    \A piece \in owned :
        /\ piece.to <= claimedEnd
        /\ \E c \in Claimed :
              c.section = piece.section /\ c.from <= piece.from /\ c.to = piece.to

Separate == \A p, q \in owned : p = q \/ p.to <= q.from \/ q.to <= p.from

Reached ==
    /\ \A c \in Claimed : c.from < c.to => c.to <= claimedEnd
    /\ claimedEnd = 0 \/ \E c \in Claimed : c.to = claimedEnd

AllOwned == \A c \in Claimed, x \in Addresses : Covers(c, x) => \E p \in owned : Covers(p, x)

InOrder == phase = "claim" => \A c \in Claimed, d \in pending : ClaimBefore(c, d)

FirstOwns ==
    \A piece \in owned, own \in Claimed, c \in Claimed :
        own.section = piece.section =>
            First(own, c) \/ c.to <= piece.from \/ piece.to <= c.from

ClaimInv == PieceInv /\ Separate /\ Reached /\ AllOwned /\ InOrder /\ FirstOwns

LEMMA BeforeIsFirst ==
    ASSUME IsInput(input), space \in Spaces, NEW c \in Claims, NEW d \in Claims, ClaimBefore(c, d)
    PROVE  First(c, d) /\ c.from <= d.from
  <1>1. c.from \in Nat /\ c.to \in Nat /\ d.from \in Nat /\ d.to \in Nat
    BY ClaimFacts, AddressFacts
  <1>2. QED
    BY <1>1 DEF First, ClaimBefore

LEMMA ClaimSectionClaims ==
    ASSUME TypeInv, ClaimInv, [Next]_vars, NEW claim \in pending, ClaimSection(claim)
    PROVE  ClaimInv'
  <1> DEFINE from  == Larger(claim.from, claimedEnd)
             piece == [from |-> from, to |-> claim.to, section |-> claim.section]
  <1>0. /\ IsInput(input) /\ space \in Spaces /\ Addresses \subseteq Nat
        /\ Claims' = Claims
        /\ phase = "claim" /\ phase' = "claim" /\ pending \subseteq Claims
        /\ pending' = pending \ {claim} /\ claim \in Claims
    BY InputFacts, AddressFacts, NextFixes, FixedFacts DEF ClaimSection, TypeInv, Phases, Claiming
  <1>1. \A c \in Claims : /\ c.from \in Nat /\ c.to \in Nat /\ c = Claim(c.section)
                          /\ c.from < c.to \/ (c.from = MaxAddress /\ c.to = MaxAddress)
    BY <1>0, ClaimFacts
  <1>2. Claimed' = Claimed \cup {claim} /\ Claimed \subseteq Claims /\ claim \notin Claimed
    BY <1>0 DEF Claimed
  <1>3. \A p \in owned : p.from \in Nat /\ p.to \in Nat /\ p.from < p.to
    BY <1>0 DEF TypeInv, VarTypes, NothingEmpty
  <1>4. /\ claimedEnd \in Nat /\ from \in Nat /\ claim.from <= from /\ claimedEnd <= from
        /\ from = claim.from \/ from = claimedEnd
    BY <1>0, <1>1, LargerFacts DEF TypeInv, VarTypes
  <1>5. \/ /\ from < claim.to /\ owned' = owned \cup {piece}
           /\ claimedEnd' = claim.to /\ claimedBy' = claim.section
        \/ /\ ~(from < claim.to) /\ UNCHANGED <<owned, claimedEnd, claimedBy>>
    BY DEF ClaimSection
  <1>6. piece.from = from /\ piece.to = claim.to /\ piece.section = claim.section
    OBVIOUS
  <1>7. \A p \in owned' : p = piece \/ p \in owned
    BY <1>5
  <1>8. claimedEnd <= claimedEnd' /\ claimedEnd' \in Nat
    BY <1>0, <1>1, <1>4, <1>5
  <1> HIDE DEF from, piece
  <1>9. PieceInv'
    <2> SUFFICES ASSUME NEW p \in owned'
                 PROVE  /\ p.to <= claimedEnd'
                        /\ \E c \in Claimed' :
                              c.section = p.section /\ c.from <= p.from /\ c.to = p.to
      BY DEF PieceInv
    <2>1. CASE p \in owned
      BY <1>2, <1>3, <1>4, <1>8, <2>1 DEF ClaimInv, PieceInv
    <2>2. CASE p = piece /\ from < claim.to /\ claimedEnd' = claim.to
      BY <1>0, <1>1, <1>2, <1>4, <1>6, <2>2
    <2>3. QED
      BY <1>5, <2>1, <2>2
  <1>10. Separate'
    <2>1. \A p \in owned : p.to <= from
      BY <1>3, <1>4 DEF ClaimInv, PieceInv
    <2>2. QED
      BY <1>6, <1>7, <2>1 DEF ClaimInv, Separate
  <1>11. Reached'
    <2>1. claim.from < claim.to => claim.to <= claimedEnd'
      BY <1>0, <1>1, <1>4, <1>5
    <2>2. \A c \in Claimed : c.from < c.to => c.to <= claimedEnd'
      BY <1>1, <1>2, <1>4, <1>8 DEF ClaimInv, Reached
    <2>3. claimedEnd' = 0 \/ \E c \in Claimed' : c.to = claimedEnd'
      BY <1>2, <1>5 DEF ClaimInv, Reached
    <2>4. QED
      BY <1>2, <2>1, <2>2, <2>3 DEF Reached
  <1>12. AllOwned'
    <2> SUFFICES ASSUME NEW c \in Claimed', NEW x \in Addresses, Covers(c, x)
                 PROVE  \E p \in owned' : Covers(p, x)
      BY DEF AllOwned
    <2>0. owned \subseteq owned' /\ x \in Nat
      BY <1>0, <1>5
    <2>1. CASE c \in Claimed
      BY <2>0, <2>1 DEF ClaimInv, AllOwned
    <2>2. CASE c = claim /\ from <= x
      <3>1. from < claim.to /\ Covers(piece, x)
        BY <1>0, <1>1, <1>4, <1>6, <2>0, <2>2 DEF Covers
      <3>2. QED
        BY <1>5, <3>1
    <2>3. CASE c = claim /\ ~(from <= x)
      <3>1. claim.from <= x /\ x < claimedEnd
        BY <1>0, <1>1, <1>4, <2>0, <2>3 DEF Covers
      <3>2. PICK d \in Claimed : d.to = claimedEnd
        BY <1>4, <2>0, <3>1 DEF ClaimInv, Reached
      <3>3. d.from <= claim.from
        BY <1>0, <1>2, <3>2, BeforeIsFirst DEF ClaimInv, InOrder
      <3>4. Covers(d, x)
        BY <1>0, <1>1, <1>2, <2>0, <3>1, <3>2, <3>3 DEF Covers
      <3>5. QED
        BY <2>0, <3>4 DEF ClaimInv, AllOwned
    <2>4. QED
      BY <1>2, <2>1, <2>2, <2>3
  <1>13. InOrder'
    <2>1. \A d \in pending' : ClaimBefore(claim, d)
      BY <1>0 DEF ClaimSection, Least
    <2>2. QED
      BY <1>0, <1>2, <2>1 DEF ClaimInv, InOrder
  <1>14. FirstOwns'
    <2> SUFFICES ASSUME NEW p \in owned', NEW own \in Claimed', NEW c \in Claimed',
                        own.section = p.section
                 PROVE  First(own, c) \/ c.to <= p.from \/ p.to <= c.from
      BY DEF FirstOwns
    <2>1. CASE p \in owned
      <3>1. PICK d \in Claimed : d.section = p.section
        BY <2>1 DEF ClaimInv, PieceInv
      <3>2. own = d
        BY <1>0, <1>1, <1>2, <3>1
      <3>3. CASE c \in Claimed
        BY <2>1, <3>1, <3>2, <3>3 DEF ClaimInv, FirstOwns
      <3>4. CASE c = claim
        BY <1>0, <1>2, <3>1, <3>2, <3>4, BeforeIsFirst DEF ClaimInv, InOrder
      <3>5. QED
        BY <1>2, <3>3, <3>4
    <2>2. CASE p = piece
      <3>1. own = claim
        BY <1>0, <1>1, <1>2, <1>6, <2>2
      <3>2. CASE c \in Claimed /\ c.from < c.to
        <4>1. c.to <= claimedEnd
          BY <3>2 DEF ClaimInv, Reached
        <4>2. QED
          BY <1>1, <1>2, <1>4, <1>6, <2>2, <3>2, <4>1
      <3>3. CASE c.from = MaxAddress /\ c.to = MaxAddress
        <4>1. claim.to <= MaxAddress
          BY <1>0, ClaimFacts, AddressFacts
        <4>2. QED
          BY <1>6, <2>2, <3>3, <4>1
      <3>4. CASE c = claim
        BY <1>0, <1>1, <3>1, <3>4 DEF First
      <3>5. QED
        BY <1>1, <1>2, <3>2, <3>3, <3>4
    <2>3. QED
      BY <1>7, <2>1, <2>2
  <1>15. QED
    BY <1>9, <1>10, <1>11, <1>12, <1>13, <1>14 DEF ClaimInv

\* After the sweep, and before it, nothing of the sections changes.
LEMMA ClaimsStay ==
    ASSUME ClaimInv, [Next]_vars, owned' = owned, claimedEnd' = claimedEnd,
           Claimed' = Claimed, InOrder'
    PROVE  ClaimInv'
  BY DEF ClaimInv, PieceInv, FirstOwns, Separate, Reached, AllOwned

LEMMA ClaimInvStarts == ASSUME Start PROVE ClaimInv
  BY DEF Start, ClaimInv, PieceInv, Separate, Reached, AllOwned, InOrder, FirstOwns, Claimed

LEMMA ClaimInvKept ==
    ASSUME TypeInv, ClaimInv, [Next]_vars
    PROVE  ClaimInv'
  <1>0. Claims' = Claims
    BY NextFixes, FixedFacts
  <1>1. CASE \E claim \in pending : ClaimSection(claim)
    BY <1>1, ClaimSectionClaims
  <1>2. CASE \E range \in pending : MergeRange(range)
    <2>1. /\ phase = "merge" /\ phase' = "merge" /\ UNCHANGED <<owned, claimedEnd>>
      BY <1>2 DEF MergeRange
    <2>2. Claimed' = Claimed /\ InOrder'
      BY <2>1 DEF Claimed, InOrder
    <2>3. QED
      BY <2>1, <2>2, ClaimsStay
  <1>3. CASE UniverseMerged
    <2>1. /\ phase = "merge" /\ phase' = "claim" /\ pending' = Claims
          /\ UNCHANGED <<owned, claimedEnd>>
      BY <1>3 DEF UniverseMerged
    <2>2. Claimed' = Claimed /\ InOrder'
      BY <1>0, <2>1 DEF Claimed, InOrder
    <2>3. QED
      BY <2>1, <2>2, ClaimsStay
  <1>4. CASE SectionsClaimed
    <2>1. /\ phase = "claim" /\ phase' = "symbols" /\ pending = {}
          /\ UNCHANGED <<owned, claimedEnd>>
      BY <1>4 DEF SectionsClaimed
    <2>2. Claimed' = Claimed /\ InOrder'
      BY <1>0, <2>1 DEF Claimed, InOrder
    <2>3. QED
      BY <2>1, <2>2, ClaimsStay
  <1>5. ASSUME phase \notin {"merge", "claim"}, phase' \notin {"merge", "claim"},
               UNCHANGED <<owned, claimedEnd>>
        PROVE  ClaimInv'
    <2>1. Claimed' = Claimed /\ InOrder'
      BY <1>0, <1>5 DEF Claimed, InOrder
    <2>2. QED
      BY <1>5, <2>1, ClaimsStay
  <1>6. CASE \/ \E piece \in todo : EnterPiece(piece)
             \/ \E member \in pending : AttributeSymbol(member)
             \/ LeavePiece \/ SymbolsAttributed
    BY <1>5, <1>6 DEF EnterPiece, AttributeSymbol, LeavePiece, SymbolsAttributed
  <1>7. CASE \/ \E range \in todo : EnterRange(range)
             \/ \E piece \in pending : SkipPiece(piece)
             \/ LeaveRange \/ GapsNamed
    BY <1>5, <1>7 DEF EnterRange, SkipPiece, LeaveRange, GapsNamed
  <1>8. CASE UNCHANGED vars
    <2>1. UNCHANGED <<owned, claimedEnd, phase, pending>>
      BY <1>8 DEF vars
    <2>2. Claimed' = Claimed
      BY <1>0, <2>1 DEF Claimed
    <2>3. InOrder'
      BY <2>1, <2>2 DEF ClaimInv, InOrder
    <2>4. QED
      BY <2>1, <2>2, <2>3, ClaimsStay
  <1>9. QED
    BY <1>1, <1>2, <1>3, <1>4, <1>6, <1>7, <1>8 DEF Next, Attributed

\* Overlapping sections are resolved in the order of the claims.
LEMMA FirstClaims == ASSUME TypeInv, ClaimInv PROVE FirstClaimOwns
  <1> SUFFICES ASSUME phase \in {"symbols", "gaps", "done"},
                      NEW piece \in owned, NEW other \in Claims,
                      other.from < piece.to, piece.from < other.to
               PROVE  First(Claim(piece.section), other)
    BY DEF FirstClaimOwns, First
  <1>1. Claimed = Claims
    BY DEF Claimed
  <1>2. /\ other.from \in Nat /\ other.to \in Nat
        /\ piece.from \in Nat /\ piece.to \in Nat
    BY InputFacts, ClaimFacts, AddressFacts DEF TypeInv, VarTypes
  <1>3. PICK own \in Claims : own.section = piece.section
    BY <1>1 DEF ClaimInv, PieceInv
  <1>4. own = Claim(piece.section)
    BY <1>3, InputFacts, ClaimFacts DEF TypeInv
  <1>5. First(own, other) \/ other.to <= piece.from \/ piece.to <= other.from
    BY <1>1, <1>3 DEF ClaimInv, FirstOwns
  <1>6. QED
    BY <1>2, <1>4, <1>5

-----------------------------------------------------------------------------
(* Every section's bytes are the universe's, so a gap is never negative.    *)
LEMMA OwnedInUniverse ==
    ASSUME TypeInv, MergeInv, ClaimInv, NEW piece \in owned
    PROVE  \E u \in universe : u.from <= piece.from /\ piece.to <= u.to
  <1>1. phase # "merge" /\ Merged = UniverseRanges
    BY DEF TypeInv, Phases, Merging, Merged
  <1>2. PICK c \in Claims : c.from <= piece.from /\ c.to = piece.to
    BY DEF ClaimInv, PieceInv, Claimed
  <1>3. /\ c.from \in Nat /\ c.to \in Nat /\ piece.from \in Nat /\ piece.from < piece.to
        /\ c.from < c.to => [from |-> c.from, to |-> c.to] \in UniverseRanges
    BY InputFacts, ClaimFacts, AddressFacts DEF TypeInv, VarTypes, NothingEmpty
  <1>4. [from |-> c.from, to |-> c.to] \in Merged
    BY <1>1, <1>2, <1>3
  <1>5. PICK u \in universe : u.from <= c.from /\ c.to <= u.to
    BY <1>4 DEF MergeInv
  <1>6. u.from \in Nat
    BY AddressFacts DEF TypeInv, VarTypes
  <1>7. QED
    BY <1>2, <1>3, <1>5, <1>6

(* The sweep over the universe: the sections it has met lie behind the      *)
(* cursor, the others are still to come.                                   *)
Touches(piece, range) == piece.to > range.from /\ piece.from < range.to

GapInv ==
    phase = "gaps" /\ current # NoSpan =>
        /\ current.from <= cursor /\ cursor <= current.to
        /\ \A piece \in pending : Touches(piece, current)
        /\ \A piece \in owned : Touches(piece, current) => piece \in pending \/ piece.to <= cursor

\* A section that touches the current span of the universe lies in it.
LEMMA TouchingInside ==
    ASSUME TypeInv, MergeInv, ClaimInv, phase = "gaps", current # NoSpan,
           NEW piece \in owned, Touches(piece, current)
    PROVE  current.from <= piece.from /\ piece.to <= current.to
  <1>1. PICK range \in universe : current = Entered(range)
    BY DEF TypeInv, Phases, Naming
  <1>2. current.from = range.from /\ current.to = range.to
    BY <1>1 DEF Entered
  <1>3. PICK u \in universe : u.from <= piece.from /\ piece.to <= u.to
    BY OwnedInUniverse
  <1>4. /\ u.from \in Nat /\ u.to \in Nat /\ range.from \in Nat /\ range.to \in Nat
        /\ piece.from \in Nat /\ piece.to \in Nat
    BY AddressFacts DEF TypeInv, VarTypes
  <1>5. u = range
    BY <1>2, <1>3, <1>4 DEF MergeInv, Apart, Touches
  <1>6. QED
    BY <1>2, <1>3, <1>5

LEMMA SkipPieceFacts ==
    ASSUME TypeInv, MergeInv, ClaimInv, GapInv, [Next]_vars,
           NEW piece \in pending, SkipPiece(piece)
    PROVE  /\ GapInv'
           /\ \A other \in owned, x \in Addresses :
                 Covers(other, x) => ~(cursor <= x /\ x < piece.from)
           /\ current.from <= cursor /\ cursor <= current.to
           /\ piece.from <= current.to /\ piece.to <= current.to
           /\ current # NoSpan
  <1>1. /\ phase = "gaps" /\ current # NoSpan /\ pending \subseteq owned
        /\ current' = current /\ owned' = owned /\ phase' = phase
        /\ pending' = pending \ {piece} /\ cursor' = Larger(cursor, piece.to)
    BY DEF SkipPiece, TypeInv, Phases, Naming
  <1>2. /\ Addresses \subseteq Nat /\ cursor \in Nat
        /\ \A p \in owned : p.from \in Nat /\ p.to \in Nat /\ p.from < p.to
    BY AddressFacts DEF TypeInv, VarTypes, NothingEmpty
  <1>3. current.from \in Nat /\ current.to \in Nat
    <2>1. PICK range \in universe : current = Entered(range)
      BY <1>1 DEF TypeInv, Phases, Naming
    <2>2. range.from \in Nat /\ range.to \in Nat
      BY AddressFacts DEF TypeInv, VarTypes
    <2>3. QED
      BY <2>1, <2>2 DEF Entered
  <1>4. /\ Touches(piece, current) /\ current.from <= piece.from /\ piece.to <= current.to
        /\ current.from <= cursor /\ cursor <= current.to
    BY <1>1, TouchingInside DEF GapInv
  <1>5. cursor' \in Nat /\ cursor <= cursor' /\ piece.to <= cursor' /\ cursor' <= current.to
    BY <1>1, <1>2, <1>3, <1>4, LargerFacts
  <1>6. \A other \in pending : other # piece => piece.from < other.from
    BY DEF SkipPiece, Least, SpanBefore
  <1>7. ASSUME NEW other \in owned, NEW x \in Addresses, Covers(other, x),
               cursor <= x, x < piece.from
        PROVE  FALSE
    <2>1. x \in Nat /\ other.from <= x /\ x < other.to
      BY <1>2, <1>7 DEF Covers
    <2>2. Touches(other, current)
      BY <1>1, <1>2, <1>3, <1>4, <1>7, <2>1 DEF Touches
    <2>3. other \in pending
      BY <1>1, <1>2, <1>7, <2>1, <2>2 DEF GapInv
    <2>4. QED
      BY <1>1, <1>2, <1>6, <1>7, <2>1, <2>3
  <1>8. GapInv'
    <2>1. \A p \in pending' : Touches(p, current)
      BY <1>1 DEF GapInv
    <2>2. \A p \in owned : Touches(p, current) => p \in pending' \/ p.to <= cursor'
      BY <1>1, <1>2, <1>5 DEF GapInv
    <2>3. QED
      BY <1>1, <1>2, <1>3, <1>4, <1>5, <2>1, <2>2 DEF GapInv, Touches
  <1>9. QED
    BY <1>1, <1>2, <1>3, <1>4, <1>7, <1>8

LEMMA GapInvStarts == ASSUME Start PROVE GapInv
  BY DEF Start, GapInv

LEMMA GapInvKept ==
    ASSUME TypeInv, MergeInv, ClaimInv, GapInv, [Next]_vars
    PROVE  GapInv'
  <1>1. ASSUME NEW piece \in pending, SkipPiece(piece) PROVE GapInv'
    BY <1>1, SkipPieceFacts
  <1>2. ASSUME NEW range \in todo, EnterRange(range) PROVE GapInv'
    <2>1. /\ current' = Entered(range) /\ cursor' = range.from /\ owned' = owned
          /\ pending' = {piece \in owned : piece.to > range.from /\ piece.from < range.to}
          /\ range \in universe
      BY <1>2 DEF EnterRange, Entered, TypeInv, Phases, Naming
    <2>2. current'.from = range.from /\ current'.to = range.to
      BY <2>1 DEF Entered
    <2>3. range.from \in Nat /\ range.to \in Nat /\ range.from < range.to
      BY <2>1, AddressFacts DEF TypeInv, VarTypes, NothingEmpty
    <2>4. QED
      BY <2>1, <2>2, <2>3 DEF GapInv, Touches
  <1>3. CASE LeaveRange \/ GapsNamed
    BY <1>3 DEF LeaveRange, GapsNamed, GapInv
  <1>4. CASE UNCHANGED vars
    BY <1>4 DEF vars, GapInv, Touches, NoSpan
  <1>5. CASE SymbolsAttributed
    BY <1>5 DEF SymbolsAttributed, GapInv, NoSpan
  <1>6. CASE \/ \E range \in pending : MergeRange(range)
             \/ UniverseMerged
             \/ \E claim \in pending : ClaimSection(claim)
             \/ SectionsClaimed
    BY <1>6 DEF MergeRange, UniverseMerged, ClaimSection, SectionsClaimed, GapInv
  <1>7. CASE \/ \E piece \in todo : EnterPiece(piece)
             \/ \E member \in pending : AttributeSymbol(member)
             \/ LeavePiece
    BY <1>7 DEF EnterPiece, AttributeSymbol, LeavePiece, GapInv
  <1>8. QED
    BY <1>1, <1>2, <1>3, <1>4, <1>5, <1>6, <1>7 DEF Next, Attributed

-----------------------------------------------------------------------------
(* The bytes attributed so far, and that the spans tile them.              *)
Swept == IF current = NoSpan THEN {} ELSE Interval(current.from, cursor)

Left == {u \in universe \ todo : Entered(u) # current}

Bytes ==
    IF phase \in {"merge", "claim"} THEN {}
    ELSE IF phase = "symbols" THEN Covered(owned \ (todo \cup {current})) \cup Swept
    ELSE IF phase = "gaps" THEN Covered(owned) \cup Covered(Left) \cup Swept
    ELSE Covered(universe)

SpanInv == Tiles(spans, Bytes)

LEMMA TilesPrimed ==
    ASSUME NEW S, NEW B, spans' = S, Bytes' = B, Tiles(S, B)
    PROVE  SpanInv'
  BY DEF SpanInv, Tiles, Covered

\* A step that attributes the new bytes, and no others.
LEMMA SpansMore ==
    ASSUME SpanInv, NEW T, NEW C, Tiles(T, C), Bytes \cap C = {},
           spans' = spans \cup T, Bytes' = Bytes \cup C
    PROVE  SpanInv'
  <1>1. Tiles(spans \cup T, Bytes \cup C)
    BY TilesMore DEF SpanInv
  <1>2. QED
    BY <1>1, TilesPrimed

LEMMA SpansSame ==
    ASSUME SpanInv, spans' = spans, Bytes' = Bytes
    PROVE  SpanInv'
  BY TilesPrimed DEF SpanInv

LEMMA TilesNothing == Tiles({}, {})
  BY DEF Tiles, Covered

LEMMA PieceNotNoSpan ==
    ASSUME TypeInv
    PROVE  /\ NoSpan \notin owned
           /\ \A u \in universe : Entered(u) # NoSpan
  <1>1. \A p \in owned : p.from \in Nat /\ p.to \in Nat /\ p.from < p.to
    BY AddressFacts DEF TypeInv, VarTypes, NothingEmpty
  <1>2. \A u \in universe : u.from \in Nat /\ u.to \in Nat /\ u.from < u.to
    BY AddressFacts DEF TypeInv, VarTypes, NothingEmpty
  <1>3. NoSpan.from = 0 /\ NoSpan.to = 0 /\ \A u : Entered(u).from = u.from /\ Entered(u).to = u.to
    BY DEF NoSpan, Entered
  <1>4. QED
    BY <1>1, <1>2, <1>3

LEMMA EnterPieceTiles ==
    ASSUME TypeInv, ClaimInv, SpanInv, [Next]_vars, NEW piece \in todo, EnterPiece(piece)
    PROVE  SpanInv'
  <1>1. /\ phase = "symbols" /\ phase' = "symbols" /\ current = NoSpan
        /\ todo \subseteq owned /\ owned' = owned /\ todo' = todo \ {piece}
    BY DEF EnterPiece, TypeInv, Phases, Attributing
  <1>2. NoSpan \notin owned /\ piece \in owned
    BY <1>1, PieceNotNoSpan
  <1>3. /\ Addresses \subseteq Nat /\ piece.from \in Addresses /\ piece.to \in Addresses
        /\ piece.from < piece.to
        /\ piece.from \in Nat /\ piece.to \in Nat
        /\ \A p \in owned : p.from \in Nat /\ p.to \in Nat
    BY <1>2, AddressFacts DEF TypeInv, VarTypes, NothingEmpty
  <1>4. Bytes = Covered(owned \ todo)
    <2>1. owned \ (todo \cup {NoSpan}) = owned \ todo
      BY <1>2
    <2>2. QED
      BY <1>1, <2>1 DEF Bytes, Swept
  <1>5. CASE /\ spans' = spans \cup {Span(piece.from, piece.to, NoSymbolOwner(piece.section))}
             /\ current' = current
    <2>1. Tiles({Span(piece.from, piece.to, NoSymbolOwner(piece.section))},
                Interval(piece.from, piece.to))
      BY <1>3, TilesNonEmpty DEF NonEmpty
    <2>2. Bytes \cap Interval(piece.from, piece.to) = {}
      <3>1. ASSUME NEW x \in Addresses, piece.from <= x, x < piece.to, NEW p \in owned \ todo,
                   Covers(p, x)
            PROVE  FALSE
        <4>1. p.to <= piece.from \/ piece.to <= p.from
          BY <1>2, <3>1 DEF ClaimInv, Separate
        <4>2. x \in Nat /\ p.from <= x /\ x < p.to /\ p.to \in Nat /\ p.from \in Nat
          BY <1>3, <3>1 DEF Covers
        <4>3. QED
          BY <1>3, <3>1, <4>1, <4>2
      <3>2. QED
        BY <1>4, <3>1 DEF Covered, Interval
    <2>3. Bytes' = Bytes \cup Interval(piece.from, piece.to)
      <3>1. owned \ (todo' \cup {NoSpan}) = (owned \ todo) \cup {piece}
        BY <1>1, <1>2
      <3>2. Bytes' = Covered((owned \ todo) \cup {piece})
        BY <1>1, <1>5, <3>1 DEF Bytes, Swept, Covered, NoSpan
      <3>3. QED
        BY <1>4, <3>2 DEF Covered, Covers, Interval
    <2>4. QED
      BY <1>5, <2>1, <2>2, <2>3, SpansMore
  <1>6. CASE current' = piece /\ cursor' = piece.from /\ spans' = spans
    <2>1. owned \ (todo' \cup {piece}) = owned \ todo
      BY <1>1
    <2>2. Swept' = {}
      <3>1. \A x \in Addresses : ~(piece.from <= x /\ x < piece.from)
        BY <1>3
      <3>2. QED
        BY <1>6, <3>1 DEF Swept, Interval
    <2>3. Bytes' = Bytes
      BY <1>1, <1>4, <1>6, <2>1, <2>2 DEF Bytes, Covered
    <2>4. QED
      BY <1>6, <2>3, SpansSame
  <1>7. QED
    BY <1>1, <1>5, <1>6 DEF EnterPiece

\* What is left of the current span of a section is attributed to nothing yet.
LEMMA RestOfPiece ==
    ASSUME TypeInv, ClaimInv, phase = "symbols", current # NoSpan,
           NEW x \in Addresses, cursor <= x, x < current.to
    PROVE  x \notin Bytes
  <1>1. current \in owned /\ current.from <= cursor
    BY DEF TypeInv, Phases, Attributing
  <1>2. /\ x \in Nat /\ cursor \in Nat
        /\ \A p \in owned : p.from \in Nat /\ p.to \in Nat
    BY AddressFacts DEF TypeInv, VarTypes
  <1>3. x \notin Swept
    BY <1>2 DEF Swept, Interval
  <1>4. ASSUME NEW p \in owned, p # current, Covers(p, x) PROVE FALSE
    <2>1. p.to <= current.from \/ current.to <= p.from
      BY <1>1, <1>4 DEF ClaimInv, Separate
    <2>2. QED
      BY <1>1, <1>2, <1>4, <2>1 DEF Covers
  <1>5. QED
    BY <1>3, <1>4 DEF Bytes, Covered

LEMMA AttributeSymbolTiles ==
    ASSUME TypeInv, ClaimInv, SpanInv, [Next]_vars, NEW member \in pending, AttributeSymbol(member)
    PROVE  SpanInv'
  <1> DEFINE from == Larger(cursor, member.from)
  <1>1. /\ phase = "symbols" /\ current # NoSpan /\ current \in owned \ todo
        /\ pending \subseteq Members(current)
        /\ current.from <= cursor /\ cursor <= current.to
    BY DEF TypeInv, Phases, Attributing, AttributeSymbol
  <1>2. /\ current.section \in SectionIndices /\ current.from \in Addresses
        /\ current.to \in Addresses /\ cursor \in Addresses /\ Addresses \subseteq Nat
    BY <1>1, AddressFacts DEF TypeInv, VarTypes
  <1>3. /\ member.from \in Addresses /\ member.to \in Addresses /\ member.from < member.to
        /\ current.from <= member.from /\ member.to <= current.to
    BY <1>1, <1>2, InputFacts, MemberFacts DEF TypeInv
  <1>4. /\ phase' = "symbols"
        /\ spans' = spans \cup NonEmpty(cursor, member.from, NoSymbolOwner(current.section))
                          \cup NonEmpty(from, member.to, SymbolOwner(member.group))
        /\ cursor' = Larger(from, member.to)
        /\ UNCHANGED <<todo, owned, current>>
    BY <1>1 DEF AttributeSymbol
  <1>5. from \in Addresses /\ cursor <= from /\ member.from <= from
        /\ (from = cursor \/ from = member.from)
    BY <1>2, <1>3, LargerAddress
  <1> HIDE DEF from
  <1>6. cursor' \in Addresses /\ from <= cursor' /\ member.to <= cursor'
        /\ (cursor' = from \/ cursor' = member.to)
    BY <1>3, <1>4, <1>5, LargerAddress
  <1>7. /\ current.from \in Nat /\ current.to \in Nat /\ cursor \in Nat /\ member.from \in Nat
        /\ member.to \in Nat /\ from \in Nat /\ cursor' \in Nat
    BY <1>2, <1>3, <1>5, <1>6
  <1> DEFINE I == Interval(cursor, member.from)
             J == Interval(from, member.to)
             S == NonEmpty(cursor, member.from, NoSymbolOwner(current.section))
             T == NonEmpty(from, member.to, SymbolOwner(member.group))
  <1>8. Tiles(S, I) /\ Tiles(T, J)
    BY <1>2, <1>3, <1>5, TilesNonEmpty
  <1>9. I \cap J = {}
    <2>1. \A x \in Addresses : x < member.from => ~(from <= x)
      BY <1>2, <1>5, <1>7
    <2>2. QED
      BY <2>1 DEF Interval
  <1>10. Tiles(S \cup T, I \cup J)
    BY <1>8, <1>9, TilesMore
  <1>11. \A x \in I \cup J : x \in Addresses /\ cursor <= x /\ x < current.to
    BY <1>1, <1>2, <1>3, <1>5, <1>7 DEF Interval
  <1>12. Bytes \cap (I \cup J) = {}
    BY <1>1, <1>11, RestOfPiece
  <1>13. Interval(current.from, cursor') = Interval(current.from, cursor) \cup (I \cup J)
    <2>1. ASSUME NEW x \in Addresses
          PROVE  current.from <= x /\ x < cursor' <=>
                    \/ current.from <= x /\ x < cursor
                    \/ cursor <= x /\ x < member.from
                    \/ from <= x /\ x < member.to
      <3>1. x \in Nat
        BY <1>2
      <3>2. QED
        BY <1>1, <1>3, <1>5, <1>6, <1>7, <3>1
    <2>2. QED
      BY <2>1 DEF Interval
  <1>14. Bytes' = Bytes \cup (I \cup J)
    <2>1. Swept' = Interval(current.from, cursor')
      BY <1>1, <1>4 DEF Swept, Interval, NoSpan
    <2>2. Bytes' = Covered(owned \ (todo \cup {current})) \cup Interval(current.from, cursor')
      BY <1>4, <2>1 DEF Bytes, Covered
    <2>3. Bytes = Covered(owned \ (todo \cup {current})) \cup Interval(current.from, cursor)
      BY <1>1 DEF Bytes, Swept
    <2> HIDE DEF I, J
    <2>4. QED
      BY <1>13, <2>2, <2>3
  <1>15. spans' = spans \cup (S \cup T)
    BY <1>4
  <1> HIDE DEF I, J, S, T
  <1>16. QED
    BY <1>10, <1>12, <1>14, <1>15, SpansMore

LEMMA LeavePieceTiles ==
    ASSUME TypeInv, ClaimInv, SpanInv, [Next]_vars, LeavePiece
    PROVE  SpanInv'
  <1>1. /\ phase = "symbols" /\ phase' = "symbols" /\ current # NoSpan /\ current \in owned \ todo
        /\ todo \subseteq owned /\ current.from <= cursor /\ cursor <= current.to
        /\ current' = NoSpan /\ owned' = owned /\ todo' = todo
        /\ spans' = spans \cup NonEmpty(cursor, current.to, NoSymbolOwner(current.section))
    BY DEF LeavePiece, TypeInv, Phases, Attributing
  <1>2. /\ current.from \in Addresses /\ current.to \in Addresses /\ cursor \in Addresses
        /\ Addresses \subseteq Nat
    BY <1>1, AddressFacts DEF TypeInv, VarTypes
  <1>3. Tiles(NonEmpty(cursor, current.to, NoSymbolOwner(current.section)),
              Interval(cursor, current.to))
    BY <1>2, TilesNonEmpty
  <1>4. Bytes \cap Interval(cursor, current.to) = {}
    BY <1>1, RestOfPiece DEF Interval
  <1>5. Bytes' = Bytes \cup Interval(cursor, current.to)
    <2>1. owned \ (todo \cup {NoSpan}) = (owned \ (todo \cup {current})) \cup {current}
      BY <1>1, PieceNotNoSpan
    <2>2. Bytes' = Covered((owned \ (todo \cup {current})) \cup {current})
      BY <1>1, <2>1 DEF Bytes, Swept, Covered, NoSpan
    <2>3. Covered((owned \ (todo \cup {current})) \cup {current})
             = Covered(owned \ (todo \cup {current})) \cup Interval(current.from, current.to)
      BY DEF Covered, Covers, Interval
    <2>4. Interval(current.from, current.to)
             = Interval(current.from, cursor) \cup Interval(cursor, current.to)
      <3>1. \A x \in Addresses : current.from <= x /\ x < current.to <=>
                 \/ current.from <= x /\ x < cursor
                 \/ cursor <= x /\ x < current.to
        <4>1. /\ current.from \in Nat /\ current.to \in Nat /\ cursor \in Nat
              /\ current.from <= cursor /\ cursor <= current.to
          BY <1>1, <1>2
        <4>2. QED
          BY <1>2, <4>1
      <3>2. QED
        BY <3>1 DEF Interval
    <2>5. Bytes = Covered(owned \ (todo \cup {current})) \cup Interval(current.from, cursor)
      BY <1>1 DEF Bytes, Swept
    <2>6. QED
      BY <2>2, <2>3, <2>4, <2>5
  <1>6. QED
    BY <1>1, <1>3, <1>4, <1>5, SpansMore

LEMMA SymbolsAttributedTiles ==
    ASSUME TypeInv, SpanInv, [Next]_vars, SymbolsAttributed
    PROVE  SpanInv'
  <1>1. /\ phase = "symbols" /\ phase' = "gaps" /\ current = NoSpan /\ todo = {} /\ todo' = universe
        /\ current' = current /\ owned' = owned /\ spans' = spans /\ universe' = universe
    BY DEF SymbolsAttributed
  <1>2. owned \ (todo \cup {current}) = owned
    BY <1>1, PieceNotNoSpan
  <1>3. Bytes = Covered(owned)
    BY <1>1, <1>2 DEF Bytes, Swept
  <1>4. Left' = {}
    BY <1>1 DEF Left
  <1>5. Swept' = {}
    BY <1>1 DEF Swept, NoSpan
  <1>6. Bytes' = Covered(owned)
    BY <1>1, <1>4, <1>5 DEF Bytes, Covered
  <1>7. QED
    BY <1>1, <1>3, <1>6, SpansSame

\* What is left of the current span of the universe is attributed only to sections.
LEMMA RestOfRange ==
    ASSUME TypeInv, MergeInv, GapInv, phase = "gaps", current # NoSpan,
           NEW x \in Addresses, cursor <= x, x < current.to,
           \A piece \in owned : ~Covers(piece, x)
    PROVE  x \notin Bytes
  <1>1. PICK range \in universe \ todo : current = Entered(range)
    BY DEF TypeInv, Phases, Naming
  <1>2. current.from = range.from /\ current.to = range.to /\ current.from <= cursor
    BY <1>1 DEF Entered, GapInv
  <1>3. /\ x \in Nat /\ cursor \in Nat
        /\ \A u \in universe : u.from \in Nat /\ u.to \in Nat
    BY AddressFacts DEF TypeInv, VarTypes
  <1>4. x \notin Swept
    BY <1>3 DEF Swept, Interval
  <1>5. ASSUME NEW u \in Left, Covers(u, x) PROVE FALSE
    <2>1. u # range /\ u \in universe
      BY <1>1 DEF Left
    <2>2. u.to < range.from \/ range.to < u.from
      BY <1>1, <2>1 DEF MergeInv, Apart
    <2>3. QED
      BY <1>1, <1>2, <1>3, <1>5, <2>1, <2>2 DEF Covers
  <1>6. QED
    BY <1>4, <1>5 DEF Bytes, Covered

LEMMA EnterRangeTiles ==
    ASSUME TypeInv, SpanInv, [Next]_vars, NEW range \in todo, EnterRange(range)
    PROVE  SpanInv'
  <1>1. /\ phase = "gaps" /\ phase' = "gaps" /\ current = NoSpan /\ current' = Entered(range)
        /\ cursor' = range.from /\ todo' = todo \ {range} /\ todo \subseteq universe
        /\ UNCHANGED <<universe, owned, spans>>
    BY DEF EnterRange, Entered, TypeInv, Phases, Naming
  <1>2. range \in universe /\ range.from \in Nat /\ Entered(range).from = range.from
    BY <1>1, AddressFacts DEF TypeInv, VarTypes, Entered
  <1>3. Entered(range) # NoSpan /\ \A u \in universe : Entered(u) # NoSpan
    BY <1>2, PieceNotNoSpan
  <1>4. \A u \in universe : Entered(u) = Entered(range) => u = range
    <2>1. ASSUME NEW u \in universe, Entered(u) = Entered(range) PROVE u = range
      <3>1. /\ Entered(u).from = u.from /\ Entered(u).to = u.to
            /\ Entered(range).from = range.from /\ Entered(range).to = range.to
        BY DEF Entered
      <3>2. u.from = range.from /\ u.to = range.to
        BY <2>1, <3>1
      <3>3. u \in [from : Addresses, to : Addresses] /\ range \in [from : Addresses, to : Addresses]
        BY <1>2 DEF TypeInv, VarTypes
      <3>4. QED
        BY <3>2, <3>3
    <2>2. QED
      BY <2>1
  <1>5. Left = universe \ todo
    BY <1>1, <1>3 DEF Left
  <1>6. Left' = universe \ todo
    <2>1. Left' = {u \in universe \ (todo \ {range}) : Entered(u) # Entered(range)}
      BY <1>1 DEF Left, Entered
    <2>2. QED
      BY <1>1, <1>2, <1>4, <2>1
  <1>7. Swept' = {}
    <2>1. \A x \in Addresses : ~(range.from <= x /\ x < range.from)
      BY <1>2, AddressFacts
    <2>2. current' # NoSpan /\ current'.from = range.from
      BY <1>1, <1>2, <1>3
    <2>3. QED
      BY <1>1, <2>1, <2>2 DEF Swept, Interval, NoSpan
  <1>8. Bytes' = Covered(owned) \cup Covered(universe \ todo)
    <2>1. Covered(owned)' = Covered(owned) /\ Covered(Left)' = Covered(universe \ todo)
      BY <1>1, <1>6 DEF Covered
    <2>2. QED
      BY <1>1, <1>7, <2>1 DEF Bytes
  <1>9. Bytes = Covered(owned) \cup Covered(universe \ todo)
    BY <1>1, <1>5 DEF Bytes, Swept
  <1>10. QED
    BY <1>1, <1>8, <1>9, SpansSame

LEMMA SkipPieceTiles ==
    ASSUME TypeInv, MergeInv, ClaimInv, GapInv, SpanInv, [Next]_vars,
           NEW piece \in pending, SkipPiece(piece)
    PROVE  SpanInv'
  <1>1. /\ phase = "gaps" /\ phase' = "gaps" /\ current # NoSpan /\ pending \subseteq owned
        /\ spans' = spans \cup GapSpans(cursor, piece.from)
        /\ cursor' = Larger(cursor, piece.to)
        /\ UNCHANGED <<todo, universe, owned, current>>
    BY SkipPieceFacts DEF SkipPiece, TypeInv, Phases, Naming
  <1>2. /\ cursor \in Addresses /\ piece.from \in Addresses /\ piece.to \in Addresses
        /\ Addresses \subseteq Nat
    BY <1>1, AddressFacts DEF TypeInv, VarTypes
  <1>3. /\ current.from <= cursor /\ cursor <= current.to
        /\ piece.from <= current.to /\ piece.to <= current.to
        /\ \A other \in owned, x \in Addresses :
              Covers(other, x) => ~(cursor <= x /\ x < piece.from)
    BY SkipPieceFacts
  <1>4. current.from \in Nat /\ current.to \in Nat
    <2>1. PICK range \in universe : current = Entered(range)
      BY <1>1 DEF TypeInv, Phases, Naming
    <2>2. range.from \in Nat /\ range.to \in Nat
      BY <1>2 DEF TypeInv, VarTypes
    <2>3. QED
      BY <2>1, <2>2 DEF Entered
  <1>5. /\ cursor \in Nat /\ piece.from \in Nat /\ piece.to \in Nat
        /\ cursor' \in Nat /\ cursor <= cursor' /\ piece.to <= cursor'
        /\ cursor' = cursor \/ cursor' = piece.to
        /\ piece.from < piece.to
    <2>1. cursor \in Nat /\ piece.from \in Nat /\ piece.to \in Nat
      BY <1>2
    <2>2. piece.from < piece.to
      BY <1>1 DEF TypeInv, NothingEmpty
    <2>3. QED
      BY <1>1, <2>1, <2>2, LargerFacts
  <1>6. Tiles(GapSpans(cursor, piece.from), Interval(cursor, piece.from))
    BY <1>2, InputFacts, GapSpansTile DEF TypeInv
  <1>7. Bytes \cap Interval(cursor, piece.from) = {}
    <2>1. ASSUME NEW x \in Interval(cursor, piece.from) PROVE x \notin Bytes
      <3>1. x \in Addresses /\ cursor <= x /\ x < piece.from
        BY DEF Interval
      <3>2. x \in Nat /\ x < current.to
        BY <1>2, <1>3, <1>4, <1>5, <3>1
      <3>3. \A other \in owned : ~Covers(other, x)
        BY <1>3, <3>1
      <3>4. QED
        BY <1>1, <3>1, <3>2, <3>3, RestOfRange
    <2>2. QED
      BY <2>1
  <1>8. Bytes' = Bytes \cup Interval(cursor, piece.from)
    <2>1. /\ Covered(owned)' = Covered(owned) /\ Covered(Left)' = Covered(Left)
          /\ Swept' = Interval(current.from, cursor')
      BY <1>1 DEF Covered, Left, Swept, Interval, NoSpan, Entered
    <2>2. Bytes' = Covered(owned) \cup Covered(Left) \cup Interval(current.from, cursor')
      BY <1>1, <2>1 DEF Bytes
    <2>3. Bytes = Covered(owned) \cup Covered(Left) \cup Interval(current.from, cursor)
      BY <1>1 DEF Bytes, Swept
    <2>4. Interval(piece.from, piece.to) \subseteq Covered(owned)
      BY <1>1 DEF Covered, Covers, Interval
    <2>5. /\ Interval(current.from, cursor') \subseteq
                Interval(current.from, cursor) \cup Interval(cursor, piece.from)
                    \cup Interval(piece.from, piece.to)
          /\ Interval(current.from, cursor) \subseteq Interval(current.from, cursor')
      <3>1. ASSUME NEW x \in Addresses
            PROVE  /\ current.from <= x /\ x < cursor' =>
                         \/ current.from <= x /\ x < cursor
                         \/ cursor <= x /\ x < piece.from
                         \/ piece.from <= x /\ x < piece.to
                   /\ current.from <= x /\ x < cursor => current.from <= x /\ x < cursor'
        <4>1. x \in Nat
          BY <1>2
        <4>2. QED
          BY <1>3, <1>4, <1>5, <4>1
      <3>2. QED
        BY <3>1 DEF Interval
    <2>6. Interval(cursor, piece.from) \subseteq Interval(current.from, cursor')
      <3>1. ASSUME NEW x \in Addresses, cursor <= x, x < piece.from
            PROVE  current.from <= x /\ x < cursor'
        <4>1. x \in Nat
          BY <1>2
        <4>2. QED
          BY <1>3, <1>4, <1>5, <3>1, <4>1
      <3>2. QED
        BY <3>1 DEF Interval
    <2>7. QED
      BY <2>2, <2>3, <2>4, <2>5, <2>6
  <1>9. QED
    BY <1>1, <1>6, <1>7, <1>8, SpansMore

LEMMA LeaveRangeTiles ==
    ASSUME TypeInv, MergeInv, ClaimInv, GapInv, SpanInv, [Next]_vars, LeaveRange
    PROVE  SpanInv'
  <1>1. /\ phase = "gaps" /\ phase' = "gaps" /\ current # NoSpan /\ current' = NoSpan /\ pending = {}
        /\ spans' = spans \cup GapSpans(cursor, current.to)
        /\ UNCHANGED <<todo, universe, owned>>
    BY DEF LeaveRange
  <1>2. PICK range \in universe \ todo : current = Entered(range)
    BY <1>1 DEF TypeInv, Phases, Naming
  <1>3. /\ Addresses \subseteq Nat /\ cursor \in Addresses /\ current.to \in Addresses
        /\ current.from \in Addresses /\ current.from = range.from /\ current.to = range.to
        /\ current.from <= cursor /\ cursor <= current.to
        /\ \A p \in owned : p.from \in Nat /\ p.to \in Nat
    BY <1>1, <1>2, AddressFacts DEF TypeInv, VarTypes, Entered, GapInv
  <1>4. Tiles(GapSpans(cursor, current.to), Interval(cursor, current.to))
    BY <1>3, InputFacts, GapSpansTile DEF TypeInv
  <1>5. Bytes \cap Interval(cursor, current.to) = {}
    <2>1. ASSUME NEW x \in Interval(cursor, current.to) PROVE x \notin Bytes
      <3>1. /\ x \in Addresses /\ x \in Nat /\ cursor <= x /\ x < current.to
            /\ cursor \in Nat /\ current.from \in Nat /\ current.to \in Nat
        BY <1>3 DEF Interval
      <3>2. ASSUME NEW p \in owned, Covers(p, x) PROVE FALSE
        <4>1. p.from <= x /\ x < p.to /\ p.from \in Nat /\ p.to \in Nat
          BY <1>3, <3>2 DEF Covers
        <4>2. Touches(p, current)
          BY <1>3, <3>1, <4>1 DEF Touches
        <4>3. p.to <= cursor
          BY <1>1, <4>2 DEF GapInv
        <4>4. QED
          BY <3>1, <4>1, <4>3
      <3>3. QED
        BY <1>1, <3>1, <3>2, RestOfRange
    <2>2. QED
      BY <2>1
  <1>6. Bytes' = Bytes \cup Interval(cursor, current.to)
    <2>1. Left' = Left \cup {range}
      <3>1. Left' = universe \ todo
        BY <1>1, PieceNotNoSpan DEF Left, Entered
      <3>2. \A u \in universe : Entered(u) = current => u = range
        <4>1. ASSUME NEW u \in universe, Entered(u) = current PROVE u = range
          <5>1. Entered(u).from = u.from /\ Entered(u).to = u.to
            BY DEF Entered
          <5>2. u.from = range.from /\ u.to = range.to
            BY <1>3, <4>1, <5>1
          <5>3. /\ u \in [from : Addresses, to : Addresses]
                /\ range \in [from : Addresses, to : Addresses]
            BY <1>2 DEF TypeInv, VarTypes
          <5>4. QED
            BY <5>2, <5>3
        <4>2. QED
          BY <4>1
      <3>3. QED
        BY <1>2, <3>1, <3>2 DEF Left
    <2>2. Covered(Left)' = Covered(Left) \cup Interval(current.from, current.to)
      <3>1. Covered(Left)' = Covered(Left \cup {range})
        BY <2>1 DEF Covered
      <3>2. QED
        BY <1>3, <3>1 DEF Covered, Covers, Interval
    <2>3. Swept' = {} /\ Covered(owned)' = Covered(owned)
      BY <1>1 DEF Swept, Covered, NoSpan
    <2>4. Bytes' = Covered(owned) \cup Covered(Left) \cup Interval(current.from, current.to)
      BY <1>1, <2>2, <2>3 DEF Bytes
    <2>5. Bytes = Covered(owned) \cup Covered(Left) \cup Interval(current.from, cursor)
      BY <1>1 DEF Bytes, Swept
    <2>6. Interval(current.from, current.to)
             = Interval(current.from, cursor) \cup Interval(cursor, current.to)
      <3>1. \A x \in Addresses : current.from <= x /\ x < current.to <=>
                 \/ current.from <= x /\ x < cursor
                 \/ cursor <= x /\ x < current.to
        <4>1. current.from \in Nat /\ current.to \in Nat /\ cursor \in Nat
          BY <1>3
        <4>2. QED
          BY <1>3, <4>1
      <3>2. QED
        BY <3>1 DEF Interval
    <2>7. QED
      BY <2>4, <2>5, <2>6
  <1>7. QED
    BY <1>1, <1>4, <1>5, <1>6, SpansMore

LEMMA GapsNamedTiles ==
    ASSUME TypeInv, MergeInv, ClaimInv, SpanInv, [Next]_vars, GapsNamed
    PROVE  SpanInv'
  <1>1. /\ phase = "gaps" /\ phase' = "done" /\ current = NoSpan /\ todo = {}
        /\ spans' = spans /\ universe' = universe
    BY DEF GapsNamed
  <1>2. Left = universe /\ Swept = {}
    BY <1>1, PieceNotNoSpan DEF Left, Swept
  <1>3. Covered(owned) \subseteq Covered(universe)
    <2>1. ASSUME NEW x \in Addresses, NEW p \in owned, Covers(p, x)
          PROVE  \E u \in universe : Covers(u, x)
      <3>1. PICK u \in universe : u.from <= p.from /\ p.to <= u.to
        BY OwnedInUniverse
      <3>2. /\ x \in Nat /\ p.from \in Nat /\ p.to \in Nat /\ u.from \in Nat /\ u.to \in Nat
        BY AddressFacts DEF TypeInv, VarTypes
      <3>3. Covers(u, x)
        BY <2>1, <3>1, <3>2 DEF Covers
      <3>4. QED
        BY <3>3
    <2>2. QED
      BY <2>1 DEF Covered
  <1>4. Bytes = Covered(universe)
    BY <1>1, <1>2, <1>3 DEF Bytes
  <1>5. Bytes' = Covered(universe)
    BY <1>1 DEF Bytes, Covered
  <1>6. QED
    BY <1>1, <1>4, <1>5, SpansSame

LEMMA SpanInvStarts == ASSUME Start PROVE SpanInv
  BY TilesNothing DEF Start, SpanInv, Bytes

LEMMA SpanInvKept ==
    ASSUME TypeInv, MergeInv, ClaimInv, GapInv, SpanInv, [Next]_vars
    PROVE  SpanInv'
  <1>1. CASE UNCHANGED vars
    <2>1. spans' = spans /\ Bytes' = Bytes
      BY <1>1 DEF vars, Bytes, Covered, Left, Swept, Interval, NoSpan, Entered
    <2>2. QED
      BY <2>1, SpansSame
  <1>2. CASE \/ \E range \in pending : MergeRange(range)
             \/ UniverseMerged
             \/ \E claim \in pending : ClaimSection(claim)
    <2>1. phase \in {"merge", "claim"} /\ phase' \in {"merge", "claim"} /\ spans' = spans
      BY <1>2 DEF MergeRange, UniverseMerged, ClaimSection
    <2>2. Bytes' = Bytes
      BY <2>1 DEF Bytes
    <2>3. QED
      BY <2>1, <2>2, SpansSame
  <1>3. CASE SectionsClaimed
    <2>1. /\ phase = "claim" /\ phase' = "symbols" /\ spans' = spans
          /\ todo' = owned /\ owned' = owned /\ current' = current
      BY <1>3 DEF SectionsClaimed
    <2>2. current = NoSpan
      BY <2>1 DEF TypeInv, Phases, Unattributed
    <2>3. Bytes = {}
      BY <2>1 DEF Bytes
    <2>4. Bytes' = {}
      <3>1. owned' \ (todo' \cup {current'}) = {}
        BY <2>1
      <3>2. Swept' = {}
        BY <2>1, <2>2 DEF Swept, NoSpan
      <3>3. QED
        BY <2>1, <3>1, <3>2 DEF Bytes, Covered
    <2>5. QED
      BY <2>1, <2>3, <2>4, SpansSame
  <1>4. QED
    BY <1>1, <1>2, <1>3, EnterPieceTiles, AttributeSymbolTiles, LeavePieceTiles,
       SymbolsAttributedTiles, EnterRangeTiles, SkipPieceTiles, LeaveRangeTiles,
       GapsNamedTiles DEF Next, Attributed

\* The merged universe holds the bytes of the input's extents and no others.
LEMMA UniverseBytes ==
    ASSUME TypeInv, MergeInv, phase = "done", NEW x \in Addresses
    PROVE  x \in Covered(universe) <=>
              \/ space = "file" /\ x < input.fileSize
              \/ \E k \in Segments : Covers(Bounds(input.segments[k], space), x)
              \/ \E i \in SectionIndices : Covers(Bounds(Section(i), space), x)
  <1> DEFINE All == {Bounds(input.segments[k], space) : k \in Segments}
                      \cup {Bounds(Section(i), space) : i \in SectionIndices}
                      \cup (IF space = "file" THEN {[from |-> 0, to |-> input.fileSize]} ELSE {})
  <1>1. Merged = UniverseRanges /\ x \in Nat
    BY AddressFacts DEF Merged
  <1>2. /\ IsInput(input) /\ space \in Spaces /\ input.fileSize \in Nat
    BY InputFacts, AddressFacts DEF TypeInv, IsInput
  <1>3. \A r \in All : r.from \in Nat /\ r.to \in Nat
    <2>1. \A k \in Segments : /\ Bounds(input.segments[k], space).from \in Nat
                              /\ Bounds(input.segments[k], space).to \in Nat
      BY <1>2, BoundsFacts, AddressFacts DEF IsInput, Segments
    <2>2. \A i \in SectionIndices : /\ Bounds(Section(i), space).from \in Nat
                                    /\ Bounds(Section(i), space).to \in Nat
      BY <1>2, BoundsFacts, AddressFacts DEF IsInput, SectionIndices, Section
    <2>3. QED
      BY <1>2, <2>1, <2>2
  <1>4. UniverseRanges = {r \in All : r.from < r.to}
    BY DEF UniverseRanges
  <1>5. (\E r \in All : Covers(r, x)) <=>
              \/ space = "file" /\ x < input.fileSize
              \/ \E k \in Segments : Covers(Bounds(input.segments[k], space), x)
              \/ \E i \in SectionIndices : Covers(Bounds(Section(i), space), x)
    <2>1. [from |-> 0, to |-> input.fileSize].from = 0
          /\ [from |-> 0, to |-> input.fileSize].to = input.fileSize
      OBVIOUS
    <2>2. Covers([from |-> 0, to |-> input.fileSize], x) <=> x < input.fileSize
      BY <1>1, <2>1 DEF Covers
    <2>3. QED
      BY <2>2
  <1> HIDE DEF All
  <1>6. (\E r \in All : Covers(r, x)) <=> \E r \in UniverseRanges : Covers(r, x)
    BY <1>1, <1>3, <1>4 DEF Covers
  <1>7. ASSUME NEW r \in UniverseRanges, Covers(r, x) PROVE \E u \in universe : Covers(u, x)
    <2>1. PICK u \in universe : u.from <= r.from /\ r.to <= u.to
      BY <1>1 DEF MergeInv
    <2>2. u.from \in Nat /\ u.to \in Nat /\ r.from \in Nat /\ r.to \in Nat
      BY <1>3, <1>4, AddressFacts DEF TypeInv, VarTypes
    <2>3. Covers(u, x)
      BY <1>1, <1>7, <2>1, <2>2 DEF Covers
    <2>4. QED
      BY <2>3
  <1>8. (\E u \in universe : Covers(u, x)) => \E r \in UniverseRanges : Covers(r, x)
    BY <1>1 DEF MergeInv
  <1>9. QED
    BY <1>5, <1>6, <1>7, <1>8 DEF Covered

LEMMA BytesOnce == ASSUME TypeInv, MergeInv, SpanInv PROVE EveryByteOnce
  <1> SUFFICES ASSUME phase = "done", NEW x \in Addresses
               PROVE  Cardinality({span \in spans : Covers(span, x)}) =
                        IF \/ space = "file" /\ x < input.fileSize
                           \/ \E k \in Segments : Covers(Bounds(input.segments[k], space), x)
                           \/ \E i \in SectionIndices : Covers(Bounds(Section(i), space), x)
                        THEN 1 ELSE 0
    BY DEF EveryByteOnce
  <1>1. Tiles(spans, Covered(universe))
    BY DEF SpanInv, Bytes
  <1>2. ASSUME x \in Covered(universe)
        PROVE  Cardinality({span \in spans : Covers(span, x)}) = 1
    <2>1. PICK s \in spans : Covers(s, x)
      BY <1>1, <1>2 DEF Tiles, Covered
    <2>2. {span \in spans : Covers(span, x)} = {s}
      BY <1>1, <2>1 DEF Tiles
    <2>3. QED
      BY <2>2, FS_Singleton
  <1>3. ASSUME x \notin Covered(universe)
        PROVE  Cardinality({span \in spans : Covers(span, x)}) = 0
    <2>1. {span \in spans : Covers(span, x)} = {}
      BY <1>1, <1>3 DEF Tiles, Covered
    <2>2. QED
      BY <2>1, FS_EmptySet
  <1>4. QED
    BY <1>2, <1>3, UniverseBytes

-----------------------------------------------------------------------------
(* The sweep over the symbols of a section: those it has met end before the *)
(* cursor, and each span belongs to the right one of all its symbols, those *)
(* to come included.                                                       *)
Visited == IF phase = "symbols" THEN owned \ todo
           ELSE IF phase \in {"gaps", "done"} THEN owned ELSE {}

Within(span, piece) ==
    /\ Section(piece.section).extent["vm"] # NoRange
    /\ piece.from <= span.from /\ span.to <= piece.to

Ahead(m, n) == m.from < n.from \/ (m.from = n.from /\ m.to >= n.to)

\* What OutermostSymbolOwns says of one span.
RightOwner(span, piece) ==
    \A member \in Members(piece) :
        member.from < span.to /\ span.from < member.to =>
            /\ span.owner.what = "symbol"
            /\ Member(span.owner.of, piece).from <= span.from
            /\ span.to <= Member(span.owner.of, piece).to
            /\ Ahead(Member(span.owner.of, piece), member)

InSweep == phase = "symbols" /\ current # NoSpan

Behind == InSweep => \A member \in Members(current) \ pending : member.to <= cursor

\* The group that moved the cursor here precedes all that are left.
LastInv ==
    InSweep =>
        \/ lastOwner = NoGroup /\ cursor = current.from
        \/ \E last \in Members(current) :
              /\ last.group = lastOwner /\ last.to = cursor
              /\ \A member \in pending : MemberBefore(last, member)

SpansRight == \A piece \in Visited, span \in spans : Within(span, piece) => RightOwner(span, piece)

\* A symbol is reported because the one before it starts and ends earlier.
OverlapInv ==
    \A d \in diagnostics :
        d.code = "SymbolOverlap" =>
            /\ space = "vm"
            /\ \E piece \in owned :
                  \E last, member \in Members(piece) :
                      /\ Section(piece.section).extent["vm"] # NoRange
                      /\ d.of = member.group /\ d.with = last.group
                      /\ last.from < member.from /\ member.from < last.to /\ last.to < member.to

SweepInv == Behind /\ LastInv /\ SpansRight /\ OverlapInv

LEMMA SweepInvStarts == ASSUME Start PROVE SweepInv
  BY DEF Start, SweepInv, Behind, LastInv, InSweep, SpansRight, OverlapInv, Visited

\* What depends on the image and the space only.
LEMMA SweepFixed ==
    ASSUME input' = input, space' = space
    PROVE  /\ \A group, piece : Member(group, piece)' = Member(group, piece)
           /\ \A span, piece : Within(span, piece)' <=> Within(span, piece)
           /\ \A span, piece : RightOwner(span, piece)' <=> RightOwner(span, piece)
           /\ \A m, n : MemberBefore(m, n)' <=> MemberBefore(m, n)
  <1>1. \A group, piece : Member(group, piece)' = Member(group, piece)
    BY DEF Member, GroupFrom, Section
  <1>2. \A span, piece : Within(span, piece)' <=> Within(span, piece)
    BY DEF Within, Section
  <1>3. \A piece : Members(piece)' = Members(piece)
    BY FixedFacts
  <1>4. \A span, piece : RightOwner(span, piece)' <=> RightOwner(span, piece)
    BY <1>1, <1>3 DEF RightOwner, Ahead
  <1>5. \A m, n : MemberBefore(m, n)' <=> MemberBefore(m, n)
    BY DEF MemberBefore
  <1>6. QED
    BY <1>1, <1>2, <1>4, <1>5

\* A step that enters no span, and adds only spans that are right.
LEMMA SpansRightKept ==
    ASSUME SpansRight, input' = input, space' = space,
           \A piece \in Visited', span \in spans' :
               Within(span, piece) => (piece \in Visited /\ span \in spans) \/ RightOwner(span, piece)
    PROVE  SpansRight'
  <1>1. \A piece \in Visited', span \in spans' : Within(span, piece) => RightOwner(span, piece)
    BY DEF SpansRight
  <1>2. QED
    BY <1>1, SweepFixed DEF SpansRight

\* A span lies within one span of a section only.
LEMMA WithinOne ==
    ASSUME TypeInv, ClaimInv, NEW p \in owned, NEW q \in owned, NEW span,
           span.from \in Addresses, span.to \in Addresses, span.from < span.to,
           p.from <= span.from, span.to <= p.to, q.from <= span.from, span.to <= q.to
    PROVE  p = q
  <1>1. p = q \/ p.to <= q.from \/ q.to <= p.from
    BY DEF ClaimInv, Separate
  <1>2. /\ p.from \in Nat /\ p.to \in Nat /\ q.from \in Nat /\ q.to \in Nat
        /\ span.from \in Nat /\ span.to \in Nat
    BY AddressFacts DEF TypeInv, VarTypes
  <1>3. QED
    BY <1>1, <1>2

LEMMA EnterPieceSweeps ==
    ASSUME TypeInv, ClaimInv, SpanInv, SweepInv, [Next]_vars, NEW piece \in todo, EnterPiece(piece)
    PROVE  SweepInv'
  <1>0. input' = input /\ space' = space
    BY NextFixes
  <1>1. /\ phase = "symbols" /\ phase' = "symbols" /\ current = NoSpan
        /\ todo \subseteq owned /\ owned' = owned /\ todo' = todo \ {piece}
        /\ diagnostics' = diagnostics /\ piece \in owned
    BY DEF EnterPiece, TypeInv, Phases, Attributing
  <1>2. /\ Addresses \subseteq Nat /\ piece.from \in Addresses /\ piece.to \in Addresses
        /\ piece.from < piece.to /\ piece.from \in Nat /\ piece.to \in Nat
    BY <1>1, AddressFacts DEF TypeInv, VarTypes, NothingEmpty
  <1>3. Visited' = Visited \cup {piece}
    BY <1>1 DEF Visited
  <1>4. OverlapInv'
    BY <1>0, <1>1, FixedFacts DEF SweepInv, OverlapInv, Section
  <1>5. ASSUME NEW span \in spans, Within(span, piece) PROVE FALSE
    <2>1. /\ span.from \in Addresses /\ span.to \in Addresses /\ span.from < span.to
      BY DEF TypeInv, SpanTypes
    <2>2. span.from \in Nat /\ span.to \in Nat
      BY <1>2, <2>1
    <2>3. Covers(span, span.from)
      BY <2>1, <2>2 DEF Covers
    <2>4. span.from \in Bytes
      BY <2>1, <2>3 DEF SpanInv, Tiles, Covered
    <2>5. Bytes = Covered(owned \ todo)
      <3>1. owned \ (todo \cup {NoSpan}) = owned \ todo
        BY PieceNotNoSpan
      <3>2. QED
        BY <1>1, <3>1 DEF Bytes, Swept
    <2>6. PICK p \in owned \ todo : Covers(p, span.from)
      BY <2>4, <2>5 DEF Covered
    <2>7. p # piece /\ p.from \in Nat /\ p.to \in Nat
      BY <1>2 DEF TypeInv, VarTypes
    <2>8. p.to <= piece.from \/ piece.to <= p.from
      BY <1>1, <2>7 DEF ClaimInv, Separate
    <2>9. QED
      BY <1>2, <1>5, <2>1, <2>2, <2>6, <2>7, <2>8 DEF Covers, Within
  <1>6. CASE /\ Section(piece.section).extent["vm"] = NoRange
             /\ spans' = spans \cup {Span(piece.from, piece.to, NoSymbolOwner(piece.section))}
             /\ current' = current
    <2>1. ASSUME NEW p \in Visited', NEW span \in spans', Within(span, p)
          PROVE  p \in Visited /\ span \in spans
      <3>1. p \in owned /\ p # piece
        BY <1>1, <1>3, <1>6, <2>1 DEF Visited, Within
      <3>2. CASE span = Span(piece.from, piece.to, NoSymbolOwner(piece.section))
        <4>1. span.from = piece.from /\ span.to = piece.to
          BY <3>2 DEF Span
        <4>2. p.from <= piece.from /\ piece.to <= p.to /\ piece.from <= piece.from /\ piece.to <= piece.to
          BY <1>2, <2>1, <4>1 DEF Within
        <4>3. p = piece
          BY <1>1, <1>2, <3>1, <4>2, WithinOne
        <4>4. QED
          BY <3>1, <4>3
      <3>3. QED
        BY <1>3, <1>6, <3>1, <3>2
    <2>2. SpansRight'
      BY <1>0, <2>1, SpansRightKept DEF SweepInv
    <2>3. Behind' /\ LastInv'
      BY <1>1, <1>6 DEF Behind, LastInv, InSweep, NoSpan
    <2>4. QED
      BY <1>4, <2>2, <2>3 DEF SweepInv
  <1>7. CASE /\ current' = piece /\ cursor' = piece.from /\ spans' = spans
             /\ pending' = Members(piece) /\ lastOwner' = NoGroup
    <2>1. SpansRight'
      BY <1>0, <1>3, <1>5, <1>7, SpansRightKept DEF SweepInv
    <2>2. Members(current)' = Members(piece)
      BY <1>0, <1>7, FixedFacts
    <2>3. Behind' /\ LastInv'
      BY <1>7, <2>2 DEF Behind, LastInv, InSweep, NoGroup
    <2>4. QED
      BY <1>4, <2>1, <2>3 DEF SweepInv
  <1>8. QED
    BY <1>1, <1>6, <1>7 DEF EnterPiece

\* The members of a span that starts where the cursor stands, or behind it, are to come.
LEMMA AttributeSymbolSweeps ==
    ASSUME TypeInv, ClaimInv, SweepInv, [Next]_vars, NEW member \in pending, AttributeSymbol(member)
    PROVE  SweepInv'
  <1> DEFINE from == Larger(cursor, member.from)
             Gap  == NonEmpty(cursor, member.from, NoSymbolOwner(current.section))
             Own  == NonEmpty(from, member.to, SymbolOwner(member.group))
  <1>0. input' = input /\ space' = space
    BY NextFixes
  <1>1. /\ phase = "symbols" /\ current # NoSpan /\ current \in owned /\ current \in owned \ todo
        /\ pending \subseteq Members(current)
        /\ current.from <= cursor /\ cursor <= current.to
    BY DEF TypeInv, Phases, Attributing, AttributeSymbol
  <1>2. /\ current.section \in SectionIndices /\ current.from \in Addresses
        /\ current.to \in Addresses /\ cursor \in Addresses /\ Addresses \subseteq Nat
    BY <1>1, AddressFacts DEF TypeInv, VarTypes
  <1>3. \A m \in Members(current) :
           /\ m.from \in Addresses /\ m.to \in Addresses /\ m.from \in Nat /\ m.to \in Nat
           /\ current.from <= m.from /\ m.from < m.to /\ m.to <= current.to
           /\ m.group \in Groups(input)
    BY <1>1, <1>2, InputFacts, MemberFacts DEF TypeInv
  <1>4. /\ phase' = "symbols" /\ pending' = pending \ {member}
        /\ spans' = spans \cup Gap \cup Own
        /\ cursor' = Larger(from, member.to)
        /\ lastOwner' = IF from < member.to THEN member.group ELSE lastOwner
        /\ \A m \in pending \ {member} : MemberBefore(member, m)
        /\ UNCHANGED <<todo, owned, current>>
    BY <1>1 DEF AttributeSymbol, Least
  <1>5. from \in Addresses /\ cursor <= from /\ member.from <= from
        /\ (from = cursor \/ from = member.from)
    BY <1>1, <1>2, <1>3, LargerAddress
  <1> HIDE DEF from
  <1>6. cursor' \in Addresses /\ from <= cursor' /\ member.to <= cursor'
        /\ (cursor' = from \/ cursor' = member.to)
    BY <1>1, <1>3, <1>4, <1>5, LargerAddress
  <1>7. /\ current.from \in Nat /\ current.to \in Nat /\ cursor \in Nat /\ member.from \in Nat
        /\ member.to \in Nat /\ from \in Nat /\ cursor' \in Nat
    BY <1>1, <1>2, <1>3, <1>5, <1>6
  <1>8. \A m \in Members(current) \ pending : m.to <= cursor
    BY <1>1 DEF SweepInv, Behind, InSweep
  <1>9. \A m \in pending : m = member \/ Ahead(member, m)
    <2>1. ASSUME NEW m \in pending, m # member PROVE Ahead(member, m)
      <3>1. MemberBefore(member, m)
        BY <1>4, <2>1
      <3>2. m.from \in Nat /\ m.to \in Nat
        BY <1>1, <1>3
      <3>3. QED
        BY <1>7, <3>1, <3>2 DEF MemberBefore, Ahead
    <2>2. QED
      BY <2>1
  <1>10. Member(member.group, current) = member
    BY <1>1 DEF Members, Member
  <1>11. ASSUME NEW span \in Gap
         PROVE  /\ span.from = cursor /\ span.to = member.from /\ cursor < member.from
                /\ RightOwner(span, current)
    <2>1. span.from = cursor /\ span.to = member.from /\ cursor < member.from
      BY <1>11 DEF NonEmpty, Span
    <2>2. ASSUME NEW m \in Members(current), m.from < span.to, span.from < m.to PROVE FALSE
      <3>1. m \in pending
        BY <1>3, <1>7, <1>8, <2>1, <2>2
      <3>2. member.from <= m.from
        BY <1>1, <1>3, <1>9, <3>1 DEF Ahead
      <3>3. QED
        BY <1>1, <1>3, <1>7, <2>1, <2>2, <3>2
    <2>3. QED
      BY <2>1, <2>2 DEF RightOwner
  <1>12. ASSUME NEW span \in Own
         PROVE  /\ span.from = from /\ span.to = member.to /\ from < member.to
                /\ RightOwner(span, current)
    <2>1. /\ span.from = from /\ span.to = member.to /\ from < member.to
          /\ span.owner.what = "symbol" /\ span.owner.of = member.group
      BY <1>12 DEF NonEmpty, Span, SymbolOwner
    <2>2. ASSUME NEW m \in Members(current), m.from < span.to, span.from < m.to
          PROVE  Ahead(member, m)
      <3>1. m \in pending
        BY <1>3, <1>5, <1>7, <1>8, <2>1, <2>2
      <3>2. QED
        BY <1>7, <1>9, <3>1 DEF Ahead
    <2>3. QED
      BY <1>5, <1>7, <1>10, <2>1, <2>2 DEF RightOwner
  <1>13. ASSUME NEW p \in Visited', NEW span \in spans', Within(span, p)
         PROVE  (p \in Visited /\ span \in spans) \/ RightOwner(span, p)
    <2>1. p \in Visited /\ p \in owned
      BY <1>1, <1>4 DEF Visited
    <2>2. CASE span \in Gap \cup Own
      <3>1. /\ span.from \in Addresses /\ span.to \in Addresses /\ span.from < span.to
            /\ current.from <= span.from /\ span.to <= current.to
            /\ RightOwner(span, current)
        <4>1. CASE span \in Gap
          BY <1>1, <1>2, <1>3, <1>7, <1>11, <4>1
        <4>2. CASE span \in Own
          BY <1>1, <1>2, <1>3, <1>5, <1>7, <1>12, <4>2
        <4>3. QED
          BY <2>2, <4>1, <4>2
      <3>2. p = current
        BY <1>1, <1>13, <2>1, <3>1, WithinOne DEF Within
      <3>3. QED
        BY <3>1, <3>2
    <2>3. QED
      BY <1>4, <2>1, <2>2
  <1>14. SpansRight'
    BY <1>0, <1>13, SpansRightKept DEF SweepInv
  <1>15. Members(current)' = Members(current)
    BY <1>0, <1>4, CurrentMembers
  <1>16. Behind'
    <2>1. ASSUME NEW m \in Members(current) \ pending' PROVE m.to <= cursor'
      <3>1. CASE m = member
        BY <1>6, <3>1
      <3>2. CASE m # member
        BY <1>3, <1>4, <1>5, <1>6, <1>7, <1>8, <2>1, <3>2
      <3>3. QED
        BY <3>1, <3>2
    <2>2. QED
      BY <1>15, <2>1 DEF Behind
  <1>17. \/ lastOwner = NoGroup /\ cursor = current.from
         \/ \E last \in Members(current) :
               /\ last.group = lastOwner /\ last.to = cursor
               /\ \A m \in pending : MemberBefore(last, m)
    BY <1>1 DEF SweepInv, LastInv, InSweep
  <1>18. LastInv'
    <2>1. CASE from < member.to
      <3>1. lastOwner' = member.group /\ cursor' = member.to
        BY <1>4, <1>5, <1>6, <1>7, <2>1
      <3>2. \A m \in pending' : MemberBefore(member, m)
        BY <1>4
      <3>3. member \in Members(current)' /\ \A m \in pending' : MemberBefore(member, m)'
        BY <1>0, <1>1, <1>15, <3>2, SweepFixed
      <3>4. QED
        BY <3>1, <3>3 DEF LastInv
    <2>2. CASE ~(from < member.to)
      <3>1. lastOwner' = lastOwner /\ cursor' = cursor
        <4>1. member.from < member.to
          BY <1>1, <1>3
        <4>2. from = cursor
          BY <1>5, <1>7, <2>2, <4>1
        <4>3. QED
          BY <1>4, <1>6, <1>7, <2>2, <4>2
      <3>2. CASE lastOwner = NoGroup /\ cursor = current.from
        BY <1>4, <3>1, <3>2 DEF LastInv, NoGroup
      <3>3. CASE \E last \in Members(current) :
                    /\ last.group = lastOwner /\ last.to = cursor
                    /\ \A m \in pending : MemberBefore(last, m)
        <4>1. PICK last \in Members(current) :
                    /\ last.group = lastOwner /\ last.to = cursor
                    /\ \A m \in pending : MemberBefore(last, m)
          BY <3>3
        <4>2. \A m \in pending' : MemberBefore(last, m)'
          BY <1>0, <1>4, <4>1, SweepFixed
        <4>3. QED
          BY <1>15, <3>1, <4>1, <4>2 DEF LastInv
      <3>4. QED
        BY <1>17, <3>2, <3>3
    <2>3. QED
      BY <2>1, <2>2
  <1>19. OverlapInv'
    <2>1. ASSUME NEW d \in diagnostics', d.code = "SymbolOverlap"
          PROVE  /\ space = "vm"
                 /\ \E piece \in owned :
                       \E last, m \in Members(piece) :
                           /\ Section(piece.section).extent["vm"] # NoRange
                           /\ d.of = m.group /\ d.with = last.group
                           /\ last.from < m.from /\ m.from < last.to /\ last.to < m.to
      <3>1. CASE d \in diagnostics
        BY <2>1, <3>1 DEF SweepInv, OverlapInv
      <3>2. CASE d \notin diagnostics
        <4>1. /\ d = SymbolOverlap(member.group, lastOwner)
              /\ member.from < cursor /\ member.to > cursor /\ space = "vm"
          BY <2>1, <3>2 DEF AttributeSymbol
        <4>2. PICK last \in Members(current) :
                    /\ last.group = lastOwner /\ last.to = cursor
                    /\ \A m \in pending : MemberBefore(last, m)
          BY <1>1, <1>3, <1>7, <1>17, <4>1
        <4>3. last.from < member.from
          <5>1. MemberBefore(last, member) /\ last.from \in Nat /\ last.to \in Nat
            BY <1>3, <4>2
          <5>2. QED
            BY <1>7, <4>1, <4>2, <5>1 DEF MemberBefore
        <4>4. Section(current.section).extent["vm"] # NoRange
          <5>1. member.group \in Groups(input) /\ IsInput(input)
            BY <1>1, <1>3, InputFacts DEF TypeInv
          <5>2. member.group.section = current.section
            BY <1>1 DEF Members, Member
          <5>3. PICK symbol \in Owners(input) : member.group = GroupKey(input, symbol)
            BY <5>1 DEF Groups
          <5>4. SectionOf(input, symbol) = current.section
            BY <5>2, <5>3 DEF GroupKey
          <5>5. SectionOf(input, symbol) \in SectionsOf(input, symbol)
            BY <5>1, OwnerSection
          <5>6. QED
            BY <5>4, <5>5 DEF SectionsOf, Section
        <4>5. d.of = member.group /\ d.with = lastOwner
          BY <4>1 DEF SymbolOverlap
        <4>6. QED
          BY <1>1, <4>1, <4>2, <4>3, <4>4, <4>5
      <3>3. QED
        BY <3>1, <3>2
    <2>2. QED
      BY <1>0, <1>4, <2>1, FixedFacts DEF OverlapInv, Section
  <1>20. QED
    BY <1>14, <1>16, <1>18, <1>19 DEF SweepInv

LEMMA LeavePieceSweeps ==
    ASSUME TypeInv, ClaimInv, SweepInv, [Next]_vars, LeavePiece \/ SymbolsAttributed
    PROVE  SweepInv'
  <1>0. input' = input /\ space' = space
    BY NextFixes
  <1>1. OverlapInv'
    BY <1>0, FixedFacts DEF SweepInv, OverlapInv, Section, LeavePiece, SymbolsAttributed
  <1>2. CASE LeavePiece
    <2>1. /\ phase = "symbols" /\ phase' = "symbols" /\ current # NoSpan
          /\ current \in owned /\ pending = {} /\ current' = NoSpan
          /\ current.from <= cursor /\ cursor <= current.to
          /\ spans' = spans \cup NonEmpty(cursor, current.to, NoSymbolOwner(current.section))
          /\ UNCHANGED <<todo, owned>>
      BY <1>2 DEF LeavePiece, TypeInv, Phases, Attributing
    <2>2. /\ cursor \in Addresses /\ current.to \in Addresses /\ current.from \in Nat
          /\ cursor \in Nat /\ current.to \in Nat
          /\ Addresses \subseteq Nat /\ current.section \in SectionIndices /\ current.from \in Addresses
      BY <2>1, AddressFacts DEF TypeInv, VarTypes
    <2>3. \A m \in Members(current) : m.to <= cursor /\ m.to \in Nat
      <3>1. \A m \in Members(current) : m.to \in Addresses
        BY <2>1, <2>2, InputFacts, MemberFacts DEF TypeInv
      <3>2. QED
        BY <2>1, <2>2, <3>1 DEF SweepInv, Behind, InSweep
    <2>4. ASSUME NEW p \in Visited', NEW span \in spans', Within(span, p)
          PROVE  (p \in Visited /\ span \in spans) \/ RightOwner(span, p)
      <3>1. p \in Visited /\ p \in owned
        BY <2>1 DEF Visited
      <3>2. CASE span \in NonEmpty(cursor, current.to, NoSymbolOwner(current.section))
        <4>1. span.from = cursor /\ span.to = current.to /\ cursor < current.to
          BY <3>2 DEF NonEmpty, Span
        <4>2. /\ span.from \in Addresses /\ span.to \in Addresses /\ span.from < span.to
              /\ current.from <= span.from /\ span.to <= current.to
          <5>1. current.to <= current.to
            BY <2>2
          <5>2. QED
            BY <2>1, <2>2, <4>1, <5>1
        <4>3. p = current
          BY <2>1, <2>4, <3>1, <4>2, WithinOne DEF Within
        <4>4. \A m \in Members(current) : ~(span.from < m.to)
          BY <2>2, <2>3, <4>1
        <4>5. QED
          BY <4>3, <4>4 DEF RightOwner
      <3>3. QED
        BY <2>1, <3>1, <3>2
    <2>5. SpansRight'
      BY <1>0, <2>4, SpansRightKept DEF SweepInv
    <2>6. Behind' /\ LastInv'
      BY <2>1 DEF Behind, LastInv, InSweep, NoSpan
    <2>7. QED
      BY <1>1, <2>5, <2>6 DEF SweepInv
  <1>3. CASE SymbolsAttributed
    <2>1. /\ phase = "symbols" /\ phase' = "gaps" /\ todo = {} /\ owned' = owned /\ spans' = spans
      BY <1>3 DEF SymbolsAttributed
    <2>2. Visited' = Visited
      BY <2>1 DEF Visited
    <2>3. SpansRight'
      BY <1>0, <2>1, <2>2, SpansRightKept DEF SweepInv
    <2>4. Behind' /\ LastInv'
      BY <2>1 DEF Behind, LastInv, InSweep
    <2>5. QED
      BY <1>1, <2>3, <2>4 DEF SweepInv
  <1>4. QED
    BY <1>2, <1>3

\* Once all bytes of the sections are attributed, a new span holds none of them.
LEMMA GapsElsewhere ==
    ASSUME SpanTypes', SpanInv, SpanInv', spans \subseteq spans', Covered(owned) \subseteq Bytes,
           NEW span \in spans' \ spans, NEW p \in owned, p.from \in Nat, p.to \in Nat,
           p.from <= span.from, span.to <= p.to
    PROVE  FALSE
  <1>1. span.from \in Addresses /\ span.to \in Addresses /\ span.from < span.to
    BY DEF SpanTypes
  <1>2. span.from \in Nat /\ span.to \in Nat
    BY <1>1, AddressFacts
  <1>3. Covers(span, span.from)
    BY <1>1, <1>2 DEF Covers
  <1>4. Covers(p, span.from)
    BY <1>1, <1>2 DEF Covers
  <1>5. span.from \in Bytes
    BY <1>1, <1>4 DEF Covered
  <1>6. PICK old \in spans : Covers(old, span.from)
    BY <1>5 DEF SpanInv, Tiles, Covered
  <1>7. \A s, t \in spans' : \A x \in Addresses : Covers(s, x) /\ Covers(t, x) => s = t
    BY DEF SpanInv, Tiles, Covers
  <1>8. QED
    BY <1>1, <1>3, <1>6, <1>7

LEMMA GapSweeps ==
    ASSUME TypeInv, TypeInv', SpanInv, SpanInv', SweepInv, [Next]_vars,
           \/ \E range \in todo : EnterRange(range)
           \/ \E piece \in pending : SkipPiece(piece)
           \/ LeaveRange \/ GapsNamed
    PROVE  SweepInv'
  <1>0. input' = input /\ space' = space
    BY NextFixes
  <1>1. /\ phase = "gaps" /\ phase' \in {"gaps", "done"} /\ owned' = owned
        /\ diagnostics' = diagnostics /\ spans \subseteq spans'
    BY DEF EnterRange, SkipPiece, LeaveRange, GapsNamed
  <1>2. OverlapInv'
    BY <1>0, <1>1, FixedFacts DEF SweepInv, OverlapInv, Section
  <1>3. Behind' /\ LastInv'
    BY <1>1 DEF Behind, LastInv, InSweep
  <1>4. Visited' = owned /\ Visited = owned
    BY <1>1 DEF Visited
  <1>5. Covered(owned) \subseteq Bytes
    BY <1>1 DEF Bytes
  <1>6. ASSUME NEW p \in owned, NEW span \in spans' \ spans, Within(span, p) PROVE FALSE
    <2>1. p.from \in Nat /\ p.to \in Nat
      BY AddressFacts DEF TypeInv, VarTypes
    <2>2. QED
      BY <1>1, <1>5, <1>6, <2>1, GapsElsewhere DEF Within, TypeInv
  <1>7. SpansRight'
    BY <1>0, <1>4, <1>6, SpansRightKept DEF SweepInv
  <1>8. QED
    BY <1>2, <1>3, <1>7 DEF SweepInv

LEMMA SweepInvKept ==
    ASSUME TypeInv, TypeInv', ClaimInv, SpanInv, SpanInv', SweepInv, [Next]_vars
    PROVE  SweepInv'
  <1>0. input' = input /\ space' = space
    BY NextFixes
  <1>1. CASE \/ \E range \in pending : MergeRange(range)
             \/ UniverseMerged \/ SectionsClaimed
    <2>1. /\ diagnostics' = diagnostics /\ owned' = owned /\ current' = current
          /\ phase \in {"merge", "claim"} /\ phase' \in {"merge", "claim", "symbols"}
          /\ phase' = "symbols" => todo' = owned
      BY <1>1 DEF MergeRange, UniverseMerged, SectionsClaimed
    <2>2. OverlapInv'
      BY <1>0, <2>1, FixedFacts DEF SweepInv, OverlapInv, Section
    <2>3. current' = NoSpan /\ Visited' = {}
      BY <2>1 DEF TypeInv, Phases, Unattributed, Visited
    <2>4. QED
      BY <2>2, <2>3 DEF SweepInv, Behind, LastInv, InSweep, SpansRight, NoSpan
  <1>2. CASE \E claim \in pending : ClaimSection(claim)
    <2>1. PICK claim \in pending : ClaimSection(claim)
      BY <1>2
    <2>2. /\ phase = "claim" /\ phase' = "claim" /\ owned \subseteq owned'
          /\ \A d \in diagnostics' \ diagnostics : d = SectionOverlap(claim.section, claimedBy)
      BY <2>1 DEF ClaimSection
    <2>3. SectionOverlap(claim.section, claimedBy).code # "SymbolOverlap"
      BY DEF SectionOverlap
    <2>4. OverlapInv'
      BY <1>0, <2>2, <2>3, FixedFacts DEF SweepInv, OverlapInv, Section
    <2>5. QED
      BY <2>2, <2>4 DEF SweepInv, Behind, LastInv, InSweep, SpansRight, Visited
  <1>3. CASE UNCHANGED vars
    <2>1. /\ OverlapInv' /\ Visited' = Visited
      BY <1>0, <1>3, FixedFacts DEF SweepInv, OverlapInv, Section, vars, Visited
    <2>2. SpansRight'
      BY <1>0, <1>3, <2>1, SpansRightKept DEF SweepInv, vars
    <2>3. Members(current)' = Members(current)
      BY <1>0, <1>3, CurrentMembers DEF vars
    <2>4. Behind'
      BY <1>3, <2>3 DEF vars, SweepInv, Behind, InSweep, NoSpan
    <2>5. \A m, n : MemberBefore(m, n)' <=> MemberBefore(m, n)
      BY <1>0, SweepFixed
    <2>6. LastInv'
      BY <1>3, <2>3, <2>5 DEF vars, SweepInv, LastInv, InSweep, NoSpan, NoGroup
    <2>7. QED
      BY <2>1, <2>2, <2>4, <2>6 DEF SweepInv
  <1>4. QED
    BY <1>1, <1>2, <1>3, EnterPieceSweeps, AttributeSymbolSweeps, LeavePieceSweeps, GapSweeps
       DEF Next, Attributed

\* Symbols share the bytes of a section as OutermostSymbolOwns says.
LEMMA OutermostOwns == ASSUME SweepInv PROVE OutermostSymbolOwns
  BY DEF SweepInv, SpansRight, RightOwner, Within, Ahead, Visited, OutermostSymbolOwns

-----------------------------------------------------------------------------
(* Diagnostics: at each moment of the sweeps they name the overlaps among  *)
(* the spans so far, and nothing else.                                     *)
SectionNamed(d) ==
    \E v, w \in owned :
        /\ v.from > Claim(v.section).from /\ w.to = v.from
        /\ ~Claim(v.section).tls /\ ~Claim(w.section).tls
        /\ d = SectionOverlap(v.section, w.section)

SymbolNamed(d) ==
    /\ space = "vm"
    /\ \E v, w \in spans :
          /\ v.owner.what = "symbol" /\ w.owner.what = "symbol"
          /\ v.owner.of.section = w.owner.of.section
          /\ w.to = v.from
          /\ v.from > GroupFrom(v.owner.of, [section |-> v.owner.of.section])
          /\ d = SymbolOverlap(v.owner.of, w.owner.of)

Named == \A d : d \in diagnostics <=> SectionNamed(d) \/ SymbolNamed(d)

\* The section behind the claims' end owns the bytes before it.
ClaimedByInv ==
    \/ claimedBy = 0 /\ claimedEnd = 0
    \/ \E piece \in owned : piece.section = claimedBy /\ piece.to = claimedEnd

Placed ==
    \A span \in spans :
        span.owner.what = "symbol" =>
            /\ span.owner.of \in Groups(input)
            /\ \E piece \in Visited :
                  /\ piece.section = span.owner.of.section
                  /\ piece.from <= span.from /\ span.to <= piece.to
                  /\ InSweep /\ piece = current => span.to <= cursor

LastSpan ==
    InSweep /\ lastOwner # NoGroup =>
        \E span \in spans : span.to = cursor /\ span.owner = SymbolOwner(lastOwner)

NamedInv == Named /\ ClaimedByInv /\ Placed /\ LastSpan

LEMMA NamedInvStarts == ASSUME Start PROVE NamedInv
  BY DEF Start, NamedInv, Named, SectionNamed, SymbolNamed, ClaimedByInv, Placed, LastSpan, InSweep

LEMMA NamedFixed ==
    ASSUME input' = input, space' = space
    PROVE  /\ owned' = owned => \A d : SectionNamed(d)' <=> SectionNamed(d)
           /\ spans' = spans => \A d : SymbolNamed(d)' <=> SymbolNamed(d)
           /\ \A group, piece : GroupFrom(group, piece)' = GroupFrom(group, piece)
  <1>1. \A group, piece : GroupFrom(group, piece)' = GroupFrom(group, piece)
    BY DEF GroupFrom, Section
  <1>2. \A i : Claim(i)' = Claim(i)
    BY FixedFacts
  <1>3. ASSUME owned' = owned PROVE \A d : SectionNamed(d)' <=> SectionNamed(d)
    BY <1>2, <1>3 DEF SectionNamed, SectionOverlap, NoGroup
  <1>4. ASSUME spans' = spans PROVE \A d : SymbolNamed(d)' <=> SymbolNamed(d)
    BY <1>1, <1>4 DEF SymbolNamed, SymbolOverlap
  <1>5. QED
    BY <1>1, <1>3, <1>4

\* Spans of sections that end at the same address are one.
LEMMA SameEnd ==
    ASSUME TypeInv, ClaimInv, NEW p \in owned, NEW q \in owned, p.to = q.to
    PROVE  p = q
  <1>1. p = q \/ p.to <= q.from \/ q.to <= p.from
    BY DEF ClaimInv, Separate
  <1>2. /\ p.from \in Nat /\ p.to \in Nat /\ q.from \in Nat /\ q.to \in Nat
        /\ p.from < p.to /\ q.from < q.to
    BY AddressFacts DEF TypeInv, VarTypes, NothingEmpty
  <1>3. QED
    BY <1>1, <1>2

LEMMA OnePiece ==
    ASSUME TypeInv, ClaimInv, NEW p \in owned, NEW q \in owned, p.section = q.section
    PROVE  p = q
  <1>1. /\ \E c \in Claimed : c.section = p.section /\ c.to = p.to
        /\ \E c \in Claimed : c.section = q.section /\ c.to = q.to
    BY DEF ClaimInv, PieceInv
  <1>2. \A c \in Claimed : c = Claim(c.section)
    BY InputFacts, ClaimFacts DEF TypeInv, Claimed
  <1>3. p.to = q.to
    BY <1>1, <1>2
  <1>4. QED
    BY <1>3, SameEnd

LEMMA ClaimSectionNames ==
    ASSUME TypeInv, ClaimInv, NamedInv, [Next]_vars, NEW claim \in pending, ClaimSection(claim)
    PROVE  NamedInv'
  <1> DEFINE from  == Larger(claim.from, claimedEnd)
             piece == [from |-> from, to |-> claim.to, section |-> claim.section]
             New(d) == /\ claim.from < claimedEnd /\ claim.to > claimedEnd
                       /\ ~claim.tls /\ claimedBy # 0 /\ ~Claim(claimedBy).tls
                       /\ d = SectionOverlap(claim.section, claimedBy)
  <1>0. /\ IsInput(input) /\ space \in Spaces /\ input' = input /\ space' = space
        /\ phase = "claim" /\ phase' = "claim" /\ claim \in Claims
        /\ spans = {} /\ spans' = {} /\ current = NoSpan /\ current' = NoSpan
    BY InputFacts, NextFixes DEF ClaimSection, TypeInv, Phases, Claiming, Unattributed
  <1>1. /\ claim.from \in Nat /\ claim.to \in Nat /\ claim = Claim(claim.section)
        /\ claimedEnd \in Nat
    BY <1>0, ClaimFacts, AddressFacts DEF TypeInv, VarTypes
  <1>2. \A p \in owned : p.from \in Nat /\ p.to \in Nat /\ p.from < p.to /\ p.to <= claimedEnd
    BY AddressFacts DEF TypeInv, VarTypes, NothingEmpty, ClaimInv, PieceInv
  <1>3. /\ from \in Nat /\ claim.from <= from /\ claimedEnd <= from
        /\ from = claim.from \/ from = claimedEnd
    BY <1>1, LargerFacts
  <1>4. \A d : d \in diagnostics' <=> d \in diagnostics \/ New(d)
    BY DEF ClaimSection, Claim
  <1>5. \A d : d \in diagnostics <=> SectionNamed(d)
    BY <1>0 DEF NamedInv, Named, SymbolNamed
  <1>6. \A i : Claim(i)' = Claim(i)
    BY <1>0, FixedFacts
  <1>7. \A i, j : SectionOverlap(i, j)' = SectionOverlap(i, j)
    BY DEF SectionOverlap, NoGroup
  <1>8. CASE from < claim.to
    <2>1. /\ owned' = owned \cup {piece}
          /\ claimedEnd' = claim.to /\ claimedBy' = claim.section
      BY <1>8 DEF ClaimSection
    <2>2. piece.from = from /\ piece.to = claim.to /\ piece.section = claim.section
      OBVIOUS
    <2>3. \A p \in owned' : p = piece \/ p \in owned
      BY <2>1
    <2> HIDE DEF from, piece
    <2>4. ASSUME NEW d, SectionNamed(d)' PROVE SectionNamed(d) \/ New(d)
      <3>1. PICK v \in owned', w \in owned' :
              /\ v.from > Claim(v.section).from /\ w.to = v.from
              /\ ~Claim(v.section).tls /\ ~Claim(w.section).tls
              /\ d = SectionOverlap(v.section, w.section)
        BY <1>6, <1>7, <2>4 DEF SectionNamed
      <3>2. CASE v = piece
        <4>1. w \in owned /\ from = claimedEnd /\ claim.from < claimedEnd /\ w.to = claimedEnd
          BY <1>1, <1>2, <1>3, <1>8, <2>2, <2>3, <3>1, <3>2
        <4>2. claimedBy # 0
          <5>1. claimedEnd # 0
            BY <1>1, <4>1
          <5>2. PICK p \in owned : p.section = claimedBy
            BY <5>1 DEF NamedInv, ClaimedByInv
          <5>3. QED
            BY <5>2, InputFacts DEF TypeInv, VarTypes
        <4>3. PICK p \in owned : p.section = claimedBy /\ p.to = claimedEnd
          BY <4>2 DEF NamedInv, ClaimedByInv
        <4>4. w = p
          BY <4>1, <4>3, SameEnd
        <4>5. QED
          BY <1>1, <1>8, <2>2, <3>1, <3>2, <4>1, <4>2, <4>3, <4>4
      <3>3. CASE v \in owned
        <4>1. w # piece
          BY <1>1, <1>2, <1>3, <1>8, <2>2, <3>1, <3>3
        <4>2. w \in owned
          BY <2>3, <4>1
        <4>3. QED
          BY <3>1, <3>3, <4>2 DEF SectionNamed
      <3>4. QED
        BY <2>3, <3>2, <3>3
    <2>5. ASSUME NEW d, New(d) PROVE SectionNamed(d)'
      <3>1. PICK p \in owned : p.section = claimedBy /\ p.to = claimedEnd
        BY <2>5 DEF NamedInv, ClaimedByInv
      <3>2. from = claimedEnd
        BY <1>1, <1>3, <2>5
      <3>3. /\ piece.from > Claim(piece.section).from /\ p.to = piece.from
            /\ ~Claim(piece.section).tls /\ ~Claim(p.section).tls
            /\ d = SectionOverlap(piece.section, p.section)
        BY <1>1, <2>2, <2>5, <3>1, <3>2
      <3>4. piece \in owned' /\ p \in owned'
        BY <2>1
      <3>5. QED
        BY <1>6, <1>7, <3>3, <3>4 DEF SectionNamed
    <2>6. ASSUME NEW d, SectionNamed(d) PROVE SectionNamed(d)'
      BY <1>6, <1>7, <2>1, <2>6 DEF SectionNamed
    <2> HIDE DEF New
    <2>7. Named'
      BY <1>0, <1>4, <1>5, <2>4, <2>5, <2>6 DEF Named, SymbolNamed
    <2>8. ClaimedByInv'
      BY <2>1, <2>2 DEF ClaimedByInv
    <2>9. QED
      BY <1>0, <2>7, <2>8 DEF NamedInv, Placed, LastSpan, InSweep
  <1>9. CASE ~(from < claim.to)
    <2>1. UNCHANGED <<owned, claimedEnd, claimedBy>>
      BY <1>9 DEF ClaimSection
    <2>2. \A d : ~New(d)
      BY <1>1, <1>3, <1>9
    <2>3. diagnostics' = diagnostics
      BY <2>2 DEF ClaimSection, Claim
    <2>4. Named' /\ ClaimedByInv'
      BY <1>0, <2>1, <2>3, NamedFixed DEF NamedInv, Named, ClaimedByInv
    <2>5. QED
      BY <1>0, <2>4 DEF NamedInv, Placed, LastSpan, InSweep
  <1>10. QED
    BY <1>8, <1>9

\* A step that adds no span of a symbol, while the diagnostics stay.
LEMMA NamesStay ==
    ASSUME NamedInv, input' = input, space' = space, owned' = owned, diagnostics' = diagnostics,
           claimedBy' = claimedBy, claimedEnd' = claimedEnd,
           spans \subseteq spans', \A span \in spans' \ spans : span.owner.what # "symbol"
    PROVE  Named' /\ ClaimedByInv'
  <1>1. \A d : SectionNamed(d)' <=> SectionNamed(d)
    BY NamedFixed
  <1>2. ASSUME NEW d PROVE SymbolNamed(d)' <=> SymbolNamed(d)
    <2> DEFINE Place(group) == GroupFrom(group, [section |-> group.section])
    <2>0. \A group : Place(group)' = Place(group)
      BY NamedFixed
    <2>1. SymbolNamed(d)' <=>
            /\ space = "vm"
            /\ \E v, w \in spans' :
                  /\ v.owner.what = "symbol" /\ w.owner.what = "symbol"
                  /\ v.owner.of.section = w.owner.of.section
                  /\ w.to = v.from
                  /\ v.from > Place(v.owner.of)
                  /\ d = SymbolOverlap(v.owner.of, w.owner.of)
      BY <2>0 DEF SymbolNamed, SymbolOverlap
    <2>2. SymbolNamed(d) <=>
            /\ space = "vm"
            /\ \E v, w \in spans :
                  /\ v.owner.what = "symbol" /\ w.owner.what = "symbol"
                  /\ v.owner.of.section = w.owner.of.section
                  /\ w.to = v.from
                  /\ v.from > Place(v.owner.of)
                  /\ d = SymbolOverlap(v.owner.of, w.owner.of)
      BY DEF SymbolNamed
    <2> HIDE DEF Place
    <2>3. QED
      BY <2>1, <2>2
  <1>3. Named'
    BY <1>1, <1>2 DEF NamedInv, Named
  <1>4. QED
    BY <1>3 DEF NamedInv, ClaimedByInv

LEMMA EnterPieceNames ==
    ASSUME TypeInv, NamedInv, [Next]_vars, NEW piece \in todo, EnterPiece(piece)
    PROVE  NamedInv'
  <1>1. /\ phase = "symbols" /\ phase' = "symbols" /\ current = NoSpan /\ todo \subseteq owned
        /\ todo' = todo \ {piece} /\ spans \subseteq spans' /\ piece.from = piece.from
        /\ input' = input /\ space' = space
        /\ UNCHANGED <<owned, claimedEnd, claimedBy, diagnostics>>
        /\ \/ current' = NoSpan
           \/ current' = piece /\ lastOwner' = NoGroup /\ spans' = spans
    BY NextFixes DEF EnterPiece, TypeInv, Phases, Attributing
  <1>2. ASSUME NEW span \in spans' \ spans PROVE span.owner.what # "symbol"
    BY <1>2 DEF EnterPiece, Span, NoSymbolOwner
  <1>3. Named' /\ ClaimedByInv'
    BY <1>1, <1>2, NamesStay
  <1>4. LastSpan'
    BY <1>1 DEF LastSpan, InSweep, NoGroup, NoSpan
  <1>5. ASSUME NEW span \in spans', span.owner.what = "symbol"
        PROVE  /\ span.owner.of \in Groups(input)
               /\ \E p \in Visited' :
                     /\ p.section = span.owner.of.section
                     /\ p.from <= span.from /\ span.to <= p.to
                     /\ InSweep' /\ p = current' => span.to <= cursor'
    <2>0. span \in spans
      BY <1>2, <1>5
    <2>1. span \in spans /\ span.owner.of \in Groups(input)
      BY <1>5, <2>0 DEF NamedInv, Placed
    <2>2. PICK p \in Visited : p.section = span.owner.of.section
                               /\ p.from <= span.from /\ span.to <= p.to
      BY <1>5, <2>1 DEF NamedInv, Placed
    <2>3. p \in owned \ todo /\ p \in Visited'
      BY <1>1, <2>2 DEF Visited
    <2>4. p # current'
      BY <1>1, <2>3, PieceNotNoSpan
    <2>5. QED
      BY <2>1, <2>2, <2>3, <2>4
  <1>6. Placed'
    BY <1>1, <1>5 DEF Placed
  <1>7. QED
    BY <1>3, <1>4, <1>6 DEF NamedInv

\* Steps in which no sweep over symbols goes on.
LEMMA OtherNames ==
    ASSUME TypeInv, NamedInv, [Next]_vars,
           \/ LeavePiece \/ SymbolsAttributed
           \/ \E range \in todo : EnterRange(range)
           \/ \E piece \in pending : SkipPiece(piece)
           \/ LeaveRange \/ GapsNamed
    PROVE  NamedInv'
  <1>1. /\ input' = input /\ space' = space /\ spans \subseteq spans'
        /\ UNCHANGED <<owned, claimedEnd, claimedBy, diagnostics>>
        /\ phase = "symbols" \/ phase = "gaps"
        /\ Visited \subseteq Visited' /\ ~InSweep'
    BY NextFixes DEF LeavePiece, SymbolsAttributed, EnterRange, SkipPiece, LeaveRange, GapsNamed,
                     Visited, InSweep
  <1>2. ASSUME NEW span \in spans' \ spans PROVE span.owner.what # "symbol"
    <2>1. \A from, to, gapFrom : GapName(from, to, gapFrom).what # "symbol"
      BY DEF GapName, SegmentOwner, GapOwner
    <2>2. \A from, to : \A s \in GapSpans(from, to) : s.owner.what # "symbol"
      BY <2>1 DEF GapSpans, Span
    <2>3. \A from, to, i : \A s \in NonEmpty(from, to, NoSymbolOwner(i)) : s.owner.what # "symbol"
      BY DEF NonEmpty, Span, NoSymbolOwner
    <2>4. QED
      BY <1>2, <2>2, <2>3 DEF LeavePiece, SymbolsAttributed, EnterRange, SkipPiece, LeaveRange, GapsNamed
  <1>3. Named' /\ ClaimedByInv'
    BY <1>1, <1>2, NamesStay
  <1>4. LastSpan'
    BY <1>1 DEF LastSpan
  <1>5. Placed'
    BY <1>1, <1>2 DEF NamedInv, Placed
  <1>6. QED
    BY <1>3, <1>4, <1>5 DEF NamedInv

LEMMA AttributeSymbolNames ==
    ASSUME TypeInv, ClaimInv, SpanInv, SpanInv', SweepInv, NamedInv, [Next]_vars,
           NEW member \in pending, AttributeSymbol(member)
    PROVE  NamedInv'
  <1> DEFINE from == Larger(cursor, member.from)
             Gap  == NonEmpty(cursor, member.from, NoSymbolOwner(current.section))
             Own  == NonEmpty(from, member.to, SymbolOwner(member.group))
             own  == Span(from, member.to, SymbolOwner(member.group))
             Over == member.from < cursor /\ member.to > cursor /\ space = "vm"
             New(d) == Over /\ d = SymbolOverlap(member.group, lastOwner)
             Place(group) == GroupFrom(group, [section |-> group.section])
             Pair(v, w) == /\ v.owner.what = "symbol" /\ w.owner.what = "symbol"
                           /\ v.owner.of.section = w.owner.of.section
                           /\ w.to = v.from /\ v.from > Place(v.owner.of)
  <1>0. input' = input /\ space' = space
    BY NextFixes
  <1>1. /\ phase = "symbols" /\ current # NoSpan /\ current \in owned /\ current \in owned \ todo
        /\ pending \subseteq Members(current)
        /\ current.from <= cursor /\ cursor <= current.to
    BY DEF TypeInv, Phases, Attributing, AttributeSymbol
  <1>2. /\ current.section \in SectionIndices /\ current.from \in Addresses
        /\ current.to \in Addresses /\ cursor \in Addresses
        /\ current.from \in Nat /\ current.to \in Nat /\ cursor \in Nat
        /\ Addresses \subseteq Nat
    BY <1>1, AddressFacts DEF TypeInv, VarTypes
  <1>3. /\ member.from \in Nat /\ member.to \in Nat
        /\ member.from \in Addresses /\ member.to \in Addresses
        /\ current.from <= member.from /\ member.from < member.to /\ member.to <= current.to
    BY <1>1, <1>2, InputFacts, MemberFacts DEF TypeInv
  <1>4. member.group.section = current.section
    BY <1>1 DEF Members, Member
  <1>5. member.from = Larger(Place(member.group), current.from)
    BY <1>1, <1>4 DEF Members, Member, GroupFrom
  <1>6. Place(member.group) \in Nat
    BY <1>1, <1>2, <1>4, PlaceFacts, InputFacts DEF TypeInv, Members, Member, GroupFrom
  <1>7. member.from = Place(member.group) \/ (member.from = current.from /\ Place(member.group) <= current.from)
    <2> HIDE DEF Place
    <2>1. QED
      BY <1>2, <1>5, <1>6 DEF Larger
  <1>8. Place(member.group) <= member.from
    <2> HIDE DEF Place
    <2>1. QED
      BY <1>2, <1>5, <1>6, LargerFacts
  <1>9. /\ phase' = "symbols" /\ spans' = spans \cup Gap \cup Own
        /\ cursor' = Larger(from, member.to)
        /\ lastOwner' = IF from < member.to THEN member.group ELSE lastOwner
        /\ UNCHANGED <<todo, owned, current, claimedBy, claimedEnd>>
        /\ \A d : d \in diagnostics' <=> d \in diagnostics \/ New(d)
    BY <1>1 DEF AttributeSymbol
  <1>10. /\ from \in Nat /\ cursor <= from /\ member.from <= from
         /\ (from = cursor \/ from = member.from)
    BY <1>2, <1>3, LargerFacts
  <1>11. \A span \in Gap : span.owner.what # "symbol"
    BY DEF NonEmpty, Span, NoSymbolOwner
  <1>12. /\ Own = IF from < member.to THEN {own} ELSE {}
         /\ own.from = from /\ own.to = member.to
         /\ own.owner.what = "symbol" /\ own.owner.of = member.group
         /\ own.owner = SymbolOwner(member.group)
    BY DEF NonEmpty, Span, SymbolOwner
  <1> HIDE DEF from, Gap, Own, own
  <1>13. \A span \in spans : /\ span.from \in Nat /\ span.to \in Nat /\ span.from < span.to
                             /\ span.to - 1 \in Addresses
    <2>1. \A span \in spans : span.from \in Addresses /\ span.to \in Addresses /\ span.from < span.to
      BY DEF TypeInv, SpanTypes
    <2>2. QED
      BY <2>1, InputAssumption DEF Addresses
  <1>14. ASSUME NEW span \in spans, span.owner.what = "symbol",
                span.owner.of.section = current.section
         PROVE  current.from <= span.from /\ span.to <= cursor
    <2>1. PICK p \in Visited : /\ p.section = span.owner.of.section
                               /\ p.from <= span.from /\ span.to <= p.to
                               /\ InSweep /\ p = current => span.to <= cursor
      BY <1>14 DEF NamedInv, Placed
    <2>2. p \in owned
      BY <1>1, <2>1 DEF Visited
    <2>3. p = current
      BY <1>1, <1>14, <2>1, <2>2, OnePiece
    <2>4. QED
      BY <1>1, <2>1, <2>3 DEF InSweep
  <1>15. ASSUME NEW v \in spans, NEW w \in spans, v.to = w.to PROVE v = w
    <2>1. Covers(v, v.to - 1) /\ Covers(w, v.to - 1)
      BY <1>13, <1>15 DEF Covers
    <2>2. QED
      BY <1>13, <2>1 DEF SpanInv, Tiles
  <1>16. cursor > current.from =>
            \E span \in spans : span.to = cursor /\ span.owner = SymbolOwner(lastOwner)
                                /\ lastOwner.section = current.section
    <2> SUFFICES ASSUME cursor > current.from
                 PROVE  \E span \in spans : span.to = cursor /\ span.owner = SymbolOwner(lastOwner)
                                            /\ lastOwner.section = current.section
      OBVIOUS
    <2>1. PICK last \in Members(current) : last.group = lastOwner /\ last.to = cursor
      BY <1>1, <1>2 DEF SweepInv, LastInv, InSweep
    <2>2. lastOwner.section = current.section /\ last.group \in Groups(input)
      BY <2>1 DEF Members, Member
    <2>3. lastOwner # NoGroup
      <3>1. lastOwner.section \in DOMAIN input.sections /\ IsInput(input)
        BY <2>1, <2>2, GroupFacts, InputFacts DEF TypeInv
      <3>2. QED
        BY <3>1 DEF IsInput, NoGroup
    <2>4. QED
      BY <1>1, <2>2, <2>3 DEF NamedInv, LastSpan, InSweep
  <1>17. ASSUME NEW v \in spans', NEW w \in spans', Pair(v, w)
         PROVE  \/ v \in spans /\ w \in spans
                \/ Over /\ v = own /\ w.owner.of = lastOwner /\ space = "vm"
                \/ space # "vm"
    <2>1. (v \in spans \/ v = own) /\ (w \in spans \/ w = own)
      BY <1>9, <1>11, <1>12, <1>17
    <2>2. CASE v \in spans /\ w = own /\ own \in Own
      <3>1. v.owner.of.section = current.section /\ v.from = member.to
        BY <1>4, <1>12, <1>17, <2>2
      <3>2. v.to <= cursor
        BY <1>14, <1>17, <2>2, <3>1
      <3>3. from < member.to
        BY <1>12, <2>2
      <3>4. QED
        BY <1>2, <1>3, <1>10, <1>13, <2>2, <3>1, <3>2, <3>3
    <2>3. CASE v = own /\ w = own /\ own \in Own
      BY <1>3, <1>10, <1>12, <1>17, <2>3
    <2>4. CASE v = own /\ own \in Own /\ w \in spans
      <3>1. /\ w.owner.of.section = current.section /\ w.to = from /\ from < member.to
            /\ from > Place(member.group)
        BY <1>4, <1>12, <1>17, <2>4
      <3>2. current.from <= w.from /\ w.to <= cursor
        BY <1>14, <1>17, <2>4, <3>1
      <3>3. from = cursor /\ current.from < cursor
        BY <1>2, <1>10, <1>13, <2>4, <3>1, <3>2
      <3>4. member.from < cursor
        <4> HIDE DEF Place
        <4>1. QED
          BY <1>2, <1>3, <1>6, <1>7, <1>10, <3>1, <3>3
      <3>5. PICK last \in spans : last.to = cursor /\ last.owner = SymbolOwner(lastOwner)
        BY <1>16, <3>3
      <3>6. w = last
        BY <1>15, <2>4, <3>1, <3>3, <3>5
      <3>7. w.owner.of = lastOwner
        BY <3>5, <3>6 DEF SymbolOwner
      <3>8. QED
        BY <2>4, <3>1, <3>3, <3>4, <3>7
    <2>5. QED
      BY <1>9, <1>11, <1>12, <1>17, <2>1, <2>2, <2>3, <2>4
  <1>18. ASSUME Over
         PROVE  \E w \in spans : own \in spans' /\ Pair(own, w) /\ w.owner.of = lastOwner
    <2>1. from = cursor /\ from < member.to /\ own \in spans'
      BY <1>2, <1>3, <1>9, <1>10, <1>12, <1>18
    <2>2. cursor > current.from
      BY <1>2, <1>3, <1>18
    <2>3. PICK w \in spans : w.to = cursor /\ w.owner = SymbolOwner(lastOwner)
                             /\ lastOwner.section = current.section
      BY <1>16, <2>2
    <2>4. w.owner.what = "symbol" /\ w.owner.of = lastOwner
      BY <2>3 DEF SymbolOwner
    <2>5. own.from > Place(own.owner.of)
      <3> HIDE DEF Place
      <3>1. QED
        BY <1>2, <1>3, <1>6, <1>8, <1>12, <1>18, <2>1
    <2>6. QED
      BY <1>4, <1>12, <2>1, <2>3, <2>4, <2>5
  <1>19. ASSUME NEW d PROVE SymbolNamed(d)' <=> SymbolNamed(d) \/ New(d)
    <2>1. \A group : Place(group)' = Place(group)
      BY <1>0, NamedFixed
    <2>2. SymbolNamed(d)' <=> space = "vm" /\ \E v, w \in spans' :
                                 Pair(v, w) /\ d = SymbolOverlap(v.owner.of, w.owner.of)
      BY <1>0, <2>1 DEF SymbolNamed, SymbolOverlap
    <2>3. SymbolNamed(d) <=> space = "vm" /\ \E v, w \in spans :
                                 Pair(v, w) /\ d = SymbolOverlap(v.owner.of, w.owner.of)
      BY DEF SymbolNamed
    <2> HIDE DEF Pair, Over
    <2>4. own.owner.of = member.group /\ spans \subseteq spans'
      BY <1>9, <1>12
    <2>5. ASSUME SymbolNamed(d)' PROVE SymbolNamed(d) \/ New(d)
      BY <1>17, <2>2, <2>3, <2>4, <2>5
    <2>6. ASSUME SymbolNamed(d) PROVE SymbolNamed(d)'
      BY <2>2, <2>3, <2>4, <2>6
    <2>7. ASSUME New(d) PROVE SymbolNamed(d)'
      <3>1. space = "vm"
        BY <2>7 DEF Over
      <3>2. QED
        BY <1>18, <2>2, <2>4, <2>7, <3>1
    <2>8. QED
      BY <2>5, <2>6, <2>7
  <1>20. Named'
    <2>1. \A d : SectionNamed(d)' <=> SectionNamed(d)
      BY <1>0, <1>9, NamedFixed
    <2> HIDE DEF New
    <2>2. QED
      BY <1>9, <1>19, <2>1 DEF NamedInv, Named
  <1>21. ClaimedByInv'
    BY <1>9 DEF NamedInv, ClaimedByInv
  <1>22. /\ cursor' \in Nat /\ from <= cursor' /\ member.to <= cursor' /\ cursor <= cursor'
         /\ from < member.to => cursor' = member.to
         /\ ~(from < member.to) => cursor' = from /\ from = cursor
    BY <1>2, <1>3, <1>9, <1>10 DEF Larger
  <1>23. LastSpan'
    <2>1. CASE from < member.to
      BY <1>9, <1>12, <1>22, <2>1 DEF LastSpan, SymbolOwner
    <2>2. CASE ~(from < member.to)
      BY <1>1, <1>9, <1>22, <2>2 DEF NamedInv, LastSpan, InSweep, SymbolOwner, NoGroup
    <2>3. QED
      BY <2>1, <2>2
  <1>24. Visited' = Visited /\ current \in Visited /\ InSweep /\ InSweep'
    BY <1>1, <1>9 DEF Visited, InSweep, NoSpan
  <1>25. ASSUME NEW span \in spans', span.owner.what = "symbol"
         PROVE  /\ span.owner.of \in Groups(input)
                /\ \E p \in Visited' :
                      /\ p.section = span.owner.of.section
                      /\ p.from <= span.from /\ span.to <= p.to
                      /\ p = current' => span.to <= cursor'
    <2>1. CASE span \in spans
      <3>1. PICK p \in Visited : /\ p.section = span.owner.of.section
                                 /\ p.from <= span.from /\ span.to <= p.to
                                 /\ InSweep /\ p = current => span.to <= cursor
        BY <1>25, <2>1 DEF NamedInv, Placed
      <3>2. p = current => span.to <= cursor'
        BY <1>2, <1>13, <1>22, <1>24, <2>1, <3>1
      <3>3. span.owner.of \in Groups(input)
        BY <1>25, <2>1 DEF NamedInv, Placed
      <3>4. QED
        BY <1>9, <1>24, <3>1, <3>2, <3>3
    <2>2. CASE span = own /\ from < member.to
      <3>1. /\ current.section = span.owner.of.section
            /\ current.from <= span.from /\ span.to <= current.to /\ span.to <= cursor'
        BY <1>2, <1>3, <1>4, <1>10, <1>12, <1>22, <2>2
      <3>2. span.owner.of \in Groups(input)
        BY <1>1, <1>12, <2>2 DEF Members, Member
      <3>3. QED
        BY <1>24, <3>1, <3>2
    <2>3. QED
      BY <1>9, <1>11, <1>12, <1>25, <2>1, <2>2
  <1>26. Placed'
    BY <1>0, <1>24, <1>25 DEF Placed
  <1>27. QED
    BY <1>20, <1>21, <1>23, <1>26 DEF NamedInv

LEMMA NamedInvKept ==
    ASSUME TypeInv, ClaimInv, SpanInv, SpanInv', SweepInv, NamedInv, [Next]_vars
    PROVE  NamedInv'
  <1>1. input' = input /\ space' = space
    BY NextFixes
  <1>2. CASE \/ \E range \in pending : MergeRange(range)
             \/ UniverseMerged \/ SectionsClaimed
    <2>1. /\ spans = {} /\ spans' = {} /\ current = NoSpan /\ current' = NoSpan
          /\ UNCHANGED <<owned, claimedEnd, claimedBy, diagnostics>>
      BY <1>2 DEF MergeRange, UniverseMerged, SectionsClaimed, TypeInv, Phases, Unattributed
    <2>2. Named' /\ ClaimedByInv'
      BY <1>1, <2>1, NamesStay
    <2>3. QED
      BY <2>1, <2>2 DEF NamedInv, Placed, LastSpan, InSweep, NoSpan
  <1>3. CASE UNCHANGED vars
    <2>1. Named' /\ ClaimedByInv'
      BY <1>1, <1>3, NamesStay DEF vars
    <2>2. Placed' /\ LastSpan'
      BY <1>3 DEF vars, NamedInv, Placed, LastSpan, InSweep, Visited, NoSpan, NoGroup, SymbolOwner
    <2>3. QED
      BY <2>1, <2>2 DEF NamedInv
  <1>4. QED
    BY <1>2, <1>3, ClaimSectionNames, EnterPieceNames, OtherNames, AttributeSymbolNames
       DEF Next, Attributed

\* The diagnostics are the ones that OverlapsNamed lists.
LEMMA OverlapsAreNamed == ASSUME NamedInv PROVE OverlapsNamed
  <1> DEFINE Sections ==
               {v \in owned \X owned :
                  /\ v[1].from > Claim(v[1].section).from
                  /\ v[2].to = v[1].from
                  /\ ~Claim(v[1].section).tls /\ ~Claim(v[2].section).tls}
             Symbols ==
               {v \in spans \X spans :
                  /\ space = "vm"
                  /\ v[1].owner.what = "symbol" /\ v[2].owner.what = "symbol"
                  /\ v[1].owner.of.section = v[2].owner.of.section
                  /\ v[2].to = v[1].from
                  /\ v[1].from > GroupFrom(v[1].owner.of, [section |-> v[1].owner.of.section])}
  <1>1. ASSUME NEW d
        PROVE  SectionNamed(d) <=> \E w \in Sections : d = SectionOverlap(w[1].section, w[2].section)
    <2>1. ASSUME SectionNamed(d) PROVE \E w \in Sections : d = SectionOverlap(w[1].section, w[2].section)
      <3>1. PICK v \in owned, w \in owned :
              /\ v.from > Claim(v.section).from /\ w.to = v.from
              /\ ~Claim(v.section).tls /\ ~Claim(w.section).tls
              /\ d = SectionOverlap(v.section, w.section)
        BY <2>1 DEF SectionNamed
      <3>2. <<v, w>> \in Sections /\ <<v, w>>[1] = v /\ <<v, w>>[2] = w
        BY <3>1
      <3> HIDE DEF Sections
      <3>3. QED
        BY <3>1, <3>2
    <2>2. QED
      BY <2>1 DEF SectionNamed
  <1>2. ASSUME NEW d
        PROVE  SymbolNamed(d) <=> \E w \in Symbols : d = SymbolOverlap(w[1].owner.of, w[2].owner.of)
    <2>1. ASSUME SymbolNamed(d) PROVE \E w \in Symbols : d = SymbolOverlap(w[1].owner.of, w[2].owner.of)
      <3>1. PICK v \in spans, w \in spans :
              /\ v.owner.what = "symbol" /\ w.owner.what = "symbol"
              /\ v.owner.of.section = w.owner.of.section
              /\ w.to = v.from
              /\ v.from > GroupFrom(v.owner.of, [section |-> v.owner.of.section])
              /\ d = SymbolOverlap(v.owner.of, w.owner.of)
        BY <2>1 DEF SymbolNamed
      <3>2. <<v, w>> \in Symbols /\ <<v, w>>[1] = v /\ <<v, w>>[2] = w
        BY <2>1, <3>1 DEF SymbolNamed
      <3> HIDE DEF Symbols
      <3>3. QED
        BY <3>1, <3>2
    <2>2. QED
      BY <2>1 DEF SymbolNamed
  <1> HIDE DEF Sections, Symbols
  <1>3. diagnostics = {SectionOverlap(w[1].section, w[2].section) : w \in Sections}
                      \cup {SymbolOverlap(w[1].owner.of, w[2].owner.of) : w \in Symbols}
    BY <1>1, <1>2 DEF NamedInv, Named
  <1>4. QED
    BY <1>3 DEF OverlapsNamed, Sections, Symbols

-----------------------------------------------------------------------------
(* Rows.  Spans that tile some bytes are finitely many, and their sizes    *)
(* add up to the number of bytes; rows put the spans together by their key.*)
AreSpans(S) ==
    \A s \in S : /\ s.from \in Nat /\ s.to \in Nat /\ s.from < s.to /\ s.to <= MaxAddress
                 /\ s.from \in Addresses /\ s.to \in Addresses

Length(S) == [s \in S |-> s.to - s.from]

LEMMA SpansFinite ==
    ASSUME NEW S, NEW B, AreSpans(S), Tiles(S, B)
    PROVE  IsFiniteSet(S)
  <1> DEFINE start == [s \in S |-> s.from]
  <1>1. MaxAddress \in Nat
    BY InputAssumption
  <1>2. start \in [S -> 0..MaxAddress]
    BY <1>1 DEF AreSpans, Addresses
  <1>3. ASSUME NEW s \in S, NEW t \in S, start[s] = start[t] PROVE s = t
    <2>1. s.from \in Addresses /\ Covers(s, s.from) /\ Covers(t, s.from)
      BY <1>3 DEF AreSpans, Covers
    <2>2. QED
      BY <2>1 DEF Tiles
  <1>4. start \in Injection(S, 0..MaxAddress)
    BY <1>2, <1>3 DEF Injection, IsInjective
  <1>5. IsFiniteSet(0..MaxAddress)
    BY <1>1, FS_Interval
  <1> HIDE DEF start
  <1>6. QED
    BY <1>4, <1>5, FS_Injection

\* The function that Sum adds up, on a set that holds all spans in question.
LEMMA SumOf ==
    ASSUME NEW S, IsFiniteSet(S), NEW T, T \subseteq S
    PROVE  Sum(T) = SumFunctionOnSet(Length(S), T)
  <1> DEFINE length == [s \in T |-> s.to - s.from]
  <1>1. IsFiniteSet(T)
    BY FS_Subset
  <1>2. DOMAIN length = T
    OBVIOUS
  <1>3. \A s \in T : length[s] = Length(S)[s]
    BY DEF Length
  <1>4. Sum(T) = SumFunctionOnSet(length, DOMAIN length)
    BY DEF Sum, SumFunction
  <1> HIDE DEF length
  <1>5. SumFunctionOnSet(length, T) = SumFunctionOnSet(Length(S), T)
    BY <1>1, <1>3, SumSame
  <1>6. QED
    BY <1>2, <1>4, <1>5, Zenon

LEMMA LengthFacts ==
    ASSUME NEW S, AreSpans(S)
    PROVE  \A s \in S : Length(S)[s] \in Nat /\ Length(S)[s] \in Int /\ Length(S)[s] = s.to - s.from
  BY DEF AreSpans, Length

LEMMA SumOfTiles ==
    ASSUME NEW S, NEW B, AreSpans(S), Tiles(S, B)
    PROVE  /\ IsFiniteSet(B) /\ Sum(S) = Cardinality(B)
           /\ Sum(S) \in Nat /\ Sum(S) <= MaxAddress
  <1> DEFINE bytes == [s \in S |-> s.from..(s.to - 1)]
             all   == UNION {bytes[s] : s \in S}
             count == [s \in S |-> Cardinality(bytes[s])]
  <1>1. IsFiniteSet(S) /\ MaxAddress \in Nat
    BY SpansFinite, InputAssumption
  <1>2. ASSUME NEW s \in S
        PROVE  IsFiniteSet(bytes[s]) /\ Cardinality(bytes[s]) = Length(S)[s]
    <2>1. s.from \in Nat /\ s.to \in Nat /\ s.from <= s.to
      BY DEF AreSpans
    <2>2. IsFiniteSet(s.from..(s.to - 1)) /\ Cardinality(s.from..(s.to - 1)) = s.to - s.from
      BY <2>1, IntervalSize
    <2>3. bytes[s] = s.from..(s.to - 1) /\ Length(S)[s] = s.to - s.from
      BY DEF Length
    <2> HIDE DEF bytes
    <2>4. QED
      BY <2>2, <2>3, Zenon
  <1>3. \A s \in S : \A x : x \in bytes[s] <=> x \in Addresses /\ Covers(s, x)
    BY <1>1 DEF AreSpans, Covers, Addresses
  <1>4. \A s, t \in S : s # t => bytes[s] \cap bytes[t] = {}
    <2> HIDE DEF bytes
    <2>1. QED
      BY <1>3 DEF Tiles
  <1>5. all = B
    <2> HIDE DEF bytes
    <2>1. B \subseteq Addresses /\ \A x \in Addresses : x \in B <=> \E s \in S : Covers(s, x)
      BY DEF Tiles, Covered
    <2>2. QED
      BY <1>3, <2>1
  <1>6. \A x \in B : x \in 0..(MaxAddress - 1)
    BY <1>1 DEF Tiles, Covered, Covers, AreSpans, Addresses
  <1> HIDE DEF bytes
  <1>7. /\ IsFiniteSet(all) /\ SumFunctionOnSet(count, S) \in Nat
        /\ Cardinality(all) = SumFunctionOnSet(count, S)
    BY <1>1, <1>2, <1>4, SumOfSizes
  <1>8. SumFunctionOnSet(count, S) = SumFunctionOnSet(Length(S), S)
    <2>1. \A s \in S : count[s] = Length(S)[s]
      BY <1>2
    <2> HIDE DEF count
    <2>2. QED
      BY <1>1, <2>1, SumSame
  <1>9. Sum(S) = SumFunctionOnSet(Length(S), S)
    BY <1>1, SumOf
  <1> HIDE DEF all, count
  <1>10. IsFiniteSet(B) /\ Sum(S) = Cardinality(B) /\ Sum(S) \in Nat
    BY <1>5, <1>7, <1>8, <1>9, Zenon
  <1>11. Cardinality(B) <= MaxAddress
    <2> DEFINE below == 0..(MaxAddress - 1)
    <2>1. IsFiniteSet(below) /\ Cardinality(below) = MaxAddress - 0
      BY <1>1, IntervalSize
    <2>2. B \subseteq below
      BY <1>6
    <2> HIDE DEF below
    <2>3. Cardinality(B) <= Cardinality(below)
      BY <2>1, <2>2, FS_Subset
    <2>4. QED
      BY <1>1, <2>1, <2>3
  <1>12. QED
    BY <1>10, <1>11

LEMMA SumMonotone ==
    ASSUME NEW S, IsFiniteSet(S), AreSpans(S), NEW T, T \subseteq S, NEW U, U \subseteq T
    PROVE  Sum(U) <= Sum(T)
  <1> DEFINE rest == T \ U
             f == Length(S)
  <1>1. IsFiniteSet(U) /\ IsFiniteSet(rest) /\ U \cap rest = {} /\ U \cup rest = T
    BY FS_Subset
  <1>2. \A s \in U \cup rest : f[s] \in Int /\ f[s] \in Nat
    BY LengthFacts
  <1> HIDE DEF rest, f
  <1>3. SumFunctionOnSet(f, U \cup rest) = SumFunctionOnSet(f, U) + SumFunctionOnSet(f, rest)
    BY <1>1, <1>2, SumUnion
  <1>4. SumFunctionOnSet(f, U) \in Nat /\ SumFunctionOnSet(f, rest) \in Nat
    BY <1>1, <1>2, SumNat
  <1>5. SumFunctionOnSet(f, U) <= SumFunctionOnSet(f, U \cup rest)
    BY <1>3, <1>4
  <1>6. Sum(U) = SumFunctionOnSet(f, U) /\ Sum(T) = SumFunctionOnSet(f, T)
    BY SumOf DEF f
  <1>7. QED
    BY <1>1, <1>5, <1>6, Zenon

KeyOf(dimensions) == [s \in spans |-> RowKey(s.owner, dimensions)]

\* The rows of some keys hold the spans whose key is one of them.
LEMMA SumRows ==
    ASSUME IsFiniteSet(spans), AreSpans(spans), NEW dimensions, NEW keys, keys \subseteq Rows(dimensions)
    PROVE  SumOfRows(keys, dimensions) = Sum({s \in spans : RowKey(s.owner, dimensions) \in keys})
  <1> DEFINE key  == KeyOf(dimensions)
             in   == {s \in spans : RowKey(s.owner, dimensions) \in keys}
             f    == Length(spans)
             row  == [k \in keys |-> SumFunctionOnSet(f, {s \in in : key[s] = k})]
             size == [k \in keys |-> RowSize(k, dimensions)]
  <1>1. IsFiniteSet(in) /\ in \subseteq spans /\ \A s \in in : key[s] \in keys
    BY FS_Subset DEF KeyOf
  <1>2. IsFiniteSet(keys)
    <2>1. key \in [spans -> Rows(dimensions)]
      BY DEF KeyOf, Rows
    <2>2. \A k \in Rows(dimensions) : \E s \in spans : key[s] = k
      BY DEF KeyOf, Rows
    <2>3. key \in Surjection(spans, Rows(dimensions))
      BY <2>1, <2>2 DEF Surjection
    <2>4. IsFiniteSet(Rows(dimensions))
      BY <2>3, FS_Surjection
    <2>5. QED
      BY <2>4, FS_Subset
  <1>3. \A s \in in : f[s] \in Int
    BY <1>1, LengthFacts
  <1>4. ASSUME NEW k \in keys PROVE row[k] = size[k]
    <2> DEFINE those == {s \in spans : RowKey(s.owner, dimensions) = k}
    <2>1. {s \in in : key[s] = k} = those
      BY DEF KeyOf
    <2>2. Sum(those) = SumFunctionOnSet(f, those)
      <3>1. those \subseteq spans
        OBVIOUS
      <3> HIDE DEF those
      <3>2. QED
        BY <3>1, SumOf
    <2>3. size[k] = Sum(those)
      BY DEF RowSize
    <2>4. row[k] = SumFunctionOnSet(f, {s \in in : key[s] = k})
      OBVIOUS
    <2> HIDE DEF those, row, size, in, key, f
    <2>5. QED
      BY <2>1, <2>2, <2>3, <2>4, Zenon
  <1>5. SumOfRows(keys, dimensions) = SumFunctionOnSet(size, keys)
    <2>1. DOMAIN size = keys
      OBVIOUS
    <2>2. SumOfRows(keys, dimensions) = SumFunctionOnSet(size, DOMAIN size)
      BY DEF SumOfRows, SumFunction
    <2> HIDE DEF size
    <2>3. QED
      BY <2>1, <2>2, Zenon
  <1> HIDE DEF in, key, f, size
  <1>6. SumFunctionOnSet(f, in) = SumFunctionOnSet(row, keys)
    BY <1>1, <1>2, <1>3, SumByRows
  <1> HIDE DEF row
  <1>7. SumFunctionOnSet(row, keys) = SumFunctionOnSet(size, keys)
    BY <1>2, <1>4, SumSame
  <1>8. Sum(in) = SumFunctionOnSet(f, in)
    BY <1>1, SumOf DEF f
  <1>9. SumOfRows(keys, dimensions) = Sum(in)
    BY <1>5, <1>6, <1>7, <1>8, Zenon
  <1>10. QED
    BY <1>9 DEF in

\* A row of a section is the row of no other gap or segment.
OwnedBySection(owner) == owner.what \in {"symbol", "noSymbol"}

LEMMA KeyFacts ==
    ASSUME NEW owner, NEW dimensions, dimensions \in (SUBSET Dimensions) \ {{}}
    PROVE  /\ "Section" \in DOMAIN RowKey(owner, dimensions).path
                 <=> OwnedBySection(owner) /\ "Section" \in dimensions
           /\ "Section" \in dimensions /\ OwnedBySection(owner) =>
                 RowKey(owner, dimensions).path["Section"] = SectionLabel(owner.of.section)
           /\ owner.what = "symbol" => RowKey(owner, dimensions).unattributed = FALSE
  <1>1. CASE OwnedBySection(owner)
    <2> DEFINE path == [d \in dimensions |->
                          IF d = "Section" THEN SectionLabel(owner.of.section)
                          ELSE IF owner.what = "symbol" THEN GroupName(owner.of) ELSE NoSymbolName]
    <2>1. /\ RowKey(owner, dimensions).path = path
          /\ RowKey(owner, dimensions).unattributed = (owner.what = "noSymbol" /\ "Symbol" \in dimensions)
      BY <1>1 DEF RowKey, OwnedBySection
    <2>2. DOMAIN path = dimensions /\ ("Section" \in dimensions => path["Section"] = SectionLabel(owner.of.section))
      OBVIOUS
    <2>3. owner.what = "symbol" => owner.what # "noSymbol"
      OBVIOUS
    <2> HIDE DEF path
    <2>4. QED
      BY <1>1, <2>1, <2>2, <2>3
  <1>2. CASE ~OwnedBySection(owner)
    <2>1. RowKey(owner, dimensions).path =
             [d \in {"Gap"} |-> IF owner.what = "segment" THEN input.segments[owner.of.section].name
                                ELSE owner.what]
      BY <1>2 DEF RowKey, OwnedBySection
    <2>2. DOMAIN RowKey(owner, dimensions).path = {"Gap"}
      BY <2>1
    <2>3. QED
      BY <1>2, <2>2 DEF OwnedBySection
  <1>3. QED
    BY <1>1, <1>2

LEMMA SectionKey ==
    ASSUME NEW owner, OwnedBySection(owner)
    PROVE  RowKey(owner, {"Section"}) =
              [unattributed |-> FALSE, path |-> [d \in {"Section"} |-> SectionLabel(owner.of.section)]]
  BY DEF RowKey, OwnedBySection

LEMMA AddsUpWhenDone == ASSUME TypeInv, MergeInv, SpanInv PROVE RowsAddUp
  <1> SUFFICES ASSUME phase = "done" PROVE RowsAddUp
    BY DEF RowsAddUp
  <1> DEFINE bytes == Covered(universe)
  <1>1. MaxAddress \in Nat /\ Addresses = 0..MaxAddress /\ Addresses \subseteq Nat
    BY InputAssumption DEF Addresses
  <1>2. AreSpans(spans) /\ AreSpans(universe)
    <2>1. AreSpans(spans)
      BY <1>1 DEF TypeInv, SpanTypes, AreSpans
    <2>2. AreSpans(universe)
      BY <1>1 DEF TypeInv, VarTypes, NothingEmpty, AreSpans
    <2>3. QED
      BY <2>1, <2>2
  <1>3. Tiles(spans, bytes)
    BY DEF SpanInv, Bytes
  <1>4. Tiles(universe, bytes)
    <2>1. ASSUME NEW s \in universe, NEW t \in universe, NEW x \in Addresses, Covers(s, x), Covers(t, x)
          PROVE  s = t
      <3>1. Apart(s, t)
        BY DEF MergeInv
      <3>2. x \in Nat /\ s.from \in Nat /\ s.to \in Nat /\ t.from \in Nat /\ t.to \in Nat
        BY <1>1, <1>2 DEF AreSpans
      <3>3. s.from <= x /\ x < s.to /\ t.from <= x /\ x < t.to
        BY <2>1 DEF Covers
      <3>4. QED
        BY <3>1, <3>2, <3>3 DEF Apart
    <2>2. QED
      BY <2>1 DEF Tiles
  <1> HIDE DEF bytes
  <1>5. IsFiniteSet(spans)
    BY <1>2, <1>3, SpansFinite
  <1>6. /\ Sum(spans) = Cardinality(bytes) /\ Sum(universe) = Cardinality(bytes)
        /\ Sum(universe) <= MaxAddress
    BY <1>2, <1>3, <1>4, SumOfTiles
  <1>7. ASSUME NEW dimensions \in (SUBSET Dimensions) \ {{}}
        PROVE  /\ Total = SumOfRows(Rows(dimensions), dimensions)
               /\ Shared <= SumOfRows({key \in Rows(dimensions) : ~key.unattributed}, dimensions)
    <2>1. SumOfRows(Rows(dimensions), dimensions)
             = Sum({s \in spans : RowKey(s.owner, dimensions) \in Rows(dimensions)})
      BY <1>2, <1>5, SumRows
    <2>2. {s \in spans : RowKey(s.owner, dimensions) \in Rows(dimensions)} = spans
      BY DEF Rows
    <2>3. Total = SumOfRows(Rows(dimensions), dimensions)
      BY <1>6, <2>1, <2>2, Zenon DEF Total
    <2> DEFINE keys   == {key \in Rows(dimensions) : ~key.unattributed}
               named  == {s \in spans : RowKey(s.owner, dimensions) \in keys}
               shared == {s \in spans : /\ s.owner.what = "symbol"
                                        /\ Cardinality(MembersOf(input, s.owner.of)) > 1}
    <2>4. shared \subseteq named
      <3>1. ASSUME NEW s \in spans, s.owner.what = "symbol" PROVE s \in named
        <4>1. RowKey(s.owner, dimensions) \in Rows(dimensions)
          BY DEF Rows
        <4>2. RowKey(s.owner, dimensions).unattributed = FALSE
          BY <3>1, KeyFacts
        <4>3. QED
          BY <4>1, <4>2
      <3>2. QED
        BY <3>1
    <2>5. Shared = Sum(shared)
      BY DEF Shared
    <2>6. named \subseteq spans /\ keys \subseteq Rows(dimensions)
      OBVIOUS
    <2>7. SumOfRows(keys, dimensions) = Sum(named)
      <3> HIDE DEF keys
      <3>1. QED
        BY <1>2, <1>5, <2>6, SumRows
    <2> HIDE DEF named, shared, keys
    <2>8. Sum(shared) <= Sum(named)
      BY <1>2, <1>5, <2>4, <2>6, SumMonotone
    <2>9. Shared <= SumOfRows(keys, dimensions)
      BY <2>5, <2>7, <2>8, Zenon
    <2>10. QED
      BY <2>3, <2>9 DEF keys
  <1>8. ASSUME NEW row \in Rows({"Section"}), "Section" \in DOMAIN row.path
        PROVE  RowSize(row, {"Section"}) =
                  SumOfRows({key \in Rows(Dimensions) : /\ "Section" \in DOMAIN key.path
                                                        /\ key.path["Section"] = row.path["Section"]},
                            Dimensions)
    <2> DEFINE keys  == {key \in Rows(Dimensions) : /\ "Section" \in DOMAIN key.path
                                                    /\ key.path["Section"] = row.path["Section"]}
               these == {s \in spans : RowKey(s.owner, {"Section"}) = row}
               those == {s \in spans : RowKey(s.owner, Dimensions) \in keys}
    <2>1. PICK r \in spans : row = RowKey(r.owner, {"Section"})
      BY DEF Rows
    <2>2. {"Section"} \in (SUBSET Dimensions) \ {{}} /\ Dimensions \in (SUBSET Dimensions) \ {{}}
          /\ "Section" \in Dimensions /\ "Section" \in {"Section"}
      BY DEF Dimensions
    <2>3. OwnedBySection(r.owner)
      BY <1>8, <2>1, <2>2, KeyFacts
    <2>4. row = [unattributed |-> FALSE, path |-> [d \in {"Section"} |-> SectionLabel(r.owner.of.section)]]
      BY <2>1, <2>3, SectionKey
    <2>5. row.path["Section"] = SectionLabel(r.owner.of.section)
      BY <2>4
    <2>6. ASSUME NEW s \in spans
          PROVE  RowKey(s.owner, {"Section"}) = row <=> RowKey(s.owner, Dimensions) \in keys
      <3>1. RowKey(s.owner, Dimensions) \in Rows(Dimensions)
        BY DEF Rows
      <3>2. RowKey(s.owner, Dimensions) \in keys
              <=> OwnedBySection(s.owner) /\ SectionLabel(s.owner.of.section) = row.path["Section"]
        BY <2>2, <3>1, KeyFacts
      <3>3. CASE OwnedBySection(s.owner)
        <4>1. RowKey(s.owner, {"Section"}) =
                 [unattributed |-> FALSE, path |-> [d \in {"Section"} |-> SectionLabel(s.owner.of.section)]]
          BY <3>3, SectionKey
        <4>2. RowKey(s.owner, {"Section"}) = row => SectionLabel(s.owner.of.section) = row.path["Section"]
          <5>1. RowKey(s.owner, {"Section"}).path["Section"] = SectionLabel(s.owner.of.section)
            BY <4>1
          <5>2. QED
            BY <5>1, Zenon
        <4>3. SectionLabel(s.owner.of.section) = row.path["Section"] => RowKey(s.owner, {"Section"}) = row
          BY <2>4, <2>5, <4>1, Zenon
        <4>4. QED
          BY <3>2, <3>3, <4>2, <4>3
      <3>4. CASE ~OwnedBySection(s.owner)
        <4>1. "Section" \notin DOMAIN RowKey(s.owner, {"Section"}).path
          BY <2>2, <3>4, KeyFacts
        <4>2. QED
          BY <1>8, <3>2, <3>4, <4>1
      <3>5. QED
        BY <3>3, <3>4
    <2>7. these = those
      <3> HIDE DEF keys
      <3>1. QED
        BY <2>6
    <2>8. RowSize(row, {"Section"}) = Sum(these)
      BY DEF RowSize
    <2>9. keys \subseteq Rows(Dimensions)
      OBVIOUS
    <2>10. SumOfRows(keys, Dimensions) = Sum(those)
      <3> HIDE DEF keys
      <3>1. QED
        BY <1>2, <1>5, <2>9, SumRows
    <2> HIDE DEF keys, these, those
    <2>11. RowSize(row, {"Section"}) = SumOfRows(keys, Dimensions)
      BY <2>7, <2>8, <2>10, Zenon
    <2>12. QED
      BY <2>11 DEF keys
  <1>9. QED
    BY <1>6, <1>7, <1>8 DEF RowsAddUp, Total

-----------------------------------------------------------------------------
AttributionInv == TypeInv /\ MergeInv /\ ClaimInv /\ GapInv /\ SpanInv /\ SweepInv /\ NamedInv

LEMMA AttributionStarts == ASSUME IsInput(input), Start PROVE AttributionInv
  BY TypeInvStarts, MergeInvStarts, ClaimInvStarts, GapInvStarts, SpanInvStarts, SweepInvStarts,
     NamedInvStarts DEF AttributionInv

LEMMA AttributionKept == ASSUME AttributionInv, [Next]_vars PROVE AttributionInv'
  <1>1. TypeInv' /\ MergeInv' /\ ClaimInv'
    BY TypeInvKept, MergeInvKept, ClaimInvKept DEF AttributionInv
  <1>2. GapInv' /\ SpanInv'
    BY GapInvKept, SpanInvKept DEF AttributionInv
  <1>3. SweepInv'
    BY <1>1, <1>2, SweepInvKept DEF AttributionInv
  <1>4. NamedInv'
    BY <1>2, NamedInvKept DEF AttributionInv
  <1>5. QED
    BY <1>1, <1>2, <1>3, <1>4 DEF AttributionInv

LEMMA AttributionInvHolds == Spec => []AttributionInv
  <1>1. Init => AttributionInv
    BY InputAssumption, AttributionStarts DEF Init
  <1>2. AttributionInv /\ [Next]_vars => AttributionInv'
    BY AttributionKept
  <1>3. QED
    BY <1>1, <1>2, PTL DEF Spec

(* Addresses never leave the width of the address space, and every loop     *)
(* walks what it is for, whatever the headers say (the saturating ends of   *)
(* `bounds').                                                               *)
THEOREM AttributionTypeCorrect == Spec => []TypeOK
  <1>1. AttributionInv => TypeOK
    BY TypesAreOK DEF AttributionInv
  <1>2. QED
    BY <1>1, AttributionInvHolds, PTL

(* A byte of several sections is owned by the first of them in the sweep's  *)
(* order: the claims of the summary lens never depend on the order in which *)
(* the container lists its sections, except between equal extents.          *)
THEOREM FirstSectionOwns == Spec => []FirstClaimOwns
  <1>1. AttributionInv => FirstClaimOwns
    BY FirstClaims DEF AttributionInv
  <1>2. QED
    BY <1>1, AttributionInvHolds, PTL

(* Whatever the headers say, every byte of the universe is in exactly one   *)
(* span and no span holds a byte from outside: overlapping sections and     *)
(* symbols, names of gaps and the three sweeps lose nothing and count       *)
(* nothing twice (total_and_spans in summary.rs).                          *)
THEOREM EveryByteAttributedOnce == Spec => []EveryByteOnce
  <1>1. AttributionInv => EveryByteOnce
    BY BytesOnce DEF AttributionInv
  <1>2. QED
    BY <1>1, AttributionInvHolds, PTL

(* Nested and overlapping symbols share the bytes of their section in the   *)
(* order of the sweep: one that is met later never takes bytes from one     *)
(* that starts earlier or encloses it, and no byte of a symbol is left      *)
(* without one (the cursor in total_and_spans).                            *)
THEOREM SymbolsNest == Spec => []OutermostSymbolOwns
  <1>1. AttributionInv => OutermostSymbolOwns
    BY OutermostOwns DEF AttributionInv
  <1>2. QED
    BY <1>1, AttributionInvHolds, PTL

(* The user is told of each section and each symbol that lost its first     *)
(* bytes to another one, and of who got them, and of nothing else (the two  *)
(* overlap diagnostics of total_and_spans).                                *)
THEOREM OverlapsReported == Spec => []OverlapsNamed
  <1>1. AttributionInv => OverlapsNamed
    BY OverlapsAreNamed DEF AttributionInv
  <1>2. QED
    BY <1>1, AttributionInvHolds, PTL

(* The bytes of the universe are the bytes of the rows, whichever           *)
(* dimensions they have: no sum saturates, the rows of a section by symbol  *)
(* add up to its row by section, and bytes of alias groups are counted once *)
(* and in rows of symbols (`build' and row_key in summary.rs).              *)
THEOREM TotalsAddUp == Spec => []RowsAddUp
  <1>1. AttributionInv => RowsAddUp
    BY AddsUpWhenDone DEF AttributionInv
  <1>2. QED
    BY <1>1, AttributionInvHolds, PTL

-----------------------------------------------------------------------------
(* Sizes that debug info records are numbers of 64 bits.                   *)
LEMMA SmallestFacts ==
    ASSUME NEW S, S \subseteq Nat, S # {}
    PROVE  Table!SmallestOf(S) \in S /\ \A n \in S : Table!SmallestOf(S) <= n
  <1>1. \E m \in S : \A n \in S : m <= n
    BY LeastNat
  <1>2. QED
    BY <1>1 DEF Table!SmallestOf

\* A set of positions has a first one, whether they are pairs or triples.
LEMMA FirstPair ==
    ASSUME NEW P, P \subseteq Nat \X Nat, P # {}
    PROVE  Table!FirstOf(P) \in P
  <1>1. PICK m \in {p[1] : p \in P} : \A n \in {p[1] : p \in P} : m <= n
    <2>1. {p[1] : p \in P} \subseteq Nat /\ {p[1] : p \in P} # {}
      OBVIOUS
    <2>2. QED
      BY <2>1, LeastNat
  <1> DEFINE Q == {p \in P : p[1] = m}
  <1>2. PICK k \in {p[2] : p \in Q} : \A n \in {p[2] : p \in Q} : k <= n
    <2>1. {p[2] : p \in Q} \subseteq Nat /\ {p[2] : p \in Q} # {}
      BY <1>1
    <2>2. QED
      BY <2>1, LeastNat
  <1>3. PICK first \in P : first[1] = m /\ first[2] = k
    BY <1>2
  <1>4. ASSUME NEW q \in P, q # first PROVE Table!Earlier(first, q)
    <2>1. /\ q = <<q[1], q[2]>> /\ first = <<first[1], first[2]>>
          /\ q[1] \in Nat /\ q[2] \in Nat /\ m \in Nat /\ k \in Nat
          /\ DOMAIN first = 1..2
      BY <1>3
    <2>2. m <= q[1]
      BY <1>1
    <2>3. q[1] = m => k <= q[2]
      BY <1>2
    <2>4. CASE m < q[1]
      <3>1. first[1] < q[1] /\ \A j \in 1..(1 - 1) : first[j] = q[j]
        BY <1>3, <2>1, <2>4
      <3>2. QED
        BY <2>1, <3>1 DEF Table!Earlier
    <2>5. CASE q[1] = m
      <3>1. q[2] # k
        BY <1>3, <1>4, <2>1, <2>5
      <3>2. first[2] < q[2] /\ \A j \in 1..(2 - 1) : first[j] = q[j]
        BY <1>3, <2>1, <2>3, <2>5, <3>1
      <3>3. QED
        BY <2>1, <3>2 DEF Table!Earlier
    <2>6. QED
      BY <2>1, <2>2, <2>4, <2>5
  <1>5. QED
    BY <1>4 DEF Table!FirstOf

LEMMA FirstTriple ==
    ASSUME NEW P, P \subseteq Nat \X Nat \X Nat, P # {}
    PROVE  Table!FirstOf(P) \in P
  <1>1. PICK m \in {p[1] : p \in P} : \A n \in {p[1] : p \in P} : m <= n
    <2>1. {p[1] : p \in P} \subseteq Nat /\ {p[1] : p \in P} # {}
      OBVIOUS
    <2>2. QED
      BY <2>1, LeastNat
  <1> DEFINE Q == {p \in P : p[1] = m}
  <1>2. PICK k \in {p[2] : p \in Q} : \A n \in {p[2] : p \in Q} : k <= n
    <2>1. {p[2] : p \in Q} \subseteq Nat /\ {p[2] : p \in Q} # {}
      BY <1>1
    <2>2. QED
      BY <2>1, LeastNat
  <1> DEFINE R == {p \in Q : p[2] = k}
  <1>3. PICK l \in {p[3] : p \in R} : \A n \in {p[3] : p \in R} : l <= n
    <2>1. {p[3] : p \in R} \subseteq Nat /\ {p[3] : p \in R} # {}
      BY <1>2
    <2>2. QED
      BY <2>1, LeastNat
  <1>4. PICK first \in P : first[1] = m /\ first[2] = k /\ first[3] = l
    BY <1>3
  <1>5. ASSUME NEW q \in P, q # first PROVE Table!Earlier(first, q)
    <2>1. /\ q = <<q[1], q[2], q[3]>> /\ first = <<first[1], first[2], first[3]>>
          /\ q[1] \in Nat /\ q[2] \in Nat /\ q[3] \in Nat
          /\ m \in Nat /\ k \in Nat /\ l \in Nat
          /\ DOMAIN first = 1..3
      BY <1>4
    <2>2. m <= q[1]
      BY <1>1
    <2>3. q[1] = m => k <= q[2]
      BY <1>2
    <2>4. q[1] = m /\ q[2] = k => l <= q[3]
      BY <1>3
    <2>5. CASE m < q[1]
      <3>1. first[1] < q[1] /\ \A j \in 1..(1 - 1) : first[j] = q[j]
        BY <1>4, <2>1, <2>5
      <3>2. QED
        BY <2>1, <3>1 DEF Table!Earlier
    <2>6. CASE q[1] = m /\ k < q[2]
      <3>1. first[2] < q[2] /\ \A j \in 1..(2 - 1) : first[j] = q[j]
        BY <1>4, <2>1, <2>6
      <3>2. QED
        BY <2>1, <3>1 DEF Table!Earlier
    <2>7. CASE q[1] = m /\ q[2] = k
      <3>1. q[3] # l
        BY <1>4, <1>5, <2>1, <2>7
      <3>2. first[3] < q[3] /\ \A j \in 1..(3 - 1) : first[j] = q[j]
        BY <1>4, <2>1, <2>4, <2>7, <3>1
      <3>3. QED
        BY <2>1, <3>2 DEF Table!Earlier
    <2>8. QED
      BY <2>1, <2>2, <2>3, <2>5, <2>6, <2>7
  <1>6. QED
    BY <1>5 DEF Table!FirstOf

IsDebug(debug) == DOMAIN debug \subseteq Nat /\ \A r \in DOMAIN debug : IsReader(debug[r])

LEMMA EntryRangeSize ==
    ASSUME NEW ranges \in Seq(Ranges), ranges # <<>>
    PROVE  Table!EntryRange(ranges).size \in Addresses
  <1> DEFINE starts == {ranges[i].start : i \in DOMAIN ranges}
             start  == Table!SmallestOf(starts)
             found  == {i \in DOMAIN ranges : ranges[i].start = start}
  <1>1. /\ DOMAIN ranges \subseteq Nat /\ DOMAIN ranges # {}
        /\ \A i \in DOMAIN ranges : ranges[i] \in Ranges
    <2>1. Len(ranges) \in Nat /\ DOMAIN ranges = 1..Len(ranges)
      OBVIOUS
    <2>2. Len(ranges) # 0
      OBVIOUS
    <2>3. \A i \in DOMAIN ranges : ranges[i] \in Ranges
      OBVIOUS
    <2>4. 1 \in DOMAIN ranges
      BY <2>1, <2>2
    <2>5. QED
      BY <2>1, <2>3, <2>4
  <1>2. starts \subseteq Nat /\ starts # {}
    BY <1>1, AddressFacts DEF Ranges
  <1>3. start \in starts
    <2> HIDE DEF starts
    <2>1. QED
      BY <1>2, SmallestFacts
  <1>4. found \subseteq Nat /\ found # {}
    BY <1>1, <1>3
  <1>5. Table!SmallestOf(found) \in found
    <2> HIDE DEF found
    <2>1. QED
      BY <1>4, SmallestFacts
  <1>6. Table!EntryRange(ranges) = ranges[Table!SmallestOf(found)]
    BY DEF Table!EntryRange
  <1>7. QED
    BY <1>1, <1>5, <1>6 DEF Ranges

LEMMA FunctionSizeFits ==
    ASSUME NEW debug, IsDebug(debug), NEW address
    PROVE  Table!FunctionSize(debug, address) \in Addresses
  <1> DEFINE P == Table!FunctionsAt(debug, address)
             p == Table!FirstOf(P)
  <1>1. CASE P = {}
    BY <1>1, InputAssumption DEF Table!FunctionSize, Addresses
  <1>2. CASE P # {}
    <2>1. ASSUME NEW q \in P
          PROVE  /\ q \in Nat \X Nat \X Nat
                 /\ debug[q[1]].functions[q[2]][q[3]] \in Seq(Ranges)
                 /\ debug[q[1]].functions[q[2]][q[3]] # <<>>
      <3>1. PICK r \in DOMAIN debug : debug[r].functions # Failed
              /\ \E u \in DOMAIN debug[r].functions : debug[r].functions[u] # Failed
                   /\ \E f \in DOMAIN debug[r].functions[u] : q = <<r, u, f>>
        BY DEF Table!FunctionsAt
      <3>2. PICK u \in DOMAIN debug[r].functions : debug[r].functions[u] # Failed
                   /\ \E f \in DOMAIN debug[r].functions[u] : q = <<r, u, f>>
        BY <3>1
      <3>3. PICK f \in DOMAIN debug[r].functions[u] : q = <<r, u, f>>
        BY <3>2
      <3>4. r \in Nat /\ u \in Nat /\ debug[r].functions[u] \in Seq(Seq(Ranges))
        BY <3>1, <3>2 DEF IsDebug, IsReader
      <3>5. f \in Nat /\ debug[r].functions[u][f] \in Seq(Ranges)
        BY <3>4
      <3>6. debug[q[1]].functions[q[2]][q[3]] # <<>>
        BY DEF Table!FunctionsAt
      <3>7. QED
        BY <3>3, <3>4, <3>5, <3>6
    <2>2. p \in P
      <3>1. P \subseteq Nat \X Nat \X Nat
        BY <2>1
      <3> HIDE DEF P
      <3>2. QED
        BY <1>2, <3>1, FirstTriple
    <2>3. Table!EntryRange(debug[p[1]].functions[p[2]][p[3]]).size \in Addresses
      BY <2>1, <2>2, EntryRangeSize
    <2>4. Table!FunctionSize(debug, address) = Table!EntryRange(debug[p[1]].functions[p[2]][p[3]]).size
      BY <1>2 DEF Table!FunctionSize
    <2>5. QED
      BY <2>3, <2>4
  <1>3. QED
    BY <1>1, <1>2

LEMMA VariableSizeFits ==
    ASSUME NEW debug, IsDebug(debug), NEW address
    PROVE  Table!VariableSize(debug, address) \in Addresses
  <1> DEFINE P == Table!VariablesAt(debug, address)
             p == Table!FirstOf(P)
  <1>1. CASE P = {}
    BY <1>1, InputAssumption DEF Table!VariableSize, Addresses
  <1>2. CASE P # {}
    <2>1. ASSUME NEW q \in P
          PROVE  q \in Nat \X Nat /\ debug[q[1]].variables[q[2]].size \in Addresses
      <3>1. PICK r \in DOMAIN debug : debug[r].variables # Failed
              /\ \E v \in DOMAIN debug[r].variables : q = <<r, v>>
        BY DEF Table!VariablesAt
      <3>2. PICK v \in DOMAIN debug[r].variables : q = <<r, v>>
        BY <3>1
      <3>3. r \in Nat /\ v \in Nat /\ debug[r].variables[v].size \in Addresses
        BY <3>1 DEF IsDebug, IsReader, IsSized
      <3>4. QED
        BY <3>2, <3>3
    <2>2. p \in P
      <3>1. P \subseteq Nat \X Nat
        BY <2>1
      <3> HIDE DEF P
      <3>2. QED
        BY <1>2, <3>1, FirstPair
    <2>3. QED
      BY <1>2, <2>1, <2>2 DEF Table!VariableSize
  <1>3. QED
    BY <1>1, <1>2

LEMMA DebugSizeFits ==
    ASSUME NEW debug, IsDebug(debug), NEW symbol
    PROVE  Table!DebugSize(debug, symbol) \in Addresses
  <1>1. \/ Table!DebugSize(debug, symbol) = Table!FunctionSize(debug, symbol.address)
        \/ Table!DebugSize(debug, symbol) = Table!VariableSize(debug, symbol.address)
        \/ Table!DebugSize(debug, symbol) = 0
    BY Zenon DEF Table!DebugSize
  <1>2. 0 \in Addresses
    BY InputAssumption DEF Addresses
  <1>3. QED
    BY <1>1, <1>2, FunctionSizeFits, VariableSizeFits

-----------------------------------------------------------------------------
(* What each stage makes of the entries.                                   *)
Kept(b) == {s \in Table!RawSymbols(b) : s.kind # "Section" /\ s.name # 0}

\* SizesStick, of two sets of entries.
Sticks(E, F) ==
    /\ {e.symbol : e \in F} = {e.symbol : e \in E}
    /\ \A e \in E : e.size > 0 => e \in F

LEMMA EntryFields ==
    ASSUME NEW symbol, NEW size, NEW evidence
    PROVE  /\ Table!Entry(symbol, size, evidence).symbol = symbol
           /\ Table!Entry(symbol, size, evidence).size = size
           /\ Table!Entry(symbol, size, evidence).evidence = evidence
  BY DEF Table!Entry

\* A stage changes entries one by one, and only those without a size.
LEMMA OneByOne ==
    ASSUME NEW E, NEW F, NEW change, F = {change[e] : e \in E},
           \A e \in E : change[e].symbol = e.symbol,
           \A e \in E : e.size > 0 => change[e] = e
    PROVE  Sticks(E, F)
  <1>1. ASSUME NEW x \in {e.symbol : e \in E} PROVE x \in {e.symbol : e \in F}
    <2>1. PICK e \in E : x = e.symbol
      OBVIOUS
    <2>2. change[e] \in F /\ change[e].symbol = x
      BY <2>1
    <2>3. QED
      BY <2>2
  <1>2. ASSUME NEW x \in {e.symbol : e \in F} PROVE x \in {e.symbol : e \in E}
    <2>1. PICK f \in F : x = f.symbol
      OBVIOUS
    <2>2. PICK e \in E : f = change[e]
      OBVIOUS
    <2>3. QED
      BY <2>1, <2>2
  <1>3. ASSUME NEW e \in E, e.size > 0 PROVE e \in F
    BY <1>3
  <1>4. QED
    BY <1>1, <1>2, <1>3 DEF Sticks

LEMMA RecordedFacts ==
    ASSUME NEW b
    PROVE  /\ \A e \in Table!RecordedSizes(b) :
                 e.symbol \in Kept(b) /\ e.size = e.symbol.size /\ e.evidence # "Heuristic"
           /\ {e.symbol : e \in Table!RecordedSizes(b)} = Kept(b)
  <1> DEFINE Of(s) == Table!Entry(s, s.size, IF s.size > 0 THEN Table!RecordedEvidence(b) ELSE "none")
  <1>1. Table!RecordedSizes(b) = {Of(s) : s \in Kept(b)}
    BY DEF Table!RecordedSizes, Kept
  <1>2. \A s : Of(s).symbol = s /\ Of(s).size = s.size /\ Of(s).evidence # "Heuristic"
    BY EntryFields DEF Table!RecordedEvidence
  <1> HIDE DEF Of
  <1>3. \A s \in Kept(b) : \E e \in Table!RecordedSizes(b) : e.symbol = s
    BY <1>1, <1>2
  <1>4. QED
    BY <1>1, <1>2, <1>3

LEMMA DebugFacts ==
    ASSUME NEW b, NEW E
    PROVE  /\ Sticks(E, Table!DebugSizes(b, E))
           /\ \A f \in Table!DebugSizes(b, E) :
                 \E e \in E : /\ f.symbol = e.symbol
                              /\ f = e \/ f.size = Table!DebugSize(b.debug, e.symbol)
                              /\ f = e \/ f.evidence = "DebugInfo"
  <1> DEFINE Size(e)   == Table!DebugSize(b.debug, e.symbol)
             Change(e) == IF e.size = 0 /\ Size(e) > 0
                          THEN Table!Entry(e.symbol, Size(e), "DebugInfo") ELSE e
  <1>1. Table!DebugSizes(b, E) = {Change(e) : e \in E}
    BY DEF Table!DebugSizes
  <1> HIDE DEF Size
  <1>2. \A e : /\ Change(e).symbol = e.symbol
               /\ e.size > 0 => Change(e) = e
               /\ Change(e) = e \/ Change(e).size = Size(e)
               /\ Change(e) = e \/ Change(e).evidence = "DebugInfo"
    BY EntryFields
  <1> HIDE DEF Change
  <1> DEFINE change == [e \in E |-> Change(e)]
  <1>3. Sticks(E, Table!DebugSizes(b, E))
    <2>1. /\ Table!DebugSizes(b, E) = {change[e] : e \in E}
          /\ \A e \in E : change[e] = Change(e)
      BY <1>1
    <2> HIDE DEF change
    <2>2. QED
      BY <1>2, <2>1, OneByOne
  <1>4. QED
    BY <1>1, <1>2, <1>3 DEF Size

LEMMA HeuristicFacts ==
    ASSUME NEW b, NEW E
    PROVE  /\ Sticks(E, Table!HeuristicSizes(b, E))
           /\ \A f \in Table!HeuristicSizes(b, E) :
                 \/ f \in E
                 \/ \E e \in E :
                       /\ Table!Guessable(b, e.symbol)
                       /\ Table!GuessedEnd(b, E, e.symbol) > e.symbol.address
                       /\ f.symbol = e.symbol
                       /\ f.size = Table!GuessedEnd(b, E, e.symbol) - e.symbol.address
  <1> DEFINE GuessEnd(e) == Table!GuessedEnd(b, E, e.symbol)
             Change(e)   == IF e.size = 0 /\ Table!Guessable(b, e.symbol) /\ GuessEnd(e) > e.symbol.address
                            THEN Table!Entry(e.symbol, GuessEnd(e) - e.symbol.address, "Heuristic") ELSE e
  <1>1. Table!HeuristicSizes(b, E) = {Change(e) : e \in E}
    BY DEF Table!HeuristicSizes
  <1> HIDE DEF GuessEnd
  <1>2. \A e : /\ Change(e).symbol = e.symbol
               /\ e.size > 0 => Change(e) = e
               /\ \/ Change(e) = e
                  \/ /\ Table!Guessable(b, e.symbol) /\ GuessEnd(e) > e.symbol.address
                     /\ Change(e).size = GuessEnd(e) - e.symbol.address
    BY EntryFields
  <1> HIDE DEF Change
  <1> DEFINE change == [e \in E |-> Change(e)]
  <1>3. Sticks(E, Table!HeuristicSizes(b, E))
    <2>1. /\ Table!HeuristicSizes(b, E) = {change[e] : e \in E}
          /\ \A e \in E : change[e] = Change(e)
      BY <1>1
    <2> HIDE DEF change
    <2>2. QED
      BY <1>2, <2>1, OneByOne
  <1>4. QED
    BY <1>1, <1>2, <1>3 DEF GuessEnd

-----------------------------------------------------------------------------
(* The state of the composition.                                           *)
IsBinary(b) ==
    /\ IsDebug(b.debug)
    /\ \A s \in Kept(b) : IsSized(s)
    /\ \A i \in DOMAIN b.sections : b.sections[i].vm \in Ranges \cup {NoRange}

Stages == {"raw", "debug", "heuristic", "aliases", "done", "summarized"}

\* The table is made from an image, and the attribution's input from both.
MadeFrom(image) ==
    /\ IsInput(Given(image, {})) /\ binary = Binary(image)
    /\ input = Given(image, IF stage = "summarized" THEN table ELSE {})

\* A guess ends at its section's end, and before the next symbol starts.
Fits(b, e) ==
    /\ e.symbol.section \in DOMAIN b.sections
    /\ b.sections[e.symbol.section].vm \in Ranges
    /\ b.sections[e.symbol.section].kind # "Literals"
    /\ e.symbol.address + e.size <= Table!EndOf(b.sections[e.symbol.section].vm)
    /\ \A s \in Kept(b) :
          s.section = e.symbol.section =>
              ~(e.symbol.address < s.address /\ s.address < e.symbol.address + e.size)

EntriesInv ==
    /\ \A e \in entries : e.symbol \in Kept(binary) /\ e.size \in Addresses
    /\ stage # "raw" => {e.symbol : e \in entries} = Kept(binary)
    /\ stage \in {"raw", "debug", "heuristic"} => \A e \in entries : e.evidence # "Heuristic"
    /\ \A e \in entries : e.evidence = "Heuristic" => Fits(binary, e)

RowsInv ==
    /\ stage \notin {"done", "summarized"} => table = {}
    /\ \A row \in table :
          \E e \in entries :
             row.symbol = e.symbol /\ row.size = e.size /\ row.evidence = e.evidence

TableInv ==
    /\ stage \in Stages /\ IsBinary(binary)
    /\ \E image \in Images : MadeFrom(image)
    /\ EntriesInv /\ RowsInv

LEMMA BinaryFacts == ASSUME NEW image \in Images PROVE IsBinary(Binary(image))
  <1> DEFINE b == Binary(image)
  <1>1. /\ b.debug = image.debug /\ b.symbols = image.symbols
        /\ DOMAIN b.sections = DOMAIN image.sections
        /\ \A i \in DOMAIN b.sections : b.sections[i].vm = image.sections[i].extent["vm"]
    BY DEF Binary
  <1> HIDE DEF b
  <1>2. IsDebug(b.debug)
    BY <1>1, ImagesAssumption DEF IsDebug
  <1>3. ASSUME NEW i \in DOMAIN b.sections PROVE b.sections[i].vm \in Ranges \cup {NoRange}
    <2>1. IsInput(Given(image, {})) /\ Given(image, {}).sections = image.sections
      BY ImagesAssumption DEF Given
    <2>2. image.sections[i].extent \in Extents
      BY <1>1, <2>1 DEF IsInput
    <2>3. QED
      BY <1>1, <2>2 DEF Extents, Spaces
  <1>4. ASSUME NEW s \in Table!RawSymbols(b) PROVE IsSized(s)
    <2> DEFINE readers == Table!ReadersWithSymbols(b)
    <2>1. CASE b.symbols # {}
      BY <1>1, <1>4, <2>1, ImagesAssumption DEF Table!RawSymbols
    <2>2. CASE b.symbols = {} /\ readers # {}
      <3>1. readers \subseteq DOMAIN b.debug /\ readers \subseteq Nat
        BY <1>2 DEF Table!ReadersWithSymbols, IsDebug
      <3>2. Table!SmallestOf(readers) \in readers
        <4> HIDE DEF readers
        <4>1. QED
          BY <2>2, <3>1, SmallestFacts
      <3>3. s \in b.debug[Table!SmallestOf(readers)].symbols
        BY <1>4, <2>2 DEF Table!RawSymbols
      <3>4. b.debug[Table!SmallestOf(readers)].symbols # Failed
        BY <3>2 DEF Table!ReadersWithSymbols
      <3>5. QED
        BY <1>2, <3>1, <3>2, <3>3, <3>4 DEF IsDebug, IsReader
    <2>3. CASE b.symbols = {} /\ readers = {}
      BY <1>4, <2>3 DEF Table!RawSymbols
    <2>4. QED
      BY <2>1, <2>2, <2>3
  <1>5. QED
    BY <1>2, <1>3, <1>4 DEF IsBinary, Kept, b

(* A guess reaches no further than it may.                                 *)
LEMMA GuessFits ==
    ASSUME NEW b, IsBinary(b), NEW E, {e.symbol : e \in E} = Kept(b),
           NEW symbol \in Kept(b), Table!Guessable(b, symbol)
    PROVE  /\ Table!GuessedEnd(b, E, symbol) \in Addresses
           /\ Table!GuessedEnd(b, E, symbol) <= Table!EndOf(b.sections[symbol.section].vm)
           /\ \A s \in Kept(b) : s.section = symbol.section /\ s.address > symbol.address
                                   => Table!GuessedEnd(b, E, symbol) <= s.address
           /\ b.sections[symbol.section].vm \in Ranges
           /\ symbol.section \in DOMAIN b.sections
           /\ b.sections[symbol.section].kind # "Literals"
  <1> DEFINE vm   == b.sections[symbol.section].vm
             end  == Table!EndOf(vm)
             next == Table!NextAddresses(E, symbol)
             ends == next \cup {end}
             cap  == {vm.start + vm.size, MaxAddress}
  <1>1. /\ symbol.section \in DOMAIN b.sections /\ vm \in Ranges
        /\ b.sections[symbol.section].kind # "Literals"
    BY DEF Table!Guessable, IsBinary
  <1>2. cap \subseteq Nat /\ cap # {} /\ MaxAddress \in cap /\ MaxAddress \in Nat
    <2>1. vm.start \in Nat /\ vm.size \in Nat
      BY <1>1, AddressFacts DEF Ranges
    <2> HIDE DEF vm
    <2>2. QED
      BY <2>1, InputAssumption
  <1>3. end \in Nat /\ end <= MaxAddress
    <2>1. end = Table!SmallestOf(cap)
      BY DEF Table!EndOf
    <2> HIDE DEF cap, end
    <2>2. end \in cap /\ end <= MaxAddress
      BY <1>2, <2>1, SmallestFacts
    <2>3. QED
      BY <1>2, <2>2
  <1> HIDE DEF end, cap
  <1>4. next \subseteq Nat
    <2>1. ASSUME NEW a \in next PROVE a \in Nat
      <3>1. PICK e \in E : a = e.symbol.address
        BY DEF Table!NextAddresses
      <3>2. e.symbol \in Kept(b)
        OBVIOUS
      <3>3. QED
        BY <3>1, <3>2, AddressFacts DEF IsBinary, IsSized
    <2>2. QED
      BY <2>1
  <1>5. ASSUME NEW s \in Kept(b), s.section = symbol.section, s.address > symbol.address
        PROVE  s.address \in next
    <2>1. PICK e \in E : e.symbol = s
      OBVIOUS
    <2>2. QED
      BY <1>5, <2>1 DEF Table!NextAddresses
  <1> HIDE DEF next
  <1>6. ends \subseteq Nat /\ ends # {}
    BY <1>3, <1>4
  <1>7. Table!GuessedEnd(b, E, symbol) = Table!SmallestOf(ends)
    BY DEF Table!GuessedEnd, end, next
  <1>8. /\ \A n \in ends : Table!SmallestOf(ends) <= n
        /\ Table!SmallestOf(ends) \in ends
    <2> HIDE DEF ends
    <2>1. QED
      BY <1>6, SmallestFacts
  <1>9. Table!GuessedEnd(b, E, symbol) \in Nat /\ Table!GuessedEnd(b, E, symbol) <= end
    BY <1>6, <1>7, <1>8
  <1>10. Table!GuessedEnd(b, E, symbol) \in Addresses
    BY <1>2, <1>3, <1>9 DEF Addresses
  <1>11. \A s \in Kept(b) : s.section = symbol.section /\ s.address > symbol.address
                              => Table!GuessedEnd(b, E, symbol) <= s.address
    BY <1>5, <1>7, <1>8
  <1>12. QED
    BY <1>1, <1>9, <1>10, <1>11 DEF end

LEMMA TableInvStarts == ASSUME SummaryInit PROVE TableInv
  <1>1. PICK image \in Images : input = Given(image, {}) /\ binary = Binary(image)
    BY DEF SummaryInit
  <1>2. stage = "raw" /\ entries = {} /\ table = {}
    BY DEF SummaryInit, Table!Begin
  <1>3. MadeFrom(image)
    BY <1>1, <1>2, ImagesAssumption DEF MadeFrom
  <1>4. QED
    BY <1>1, <1>2, <1>3, BinaryFacts DEF TableInv, EntriesInv, RowsInv, Stages

\* A stage keeps the image and, up to the last one, the empty table.
LEMMA StageKeeps ==
    ASSUME TableInv, binary' = binary, input' = input, stage # "summarized",
           stage' \in Stages \ {"summarized"}, EntriesInv', RowsInv'
    PROVE  TableInv'
  <1>1. PICK image \in Images : MadeFrom(image)
    BY DEF TableInv
  <1>2. MadeFrom(image)'
    BY <1>1 DEF MadeFrom
  <1>3. QED
    BY <1>2 DEF TableInv

LEMMA BuildTableKeeps == ASSUME TableInv, BuildTable PROVE TableInv'
  <1>1. input' = input /\ binary' = binary /\ stage # "done"
    BY DEF BuildTable, vars, Table!Next, Table!TakeSymbols, Table!SizeFromDebugInfo,
           Table!GuessSizes, Table!RelateSymbols, Table!Built, Table!vars
  <1>2. CASE Table!TakeSymbols
    <2>1. /\ stage' = "debug" /\ stage = "raw" /\ table' = table
          /\ entries' = Table!RecordedSizes(binary)
      BY <1>2 DEF Table!TakeSymbols
    <2>2. \A s \in Kept(binary) : s.size \in Addresses
      BY DEF TableInv, IsBinary, IsSized
    <2>3. EntriesInv'
      BY <1>1, <2>1, <2>2, RecordedFacts DEF EntriesInv
    <2>4. RowsInv'
      BY <2>1 DEF TableInv, RowsInv
    <2>5. QED
      BY <1>1, <2>1, <2>3, <2>4, StageKeeps DEF Stages
  <1>3. CASE Table!SizeFromDebugInfo
    <2>1. /\ stage' = "heuristic" /\ stage = "debug" /\ table' = table
          /\ entries' = Table!DebugSizes(binary, entries)
      BY <1>3 DEF Table!SizeFromDebugInfo
    <2>2. {e.symbol : e \in entries'} = Kept(binary)
      BY <2>1, DebugFacts DEF Sticks, TableInv, EntriesInv
    <2>3. ASSUME NEW f \in entries'
          PROVE  f.symbol \in Kept(binary) /\ f.size \in Addresses /\ f.evidence # "Heuristic"
      <3>1. PICK e \in entries : /\ f.symbol = e.symbol
                                 /\ f = e \/ f.size = Table!DebugSize(binary.debug, e.symbol)
                                 /\ f = e \/ f.evidence = "DebugInfo"
        BY <2>1, DebugFacts
      <3>2. Table!DebugSize(binary.debug, e.symbol) \in Addresses
        BY DebugSizeFits DEF TableInv, IsBinary
      <3>3. QED
        BY <2>1, <3>1, <3>2 DEF TableInv, EntriesInv
    <2>4. EntriesInv'
      BY <1>1, <2>1, <2>2, <2>3 DEF EntriesInv
    <2>5. RowsInv'
      BY <2>1 DEF TableInv, RowsInv
    <2>6. QED
      BY <1>1, <2>1, <2>4, <2>5, StageKeeps DEF Stages
  <1>4. CASE Table!GuessSizes
    <2>1. /\ stage' = "aliases" /\ stage = "heuristic" /\ table' = table
          /\ entries' = Table!HeuristicSizes(binary, entries)
      BY <1>4 DEF Table!GuessSizes
    <2>2. /\ {e.symbol : e \in entries'} = Kept(binary)
          /\ {e.symbol : e \in entries} = Kept(binary)
      BY <2>1, HeuristicFacts DEF Sticks, TableInv, EntriesInv
    <2>3. ASSUME NEW f \in entries'
          PROVE  /\ f.symbol \in Kept(binary) /\ f.size \in Addresses
                 /\ f.evidence = "Heuristic" => Fits(binary, f)
      <3>1. CASE f \in entries
        BY <2>1, <3>1 DEF TableInv, EntriesInv
      <3>2. CASE f \notin entries
        <4>1. PICK e \in entries :
                /\ Table!Guessable(binary, e.symbol)
                /\ Table!GuessedEnd(binary, entries, e.symbol) > e.symbol.address
                /\ f.symbol = e.symbol
                /\ f.size = Table!GuessedEnd(binary, entries, e.symbol) - e.symbol.address
          BY <2>1, <3>2, HeuristicFacts
        <4> DEFINE end == Table!GuessedEnd(binary, entries, e.symbol)
        <4>2. /\ e.symbol \in Kept(binary)
              /\ e.symbol.address \in Nat
              /\ \A s \in Kept(binary) : s.address \in Nat
          BY AddressFacts DEF TableInv, EntriesInv, IsBinary, IsSized
        <4>3. /\ end \in Addresses
              /\ end <= Table!EndOf(binary.sections[e.symbol.section].vm)
              /\ \A s \in Kept(binary) : s.section = e.symbol.section /\ s.address > e.symbol.address
                                           => end <= s.address
              /\ binary.sections[e.symbol.section].vm \in Ranges
              /\ e.symbol.section \in DOMAIN binary.sections
              /\ binary.sections[e.symbol.section].kind # "Literals"
          BY <2>2, <4>1, <4>2, GuessFits DEF TableInv
        <4>4. end \in Nat /\ end <= MaxAddress
          BY <4>3, AddressFacts
        <4> HIDE DEF end
        <4>5. f.size = end - e.symbol.address /\ end > e.symbol.address
          BY <4>1 DEF end
        <4>6. f.size \in Addresses /\ f.symbol.address + f.size = end
          BY <4>1, <4>2, <4>4, <4>5, InputAssumption DEF Addresses
        <4>7. \A s \in Kept(binary) :
                s.section = f.symbol.section => ~(f.symbol.address < s.address /\ s.address < end)
          BY <4>1, <4>2, <4>3, <4>4
        <4>8. Fits(binary, f)
          BY <4>1, <4>3, <4>6, <4>7 DEF Fits
        <4>9. QED
          BY <4>1, <4>2, <4>6, <4>8
      <3>3. QED
        BY <3>1, <3>2
    <2>4. EntriesInv'
      BY <1>1, <2>1, <2>2, <2>3 DEF EntriesInv
    <2>5. RowsInv'
      BY <2>1 DEF TableInv, RowsInv
    <2>6. QED
      BY <1>1, <2>1, <2>4, <2>5, StageKeeps DEF Stages
  <1>5. CASE Table!RelateSymbols
    <2>1. /\ stage' = "done" /\ stage = "aliases" /\ entries' = entries
          /\ table' = {Table!Row(entries, e) : e \in entries}
      BY <1>5 DEF Table!RelateSymbols
    <2>2. \A e : /\ Table!Row(entries, e).symbol = e.symbol
                 /\ Table!Row(entries, e).size = e.size
                 /\ Table!Row(entries, e).evidence = e.evidence
      BY DEF Table!Row
    <2>3. RowsInv'
      BY <2>1, <2>2 DEF RowsInv
    <2>4. EntriesInv'
      BY <1>1, <2>1 DEF TableInv, EntriesInv
    <2>5. QED
      BY <1>1, <2>1, <2>3, <2>4, StageKeeps DEF Stages
  <1>6. QED
    BY <1>1, <1>2, <1>3, <1>4, <1>5 DEF BuildTable, Table!Next, Table!Built

LEMMA HandOverKeeps ==
    ASSUME TableInv, HandOver, Start
    PROVE  TableInv' /\ IsInput(input)' /\ Start'
  <1>1. /\ stage = "done" /\ stage' = "summarized" /\ input' = Given(input, table)
        /\ binary' = binary /\ entries' = entries /\ table' = table /\ space' = space
    BY DEF HandOver
  <1>2. PICK image \in Images : MadeFrom(image)
    BY DEF TableInv
  <1>3. input = Given(image, {}) /\ IsInput(input)
    BY <1>1, <1>2 DEF MadeFrom
  <1>4. /\ input.sections = image.sections /\ input.segments = image.segments
        /\ input.headersSize = image.headersSize /\ input.fileSize = image.fileSize
    BY <1>3 DEF Given
  <1>5. Given(input, table) = Given(image, table)
    BY <1>4 DEF Given
  <1>6. MadeFrom(image)'
    BY <1>1, <1>2, <1>5 DEF MadeFrom
  <1>7. TableInv'
    BY <1>1, <1>6 DEF TableInv, EntriesInv, RowsInv, Stages
  <1>8. /\ input'.sections = input.sections /\ input'.segments = input.segments
        /\ input'.headersSize = input.headersSize /\ input'.fileSize = input.fileSize
    BY <1>1 DEF Given
  <1>9. ASSUME NEW symbol \in input'.symbols
        PROVE  symbol.address \in Addresses /\ symbol.size \in Addresses
    <2>1. PICK row \in table : symbol.address = row.symbol.address /\ symbol.size = row.size
      BY <1>1 DEF Given
    <2>2. PICK e \in entries : row.symbol = e.symbol /\ row.size = e.size
      BY DEF TableInv, RowsInv
    <2>3. e.symbol \in Kept(binary) /\ e.size \in Addresses
      BY DEF TableInv, EntriesInv
    <2>4. QED
      BY <2>1, <2>2, <2>3 DEF TableInv, IsBinary, IsSized
  <1>10. IsInput(input')
    BY <1>3, <1>8, <1>9 DEF IsInput
  <1>11. UniverseRanges' = UniverseRanges
    <2>1. Segments' = Segments /\ SectionIndices' = SectionIndices
      BY <1>1, <1>8 DEF Segments, Reserved, SectionIndices, Section
    <2>2. QED
      BY <1>1, <1>8, <2>1 DEF UniverseRanges, Section
  <1>12. Start'
    BY <1>11 DEF HandOver, Start, NoSpan, NoGroup
  <1>13. QED
    BY <1>7, <1>10, <1>12

LEMMA AttributeKeeps ==
    ASSUME TableInv, Attribute \/ UNCHANGED <<vars, tableVars>>
    PROVE  TableInv'
  <1>1. input' = input /\ binary' = binary /\ stage' = stage /\ entries' = entries /\ table' = table
    BY NextFixes DEF Attribute, vars, tableVars
  <1>2. QED
    BY <1>1 DEF TableInv, MadeFrom, EntriesInv, RowsInv

-----------------------------------------------------------------------------
(* The attribution waits until it is handed the table.                     *)
SummaryInv ==
    /\ TableInv
    /\ stage # "summarized" => Start
    /\ (IsInput(input) /\ Start) \/ AttributionInv

LEMMA StartStays ==
    ASSUME Start, UNCHANGED vars
    PROVE  Start'
  <1>1. UniverseRanges' = UniverseRanges
    BY DEF vars, UniverseRanges, Segments, Reserved, SectionIndices, Section
  <1>2. QED
    BY <1>1 DEF vars, Start, NoSpan, NoGroup

LEMMA WaitingIsInput ==
    ASSUME TableInv, stage # "summarized"
    PROVE  IsInput(input)
  BY DEF TableInv, MadeFrom

LEMMA SummaryInvStarts == ASSUME SummaryInit PROVE SummaryInv
  <1>1. TableInv
    BY TableInvStarts
  <1>2. stage = "raw" /\ Start
    BY DEF SummaryInit, Table!Begin
  <1>3. QED
    BY <1>1, <1>2, WaitingIsInput DEF SummaryInv

LEMMA SummaryInvKept ==
    ASSUME SummaryInv, [SummaryNext]_<<vars, tableVars>>
    PROVE  SummaryInv'
  <1>1. CASE BuildTable
    <2>1. stage # "summarized" /\ UNCHANGED vars
      BY <1>1 DEF BuildTable, Table!Next, Table!TakeSymbols, Table!SizeFromDebugInfo,
                  Table!GuessSizes, Table!RelateSymbols, Table!Built
    <2>2. Start' /\ IsInput(input)'
      BY <2>1, StartStays, WaitingIsInput DEF SummaryInv, vars
    <2>3. QED
      BY <1>1, <2>2, BuildTableKeeps DEF SummaryInv
  <1>2. CASE HandOver
    <2>1. stage # "summarized"
      BY <1>2 DEF HandOver
    <2>2. QED
      BY <1>2, <2>1, HandOverKeeps DEF SummaryInv
  <1>3. CASE Attribute
    <2>1. AttributionInv /\ stage' = "summarized"
      BY <1>3, AttributionStarts DEF SummaryInv, Attribute, tableVars
    <2>2. AttributionInv'
      BY <1>3, <2>1, AttributionKept DEF Attribute
    <2>3. QED
      BY <1>3, <2>1, <2>2, AttributeKeeps DEF SummaryInv
  <1>4. CASE UNCHANGED <<vars, tableVars>>
    <2>1. TableInv' /\ stage' = stage
      BY <1>4, AttributeKeeps DEF SummaryInv, tableVars
    <2>2. Start => Start'
      BY <1>4, StartStays
    <2>3. AttributionInv => AttributionInv'
      BY <1>4, AttributionKept
    <2>4. IsInput(input) => IsInput(input)'
      BY <1>4 DEF vars
    <2>5. QED
      BY <2>1, <2>2, <2>3, <2>4 DEF SummaryInv
  <1>5. QED
    BY <1>1, <1>2, <1>3, <1>4 DEF SummaryNext

LEMMA SummaryInvHolds == SummarySpec => []SummaryInv
  <1>1. SummaryInit => SummaryInv
    BY SummaryInvStarts
  <1>2. SummaryInv /\ [SummaryNext]_<<vars, tableVars>> => SummaryInv'
    BY SummaryInvKept
  <1>3. QED
    BY <1>1, <1>2, PTL DEF SummarySpec

LEMMA SummaryAttributes == SummaryInv => AttributionInv
  BY AttributionStarts DEF SummaryInv

(* Whatever sizes the readers give its symbols, the summary's numbers fit   *)
(* 64 bits (Session::summary hands the table to summary::build).            *)
THEOREM SummaryTypeCorrect == SummarySpec => []TypeOK
  <1>1. SummaryInv => TypeOK
    BY SummaryAttributes, TypesAreOK DEF AttributionInv
  <1>2. QED
    BY <1>1, SummaryInvHolds, PTL

(* Whatever sizes the readers give its symbols, each byte is counted once   *)
(* (total_and_spans in summary.rs).                                         *)
THEOREM SummaryCountsOnce == SummarySpec => []EveryByteOnce
  <1>1. SummaryInv => EveryByteOnce
    BY SummaryAttributes, BytesOnce DEF AttributionInv
  <1>2. QED
    BY <1>1, SummaryInvHolds, PTL

(* The symbols of the table share the bytes of a section, outermost first   *)
(* (total_and_spans in summary.rs).                                         *)
THEOREM TableSymbolsNest == SummarySpec => []OutermostSymbolOwns
  <1>1. SummaryInv => OutermostSymbolOwns
    BY SummaryAttributes, OutermostOwns DEF AttributionInv
  <1>2. QED
    BY <1>1, SummaryInvHolds, PTL

(* Whatever the table holds, a byte of several sections belongs to the      *)
(* first of them (total_and_spans in summary.rs).                           *)
THEOREM SummaryFirstSectionOwns == SummarySpec => []FirstClaimOwns
  <1>1. SummaryInv => FirstClaimOwns
    BY SummaryAttributes, FirstClaims DEF AttributionInv
  <1>2. QED
    BY <1>1, SummaryInvHolds, PTL

(* Overlaps among the symbols of the table are reported, and only those     *)
(* (the diagnostics of total_and_spans).                                    *)
THEOREM TableOverlapsReported == SummarySpec => []OverlapsNamed
  <1>1. SummaryInv => OverlapsNamed
    BY SummaryAttributes, OverlapsAreNamed DEF AttributionInv
  <1>2. QED
    BY <1>1, SummaryInvHolds, PTL

(* The rows that a session's summary shows add up to the bytes of the image *)
(* that its headers describe, whatever the table holds.                     *)
THEOREM SummaryRowsAddUp == SummarySpec => []RowsAddUp
  <1>1. AttributionInv => RowsAddUp
    BY AddsUpWhenDone DEF AttributionInv
  <1>2. QED
    BY <1>1, SummaryAttributes, SummaryInvHolds, PTL

(* From the container's symbols to the table no stage weakens the evidence  *)
(* for a size, and none loses or invents a symbol (symbols::build).         *)
THEOREM EvidenceStands == SummarySpec => SizesStick
  <1>1. ASSUME [SummaryNext]_<<vars, tableVars>>
        PROVE  [stage # "raw" => Sticks(entries, entries')]_<<binary, stage, entries, table>>
    <2>1. ASSUME stage # "raw", BuildTable
          PROVE  Sticks(entries, entries') \/ UNCHANGED <<binary, stage, entries, table>>
      <3>1. Sticks(entries, entries)
        BY DEF Sticks
      <3>2. QED
        BY <2>1, <3>1, DebugFacts, HeuristicFacts
           DEF BuildTable, Table!Next, Table!TakeSymbols, Table!SizeFromDebugInfo,
               Table!GuessSizes, Table!RelateSymbols, Table!Built
    <2>2. CASE HandOver
      BY <2>2 DEF HandOver, Sticks
    <2>3. CASE Attribute \/ UNCHANGED <<vars, tableVars>>
      BY <2>3 DEF Attribute, tableVars
    <2>4. QED
      BY <1>1, <2>1, <2>2, <2>3 DEF SummaryNext
  <1>2. [SummaryNext]_<<vars, tableVars>> =>
          [stage # "raw" =>
             /\ {e.symbol : e \in entries'} = {e.symbol : e \in entries}
             /\ \A e \in entries : e.size > 0 => e \in entries']_<<binary, stage, entries, table>>
    BY <1>1 DEF Sticks
  <1>3. QED
    BY <1>2, PTL DEF SummarySpec, SizesStick, Table!SizesStick, Table!vars

(* A guessed size ends at the end of its section and before the next        *)
(* symbol, and no literal is guessed (stage 4 of symbols::build).           *)
THEOREM GuessesStayPut == SummarySpec => []HeuristicStaysPut
  <1>1. ASSUME SummaryInv PROVE HeuristicStaysPut
    <2>1. ASSUME NEW row \in table, row.evidence = "Heuristic"
          PROVE  LET section == binary.sections[row.symbol.section]
                     end     == row.symbol.address + row.size
                 IN  /\ row.symbol.section \in DOMAIN binary.sections
                     /\ section.kind # "Literals"
                     /\ end <= Table!EndOf(section.vm)
                     /\ \A s \in Table!RawSymbols(binary) :
                           (s.section = row.symbol.section /\ s.kind # "Section" /\ s.name # 0)
                               => ~(row.symbol.address < s.address /\ s.address < end)
      <3>1. PICK e \in entries : /\ row.symbol = e.symbol /\ row.size = e.size
                                 /\ row.evidence = e.evidence
        BY <1>1 DEF SummaryInv, TableInv, RowsInv
      <3>2. Fits(binary, e)
        BY <1>1, <2>1, <3>1 DEF SummaryInv, TableInv, EntriesInv
      <3>3. QED
        BY <3>1, <3>2 DEF Fits, Kept
    <2>2. QED
      BY <2>1 DEF HeuristicStaysPut, Table!HeuristicStaysPut
  <1>2. QED
    BY <1>1, SummaryInvHolds, PTL

-----------------------------------------------------------------------------
(* A group of the summary is a place that rows of the table name.          *)
LEMMA GroupRows ==
    ASSUME SummaryInv, stage = "summarized", NamedApart, NEW group \in Groups(input)
    PROVE  /\ MembersOf(input, group) # {}
           /\ \A symbol \in MembersOf(input, group) :
                 \E row \in table :
                    /\ row.symbol.section = group.section /\ row.symbol.address = group.address
                    /\ row.size = group.size /\ row.evidence = symbol.evidence
  <1>1. MembersOf(input, group) # {}
    BY DEF Groups, MembersOf
  <1>2. PICK image \in Images : IsInput(Given(image, {})) /\ input = Given(image, table)
    BY DEF SummaryInv, TableInv, MadeFrom
  <1>3. IsInput(input)
    BY SummaryAttributes DEF AttributionInv, TypeInv, VarTypes
  <1>4. ASSUME NEW symbol \in MembersOf(input, group)
        PROVE  \E row \in table :
                  /\ row.symbol.section = group.section /\ row.symbol.address = group.address
                  /\ row.size = group.size /\ row.evidence = symbol.evidence
    <2>1. symbol \in Owners(input) /\ symbol \in input.symbols /\ group = GroupKey(input, symbol)
      BY DEF MembersOf, Owners
    <2>2. input.sections = image.sections
      BY <1>2 DEF Given
    <2>3. PICK row \in table : /\ row.symbol.section \in DOMAIN image.sections
                               /\ symbol.section = image.sections[row.symbol.section].label
                               /\ symbol.address = row.symbol.address
                               /\ symbol.size = row.size /\ symbol.evidence = row.evidence
      <3>1. input.symbols =
               {[name |-> row.symbol.name, section |-> image.sections[row.symbol.section].label,
                 address |-> row.symbol.address, size |-> row.size, kind |-> row.symbol.kind,
                 evidence |-> row.evidence] :
                   row \in {r \in table : r.symbol.section \in DOMAIN image.sections}}
        BY <1>2 DEF Given
      <3>2. PICK row \in table :
               /\ row.symbol.section \in DOMAIN image.sections
               /\ symbol = [name |-> row.symbol.name, section |-> image.sections[row.symbol.section].label,
                            address |-> row.symbol.address, size |-> row.size, kind |-> row.symbol.kind,
                            evidence |-> row.evidence]
        BY <2>1, <3>1, Zenon
      <3>3. QED
        BY <3>2
    <2>4. /\ group.section = SectionOf(input, symbol)
          /\ group.address = symbol.address /\ group.size = symbol.size
      BY <2>1 DEF GroupKey
    <2>5. /\ group.section \in DOMAIN input.sections
          /\ input.sections[group.section].label = symbol.section
      BY <1>3, <2>1, <2>4, OwnerSection DEF SectionsOf
    <2>6. group.section = row.symbol.section
      BY <2>2, <2>3, <2>5 DEF NamedApart, SectionLabel, Section
    <2>7. QED
      BY <2>3, <2>4, <2>6
  <1>5. QED
    BY <1>1, <1>4

LEMMA GuessKeepsOff ==
    ASSUME SummaryInv, stage = "summarized", NamedApart,
           NEW g \in Groups(input), Guessed(g), NEW h \in Groups(input), g.section = h.section
    PROVE  ~(g.address < h.address /\ h.address < g.address + g.size)
  <1>1. PICK symbol \in MembersOf(input, g) : symbol.evidence = "Heuristic"
    BY GroupRows DEF Guessed
  <1>2. PICK guess \in table : /\ guess.symbol.section = g.section /\ guess.symbol.address = g.address
                               /\ guess.size = g.size /\ guess.evidence = "Heuristic"
    BY <1>1, GroupRows
  <1>3. PICK row \in table : row.symbol.section = h.section /\ row.symbol.address = h.address
    BY GroupRows
  <1>4. PICK e \in entries : e.symbol = guess.symbol /\ e.size = g.size /\ e.evidence = "Heuristic"
    BY <1>2 DEF SummaryInv, TableInv, RowsInv
  <1>5. PICK d \in entries : d.symbol = row.symbol
    BY DEF SummaryInv, TableInv, RowsInv
  <1>6. Fits(binary, e) /\ d.symbol \in Kept(binary)
    BY <1>4 DEF SummaryInv, TableInv, EntriesInv
  <1>7. QED
    BY <1>2, <1>3, <1>4, <1>5, <1>6 DEF Fits

\* Where the groups of a section are in its bytes.
LEMMA GroupInPiece ==
    ASSUME TypeInv, NEW piece \in owned, NEW group \in Groups(input), group.section = piece.section
    PROVE  /\ GroupFrom(group, piece) \in Nat /\ group.address \in Nat /\ group.size \in Nat
           /\ group.size > 0
           /\ GroupFrom(group, group) = GroupFrom(group, piece)
           /\ Section(piece.section).extent["vm"] # NoRange
           /\ Member(group, piece).from = Larger(GroupFrom(group, piece), piece.from)
           /\ Member(group, piece).to
                = Smaller(Saturate(GroupFrom(group, piece) + group.size), piece.to)
           /\ Member(group, piece).group = group
           /\ \A other \in Groups(input) :
                 other.section = piece.section =>
                   /\ GroupFrom(other, piece) < GroupFrom(group, piece) <=> other.address < group.address
                   /\ other.address < group.address + group.size
                        <=> GroupFrom(other, piece) < GroupFrom(group, piece) + group.size
  <1>1. IsInput(input) /\ space \in Spaces /\ piece.section \in SectionIndices
    BY InputFacts DEF TypeInv, VarTypes
  <1>2. PICK symbol \in Owners(input) : group = GroupKey(input, symbol)
    BY DEF Groups
  <1>3. /\ Section(piece.section).extent["vm"] # NoRange
        /\ group.size > 0
    BY <1>1, <1>2, OwnerSection DEF SectionsOf, GroupKey, Owners, Section
  <1>4. GroupFrom(group, piece) \in Nat /\ group.address \in Nat /\ group.size \in Nat
    BY <1>1, PlaceFacts
  <1>5. ASSUME NEW other \in Groups(input), other.section = piece.section
        PROVE  /\ GroupFrom(other, piece) < GroupFrom(group, piece) <=> other.address < group.address
               /\ other.address < group.address + group.size
                    <=> GroupFrom(other, piece) < GroupFrom(group, piece) + group.size
    <2> DEFINE here == Section(piece.section).extent[space].start
               vm   == Section(piece.section).extent["vm"].start
    <2>1. /\ GroupFrom(group, piece) = here + (group.address - vm)
          /\ GroupFrom(other, piece) = here + (other.address - vm)
          /\ here \in Nat /\ vm \in Nat /\ group.address \in Nat /\ other.address \in Nat
          /\ group.size \in Nat
      BY <1>1, <1>5, PlaceFacts
    <2> HIDE DEF here, vm
    <2>2. QED
      BY <2>1
  <1>6. QED
    BY <1>3, <1>4, <1>5 DEF Member, GroupFrom

\* No symbol is overlapped by a guessed one.
LEMMA GuessOverlapsNone ==
    ASSUME SummaryInv, stage = "summarized", NamedApart,
           NEW d \in diagnostics, d.code = "SymbolOverlap"
    PROVE  ~Guessed(d.with)
  <1>0. TypeInv /\ OverlapInv
    BY SummaryAttributes DEF AttributionInv, SweepInv
  <1>1. PICK piece \in owned :
          \E last, member \in Members(piece) :
             /\ d.of = member.group /\ d.with = last.group
             /\ last.from < member.from /\ member.from < last.to /\ last.to < member.to
    BY <1>0 DEF OverlapInv
  <1>2. PICK last \in Members(piece), member \in Members(piece) :
          /\ d.of = member.group /\ d.with = last.group
          /\ last.from < member.from /\ member.from < last.to /\ last.to < member.to
    BY <1>1
  <1>3. space = "vm"
    BY <1>0 DEF OverlapInv
  <1> DEFINE g == last.group
             h == member.group
  <1>4. /\ g \in Groups(input) /\ g.section = piece.section /\ last = Member(g, piece)
        /\ h \in Groups(input) /\ h.section = piece.section /\ member = Member(h, piece)
    BY DEF Members, Member
  <1>5. /\ piece.from \in Nat /\ piece.to \in Nat
    BY <1>0, AddressFacts DEF TypeInv, VarTypes
  <1> DEFINE G == GroupFrom(g, piece)
             H == GroupFrom(h, piece)
  <1>6. /\ G \in Nat /\ H \in Nat /\ g.size \in Nat /\ g.address \in Nat /\ h.address \in Nat
        /\ last.from = Larger(G, piece.from) /\ last.to = Smaller(Saturate(G + g.size), piece.to)
        /\ member.from = Larger(H, piece.from)
        /\ G < H <=> g.address < h.address
    BY <1>0, <1>4, GroupInPiece
  <1>7. /\ G = Section(piece.section).extent["vm"].start + (g.address - Section(piece.section).extent["vm"].start)
        /\ H = Section(piece.section).extent["vm"].start + (h.address - Section(piece.section).extent["vm"].start)
        /\ Section(piece.section).extent["vm"].start \in Nat
    BY <1>0, <1>3, <1>4, PlaceFacts, InputFacts DEF TypeInv, VarTypes
  <1>8. G = g.address /\ H = h.address
    <2> DEFINE vm == Section(piece.section).extent["vm"].start
    <2>1. G = vm + (g.address - vm) /\ H = vm + (h.address - vm) /\ vm \in Nat
      BY <1>7
    <2> HIDE DEF vm, G, H, g, h
    <2>2. QED
      BY <1>6, <2>1
  <1> HIDE DEF G, H
  <1>9. last.to <= G + g.size /\ last.to \in Nat
    <2>1. G + g.size \in Nat
      BY <1>6
    <2>2. Saturate(G + g.size) <= G + g.size /\ Saturate(G + g.size) \in Nat
      BY <2>1, SaturateFacts, AddressFacts
    <2>3. QED
      BY <1>5, <1>6, <2>1, <2>2, SmallerFacts
  <1>10. G < H /\ H < G + g.size
    <2>1. /\ Larger(G, piece.from) >= piece.from /\ Larger(G, piece.from) >= G
          /\ Larger(H, piece.from) = H \/ Larger(H, piece.from) = piece.from
          /\ Larger(G, piece.from) \in Nat /\ Larger(H, piece.from) \in Nat
      BY <1>5, <1>6, LargerFacts
    <2>2. Larger(G, piece.from) < Larger(H, piece.from) /\ Larger(H, piece.from) < last.to
      BY <1>2, <1>6
    <2>3. g.size \in Nat
      BY <1>6
    <2>4. QED
      BY <1>5, <1>6, <1>9, <2>1, <2>2, <2>3
  <1>11. ~Guessed(g)
    <2>1. g.section = h.section
      BY <1>4
    <2> HIDE DEF g, h
    <2>2. QED
      BY <1>4, <1>8, <1>10, <2>1, GuessKeepsOff
  <1>12. QED
    BY <1>2, <1>11

\* No bytes of a symbol with evidence belong to a guessed one, except in the places
\* that GuessesCutNoOne leaves out.
LEMMA GuessTakesNothing ==
    ASSUME SummaryInv, stage = "summarized", NamedApart, phase \in {"gaps", "done"},
           NEW span \in spans, span.owner.what = "symbol", Guessed(span.owner.of),
           NEW h \in Groups(input), NEW piece \in owned,
           h.section = span.owner.of.section, piece.section = h.section,
           piece.from <= GroupFrom(h, h), GroupFrom(h, h) < span.to,
           span.from < GroupFrom(h, h) + h.size
    PROVE  h.address = span.owner.of.address
  <1> DEFINE g == span.owner.of
             G == GroupFrom(g, piece)
             H == GroupFrom(h, piece)
  <1>0. TypeInv /\ ClaimInv /\ SweepInv /\ NamedInv
    BY SummaryAttributes DEF AttributionInv
  <1>1. Visited = owned
    BY DEF Visited
  <1>2. piece.from <= span.from /\ span.to <= piece.to
    <2>1. PICK p \in Visited : /\ p.section = span.owner.of.section
                               /\ p.from <= span.from /\ span.to <= p.to
      BY <1>0 DEF NamedInv, Placed
    <2>2. p = piece
      BY <1>0, <1>1, <2>1, OnePiece
    <2>3. QED
      BY <2>1, <2>2
  <1>3. /\ span.from \in Nat /\ span.to \in Nat /\ span.from < span.to
        /\ piece.from \in Nat /\ piece.to \in Nat /\ piece.to <= MaxAddress /\ MaxAddress \in Nat
    BY <1>0, AddressFacts, InputAssumption DEF TypeInv, VarTypes, SpanTypes
  <1>4. /\ H \in Nat /\ h.size \in Nat /\ h.size > 0 /\ h.address \in Nat
        /\ GroupFrom(h, h) = H /\ Section(piece.section).extent["vm"] # NoRange
        /\ Member(h, piece).from = Larger(H, piece.from)
        /\ Member(h, piece).to = Smaller(Saturate(H + h.size), piece.to)
    BY <1>0, GroupInPiece
  <1> HIDE DEF H
  <1>5. piece.from <= H /\ H < span.to /\ span.from < H + h.size
    BY <1>4
  <1>6. Member(h, piece).from = H
    BY <1>3, <1>4, <1>5 DEF Larger
  <1>7. span.from < Member(h, piece).to /\ H < Member(h, piece).to
    <2>1. H + h.size \in Nat
      BY <1>4
    <2>2. /\ Saturate(H + h.size) \in Nat
          /\ Saturate(H + h.size) = H + h.size \/ Saturate(H + h.size) = MaxAddress
      <3>1. H + h.size <= MaxAddress \/ H + h.size > MaxAddress
        BY <1>3, <2>1
      <3>2. QED
        BY <2>1, <3>1, SaturateFacts, AddressFacts
    <2>3. Smaller(Saturate(H + h.size), piece.to) \in {Saturate(H + h.size), piece.to}
      BY DEF Smaller
    <2>4. span.from < piece.to /\ H < piece.to /\ span.from < MaxAddress /\ H < MaxAddress
      BY <1>2, <1>3, <1>4, <1>5
    <2>5. H < H + h.size
      BY <1>4
    <2>6. QED
      BY <1>4, <1>5, <2>2, <2>3, <2>4, <2>5
  <1>8. Member(h, piece) \in Members(piece)
    <2>1. GroupFrom(h, piece) <= MaxAddress
      BY <1>2, <1>3, <1>4, <1>5 DEF H
    <2>2. Member(h, piece).from < Member(h, piece).to
      BY <1>6, <1>7
    <2>3. QED
      BY <2>1, <2>2 DEF Members
  <1>9. /\ Member(g, piece).from <= span.from /\ span.to <= Member(g, piece).to
        /\ Ahead(Member(g, piece), Member(h, piece))
    <2>1. RightOwner(span, piece)
      BY <1>0, <1>1, <1>2, <1>4 DEF SweepInv, SpansRight, Within
    <2>2. Member(h, piece).from < span.to /\ span.from < Member(h, piece).to
      BY <1>5, <1>6, <1>7
    <2>3. QED
      BY <1>8, <2>1, <2>2 DEF RightOwner
  <1>10. g \in Groups(input) /\ g.section = piece.section
    BY <1>0 DEF NamedInv, Placed
  <1>11. /\ G \in Nat /\ g.size \in Nat /\ g.address \in Nat
         /\ Member(g, piece).from = Larger(G, piece.from)
         /\ Member(g, piece).to = Smaller(Saturate(G + g.size), piece.to)
         /\ G < H <=> g.address < h.address
         /\ H < G <=> h.address < g.address
         /\ H < G + g.size <=> h.address < g.address + g.size
    BY <1>0, <1>10, GroupInPiece DEF H
  <1> HIDE DEF g, G
  <1>12. ~(h.address < g.address)
    <2>1. Larger(G, piece.from) >= G /\ Larger(G, piece.from) \in Nat
      BY <1>3, <1>11, LargerFacts DEF Larger
    <2>2. Larger(G, piece.from) <= H
      BY <1>4, <1>6, <1>9, <1>11, <2>1 DEF Ahead
    <2>3. QED
      BY <1>4, <1>11, <2>1, <2>2
  <1>13. ~(g.address < h.address)
    <2>1. ~(g.address < h.address /\ h.address < g.address + g.size)
      BY <1>10, GuessKeepsOff DEF g
    <2>2. G + g.size \in Nat /\ Saturate(G + g.size) <= G + g.size /\ Saturate(G + g.size) \in Nat
      <3>1. G + g.size \in Nat
        BY <1>11
      <3>2. QED
        BY <3>1, SaturateFacts, AddressFacts
    <2>3. span.to <= G + g.size
      BY <1>3, <1>9, <1>11, <2>2, SmallerFacts DEF Smaller
    <2>4. H < G + g.size
      BY <1>3, <1>4, <1>5, <2>2, <2>3
    <2>5. QED
      BY <1>4, <1>11, <2>1, <2>4
  <1>14. QED
    BY <1>4, <1>11, <1>12, <1>13 DEF g

(* A guess cuts no symbol short that starts elsewhere, whatever the         *)
(* sections, sizes and address space: the distance to the next symbol in    *)
(* stage 4 of symbols::build and the cursor of total_and_spans agree.       *)
THEOREM GuessesCutNothing == SummarySpec => []GuessesCutNoOne
  <1>1. ASSUME SummaryInv PROVE GuessesCutNoOne
    <2>1. ASSUME phase \in {"gaps", "done"} PROVE stage = "summarized"
      BY <1>1, <2>1 DEF SummaryInv, Start
    <2>2. QED
      BY <1>1, <2>1, GuessOverlapsNone, GuessTakesNothing DEF GuessesCutNoOne
  <1>2. QED
    BY <1>1, SummaryInvHolds, PTL
=============================================================================
