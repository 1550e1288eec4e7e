-------------------------- MODULE ByteAttribution --------------------------
(***************************************************************************)
(* The summary lens: every byte of an image attributed exactly once, in    *)
(* one address space (total_and_spans in summary.rs; `build' runs it for   *)
(* each of the three spaces, and the runs share nothing but accumulators   *)
(* with one component per space).                                          *)
(*                                                                         *)
(* The code sorts a list and walks it with a cursor four times: to merge   *)
(* the universe, to give section bytes to sections, to give the bytes of   *)
(* each section to symbols, and to name what is left.  Each loop is a      *)
(* phase here, and takes the least element of a set under the order that   *)
(* the code sorts by, so the state between two iterations is a state.      *)
(***************************************************************************)
EXTENDS Integers, Sequences, FiniteSets, FiniteSetsExt

CONSTANTS MaxAddress, \* u64::MAX
          Inputs,     \* images with their sized symbols
          NoRange,    \* an extent's None
          NoName      \* a segment without a name

Spaces == {"vm", "file", "load"}

Smaller(m, n) == IF m <= n THEN m ELSE n
Larger(m, n)  == IF m >= n THEN m ELSE n

-----------------------------------------------------------------------------
(* Extents.                                                                *)
Addresses == 0..MaxAddress
Ranges    == [start : Addresses, size : Addresses]
Extents   == [Spaces -> Ranges \cup {NoRange}]

Saturate(n) == Smaller(n, MaxAddress)
End(range)  == Saturate(range.start + range.size)

Contains(range, address) == range.start <= address /\ address < End(range)

\* extent_in: empty extents count as absent.
Occupies(thing, space) ==
    thing.extent[space] # NoRange /\ thing.extent[space].size > 0

\* bounds of extent_in: a half-open span of addresses.
Bounds(thing, space) ==
    [from |-> thing.extent[space].start, to |-> End(thing.extent[space])]

IsTlsTemplate(section) == section.kind = "Tls" /\ section.extent["file"] = NoRange

-----------------------------------------------------------------------------
(* What headers may say: any number that fits 64 bits, in any combination. *)
IsInput(image) ==
    /\ DOMAIN image.sections \subseteq Nat \ {0}
    /\ DOMAIN image.segments \subseteq Nat \ {0}
    /\ \A i \in DOMAIN image.sections : image.sections[i].extent \in Extents
    /\ \A k \in DOMAIN image.segments : image.segments[k].extent \in Extents
    /\ image.headersSize \in Addresses /\ image.fileSize \in Addresses
    /\ \A symbol \in image.symbols :
          symbol.address \in Addresses /\ symbol.size \in Addresses

ASSUME InputAssumption == MaxAddress \in Nat /\ \A image \in Inputs : IsInput(image)

-----------------------------------------------------------------------------
(* Alias groups: sized symbols with an identical interval in one section,  *)
(* the first one of that name whose mapped range holds the address.        *)
SectionsOf(input, symbol) ==
    {i \in DOMAIN input.sections :
        /\ input.sections[i].label = symbol.section
        /\ input.sections[i].extent["vm"] # NoRange
        /\ Contains(input.sections[i].extent["vm"], symbol.address)}

SectionOf(input, symbol) ==
    CHOOSE i \in SectionsOf(input, symbol) : \A j \in SectionsOf(input, symbol) : i <= j

GroupKey(input, symbol) ==
    [section |-> SectionOf(input, symbol), address |-> symbol.address, size |-> symbol.size]

Owners(input) ==
    {symbol \in input.symbols :
        symbol.size > 0 /\ symbol.kind # "Tls" /\ SectionsOf(input, symbol) # {}}

Groups(input) == {GroupKey(input, symbol) : symbol \in Owners(input)}

MembersOf(input, group) == {symbol \in Owners(input) : GroupKey(input, symbol) = group}

-----------------------------------------------------------------------------
VARIABLES
    input,       \* the image and its symbols
    space,       \* the address space being attributed
    phase,       \* the loop that runs: merge, claim, symbols, gaps; or done
    todo,        \* outer loop: spans not yet entered
    pending,     \* inner loop: what has not been taken yet
    universe,    \* the merged extents
    owned,       \* the spans the sections own
    claimedEnd,  \* how far the sections' claims reach
    claimedBy,   \* the section whose claim reaches there (0: none)
    current,     \* the span of the outer loop (NoSpan: none entered)
    cursor,      \* how far the current span has been attributed
    lastOwner,   \* the group that moved the cursor there
    spans,       \* bytes attributed: from, to and the owner
    diagnostics

vars == <<input, space, phase, todo, pending, universe, owned, claimedEnd,
          claimedBy, current, cursor, lastOwner, spans, diagnostics>>

NoSpan  == [from |-> 0, to |-> 0, section |-> 0]
NoGroup == [section |-> 0, address |-> 0, size |-> 0]

Section(i) == input.sections[i]

\* Owners of bytes: a group of symbols, a section without one, or a named gap.
SymbolOwner(group)  == [what |-> "symbol", of |-> group]
NoSymbolOwner(i)    == [what |-> "noSymbol", of |-> [NoGroup EXCEPT !.section = i]]
SegmentOwner(k)     == [what |-> "segment", of |-> [NoGroup EXCEPT !.section = k]]
GapOwner(label)     == [what |-> label, of |-> NoGroup]

SectionOverlap(i, other) ==
    [code |-> "SectionOverlap", of |-> [NoGroup EXCEPT !.section = i],
     with |-> [NoGroup EXCEPT !.section = other]]
SymbolOverlap(group, other) == [code |-> "SymbolOverlap", of |-> group, with |-> other]

Span(from, to, owner) == [from |-> from, to |-> to, owner |-> owner]

\* The span, or nothing when it is empty.
NonEmpty(from, to, owner) == IF from < to THEN {Span(from, to, owner)} ELSE {}

-----------------------------------------------------------------------------
(* The universe: the whole input in file space, else the mapped segments   *)
(* and all sections.  A mapping with no access occupies no memory.         *)
Reserved(segment) == space = "vm" /\ ~segment.accessible

Segments == {k \in DOMAIN input.segments :
                ~Reserved(input.segments[k]) /\ Occupies(input.segments[k], space)}

SectionIndices == {i \in DOMAIN input.sections : Occupies(Section(i), space)}

UniverseRanges ==
    {range \in {Bounds(input.segments[k], space) : k \in Segments}
               \cup {Bounds(Section(i), space) : i \in SectionIndices}
               \cup (IF space = "file" THEN {[from |-> 0, to |-> input.fileSize]} ELSE {}) :
        range.from < range.to}

RangeBefore(r, s) == r.from < s.from \/ (r.from = s.from /\ r.to < s.to)

Claim(i) ==
    [from |-> Bounds(Section(i), space).from, to |-> Bounds(Section(i), space).to,
     tls |-> IsTlsTemplate(Section(i)), section |-> i]

Claims == {Claim(i) : i \in SectionIndices}

\* Definitions named Faulty... are plausible slips in the code; Next does not use them.
\* By start, then innermost first.
FaultyClaimBefore(c, d) ==
    \/ c.from < d.from
    \/ c.from = d.from /\ ~c.tls /\ d.tls
    \/ c.from = d.from /\ c.tls = d.tls /\ c.to < d.to
    \/ c.from = d.from /\ c.tls = d.tls /\ c.to = d.to /\ c.section < d.section

\* By start, TLS templates last, outermost first, then in section order.
ClaimBefore(c, d) ==
    \/ c.from < d.from
    \/ c.from = d.from /\ ~c.tls /\ d.tls
    \/ c.from = d.from /\ c.tls = d.tls /\ c.to > d.to
    \/ c.from = d.from /\ c.tls = d.tls /\ c.to = d.to /\ c.section < d.section

\* The groups of a section inside one of its spans, in this space, clamped to it.
GroupFrom(group, piece) ==
    Section(piece.section).extent[space].start
        + (group.address - Section(piece.section).extent["vm"].start)

Member(group, piece) ==
    [from  |-> Larger(GroupFrom(group, piece), piece.from),
     to    |-> Smaller(Saturate(GroupFrom(group, piece) + group.size), piece.to),
     group |-> group]

Members(piece) ==
    {member \in {Member(group, piece) :
                    group \in {g \in Groups(input) :
                                 g.section = piece.section
                                 /\ GroupFrom(g, piece) <= MaxAddress}} :
        member.from < member.to}

\* By start, then innermost first.
FaultyMemberBefore(m, n) ==
    \/ m.from < n.from
    \/ m.from = n.from /\ m.to < n.to
    \/ m.from = n.from /\ m.to = n.to /\ m.group.address < n.group.address
    \/ m.from = n.from /\ m.to = n.to /\ m.group.address = n.group.address
       /\ m.group.size < n.group.size

\* By start, outermost first, then in the order of the groups.
MemberBefore(m, n) ==
    \/ m.from < n.from
    \/ m.from = n.from /\ m.to > n.to
    \/ m.from = n.from /\ m.to = n.to /\ m.group.address < n.group.address
    \/ m.from = n.from /\ m.to = n.to /\ m.group.address = n.group.address
       /\ m.group.size < n.group.size

SpanBefore(x, y) == x.from < y.from

Least(x, S, Before(_, _)) == x \in S /\ \A y \in S \ {x} : Before(x, y)

-----------------------------------------------------------------------------
Start ==
    /\ space \in Spaces
    /\ phase = "merge"
    /\ todo = {}
    /\ pending = UniverseRanges
    /\ universe = {}
    /\ owned = {}
    /\ claimedEnd = 0
    /\ claimedBy = 0
    /\ current = NoSpan
    /\ cursor = 0
    /\ lastOwner = NoGroup
    /\ spans = {}
    /\ diagnostics = {}

Init == input \in Inputs /\ Start

\* An enclosed range shortens the one that encloses it.
FaultyMergeRange(range) ==
    /\ phase = "merge"
    /\ Least(range, pending, RangeBefore)
    /\ pending' = pending \ {range}
    /\ universe' =
         IF \E last \in universe : range.from <= last.to
         THEN {IF range.from <= last.to THEN [last EXCEPT !.to = range.to] ELSE last :
                  last \in universe}
         ELSE universe \cup {range}
    /\ UNCHANGED <<input, space, phase, todo, owned, claimedEnd, claimedBy, current,
                   cursor, lastOwner, spans, diagnostics>>

(* merge: a range that touches the last merged one extends it.             *)
MergeRange(range) ==
    /\ phase = "merge"
    /\ Least(range, pending, RangeBefore)
    /\ pending' = pending \ {range}
    /\ universe' =
         IF \E last \in universe : range.from <= last.to
         THEN {IF range.from <= last.to
               THEN [last EXCEPT !.to = Larger(last.to, range.to)]
               ELSE last : last \in universe}
         ELSE universe \cup {range}
    /\ UNCHANGED <<input, space, phase, todo, owned, claimedEnd, claimedBy, current,
                   cursor, lastOwner, spans, diagnostics>>

UniverseMerged ==
    /\ phase = "merge" /\ pending = {}
    /\ phase' = "claim"
    /\ pending' = Claims
    /\ UNCHANGED <<input, space, todo, universe, owned, claimedEnd, claimedBy, current,
                   cursor, lastOwner, spans, diagnostics>>

\* A section inside an earlier one is reported as well.
FaultyClaimSection(claim) ==
    LET from == Larger(claim.from, claimedEnd)
    IN  /\ phase = "claim"
        /\ Least(claim, pending, ClaimBefore)
        /\ pending' = pending \ {claim}
        /\ diagnostics' =
             IF /\ claim.from < claimedEnd /\ ~claim.tls
                /\ claimedBy # 0 /\ ~IsTlsTemplate(Section(claimedBy))
             THEN diagnostics \cup {SectionOverlap(claim.section, claimedBy)}
             ELSE diagnostics
        /\ IF from < claim.to
           THEN /\ owned' = owned \cup {[from |-> from, to |-> claim.to, section |-> claim.section]}
                /\ claimedEnd' = claim.to
                /\ claimedBy' = claim.section
           ELSE UNCHANGED <<owned, claimedEnd, claimedBy>>
        /\ UNCHANGED <<input, space, phase, todo, universe, current, cursor, lastOwner, spans>>

(* A section owns what is left of its extent after the claims before it.   *)
ClaimSection(claim) ==
    LET from == Larger(claim.from, claimedEnd)
    IN  /\ phase = "claim"
        /\ Least(claim, pending, ClaimBefore)
        /\ pending' = pending \ {claim}
        /\ diagnostics' =
             IF /\ claim.from < claimedEnd /\ claim.to > claimedEnd
                /\ ~claim.tls
                /\ claimedBy # 0 /\ ~IsTlsTemplate(Section(claimedBy))
             THEN diagnostics \cup {SectionOverlap(claim.section, claimedBy)}
             ELSE diagnostics
        /\ IF from < claim.to
           THEN /\ owned' = owned \cup {[from |-> from, to |-> claim.to, section |-> claim.section]}
                /\ claimedEnd' = claim.to
                /\ claimedBy' = claim.section
           ELSE UNCHANGED <<owned, claimedEnd, claimedBy>>
        /\ UNCHANGED <<input, space, phase, todo, universe, current, cursor, lastOwner, spans>>

SectionsClaimed ==
    /\ phase = "claim" /\ pending = {}
    /\ phase' = "symbols"
    /\ todo' = owned
    /\ UNCHANGED <<input, space, pending, universe, owned, claimedEnd, claimedBy, current,
                   cursor, lastOwner, spans, diagnostics>>

(* The next span of a section; without a mapped range it has no symbols.   *)
EnterPiece(piece) ==
    /\ phase = "symbols" /\ current = NoSpan
    /\ Least(piece, todo, SpanBefore)
    /\ todo' = todo \ {piece}
    /\ IF Section(piece.section).extent["vm"] = NoRange
       THEN /\ spans' = spans \cup {Span(piece.from, piece.to, NoSymbolOwner(piece.section))}
            /\ UNCHANGED <<current, pending, cursor, lastOwner>>
       ELSE /\ current' = piece
            /\ pending' = Members(piece)
            /\ cursor' = piece.from
            /\ lastOwner' = NoGroup
            /\ UNCHANGED spans
    /\ UNCHANGED <<input, space, phase, universe, owned, claimedEnd, claimedBy, diagnostics>>

(* A symbol owns what lies past the cursor; bytes before it have no symbol. *)
AttributeSymbol(member) ==
    LET from == Larger(cursor, member.from)
    IN  /\ phase = "symbols"
        /\ Least(member, pending, MemberBefore)
        /\ pending' = pending \ {member}
        /\ spans' = spans
             \cup NonEmpty(cursor, member.from, NoSymbolOwner(current.section))
             \cup NonEmpty(from, member.to, SymbolOwner(member.group))
        /\ diagnostics' =
             IF member.from < cursor /\ member.to > cursor /\ space = "vm"
             THEN diagnostics \cup {SymbolOverlap(member.group, lastOwner)}
             ELSE diagnostics
        /\ cursor' = Larger(from, member.to)
        /\ lastOwner' = IF from < member.to THEN member.group ELSE lastOwner
        /\ UNCHANGED <<input, space, phase, todo, universe, owned, claimedEnd, claimedBy, current>>

LeavePiece ==
    /\ phase = "symbols" /\ current # NoSpan /\ pending = {}
    /\ spans' = spans \cup NonEmpty(cursor, current.to, NoSymbolOwner(current.section))
    /\ current' = NoSpan
    /\ UNCHANGED <<input, space, phase, todo, pending, universe, owned, claimedEnd,
                   claimedBy, cursor, lastOwner, diagnostics>>

SymbolsAttributed ==
    /\ phase = "symbols" /\ current = NoSpan /\ todo = {}
    /\ phase' = "gaps"
    /\ todo' = universe
    /\ UNCHANGED <<input, space, pending, universe, owned, claimedEnd, claimedBy, current,
                   cursor, lastOwner, spans, diagnostics>>

-----------------------------------------------------------------------------
(* What a gap is called.                                                   *)
Lowest == CHOOSE low \in {range.from : range \in universe} :
              \A range \in universe : low <= range.from

LastSectionEnd == IF owned = {} THEN 0
                  ELSE CHOOSE last \in {piece.to : piece \in owned} :
                           \A piece \in owned : piece.to <= last

\* Segments with a name that no section span touches (Mach-O __LINKEDIT).
NamedEmpty ==
    {k \in Segments :
        /\ input.segments[k].name # NoName
        /\ \A piece \in owned : ~(/\ piece.from < Bounds(input.segments[k], space).to
                                  /\ piece.to > Bounds(input.segments[k], space).from)}

\* Segments that map the start of the file at this address of the space.
HeaderSegments(address) ==
    {k \in DOMAIN input.segments :
        /\ input.segments[k].extent["file"] # NoRange
        /\ input.segments[k].extent["file"].start = 0
        /\ Occupies(input.segments[k], space)
        /\ Bounds(input.segments[k], space).from = address}

\* Where the container headers that start this gap end, if they do start it.
HeadersEnd(gapFrom) ==
    IF gapFrom = Lowest /\ space = "file" THEN {input.headersSize}
    ELSE IF gapFrom = Lowest /\ HeaderSegments(gapFrom) # {}
         THEN {Saturate(gapFrom + input.headersSize)}
         ELSE {}

Cuts(gapFrom, gapTo) ==
    {gapFrom, gapTo} \cup
    {cut \in HeadersEnd(gapFrom)
             \cup {Bounds(input.segments[k], space).from : k \in NamedEmpty}
             \cup {Bounds(input.segments[k], space).to : k \in NamedEmpty} :
        gapFrom < cut /\ cut < gapTo}

Inside(from, to, k, where) ==
    Bounds(input.segments[k], where).from <= from /\ to <= Bounds(input.segments[k], where).to

GapName(from, to, gapFrom) ==
    LET named == {k \in NamedEmpty : Inside(from, to, k, space)}
    IN  IF named # {}
        THEN SegmentOwner(CHOOSE k \in named : \A j \in named : k <= j)
        ELSE IF from = gapFrom /\ \E end \in HeadersEnd(gapFrom) : end > from
        THEN GapOwner("[headers]")
        ELSE IF /\ space = "file" /\ from >= LastSectionEnd
                /\ ~\E k \in DOMAIN input.segments :
                       Occupies(input.segments[k], "file") /\ Inside(from, to, k, "file")
        THEN GapOwner("[non-section]")
        ELSE GapOwner("[alignment]")

\* The gap, split at its cuts; nothing when it is empty.
GapSpans(gapFrom, gapTo) ==
    LET cuts == Cuts(gapFrom, gapTo)
    IN  {Span(w[1], w[2], GapName(w[1], w[2], gapFrom)) :
            w \in {v \in cuts \X cuts :
                     /\ gapFrom < gapTo /\ v[1] < v[2]
                     /\ ~\E cut \in cuts : v[1] < cut /\ cut < v[2]}}

EnterRange(range) ==
    /\ phase = "gaps" /\ current = NoSpan
    /\ Least(range, todo, SpanBefore)
    /\ todo' = todo \ {range}
    /\ current' = [from |-> range.from, to |-> range.to, section |-> 0]
    /\ cursor' = range.from
    /\ pending' = {piece \in owned : piece.to > range.from /\ piece.from < range.to}
    /\ UNCHANGED <<input, space, phase, universe, owned, claimedEnd, claimedBy, lastOwner,
                   spans, diagnostics>>

SkipPiece(piece) ==
    /\ phase = "gaps"
    /\ Least(piece, pending, SpanBefore)
    /\ pending' = pending \ {piece}
    /\ spans' = spans \cup GapSpans(cursor, piece.from)
    /\ cursor' = Larger(cursor, piece.to)
    /\ UNCHANGED <<input, space, phase, todo, universe, owned, claimedEnd, claimedBy,
                   current, lastOwner, diagnostics>>

LeaveRange ==
    /\ phase = "gaps" /\ current # NoSpan /\ pending = {}
    /\ spans' = spans \cup GapSpans(cursor, current.to)
    /\ current' = NoSpan
    /\ UNCHANGED <<input, space, phase, todo, pending, universe, owned, claimedEnd,
                   claimedBy, cursor, lastOwner, diagnostics>>

GapsNamed ==
    /\ phase = "gaps" /\ current = NoSpan /\ todo = {}
    /\ phase' = "done"
    /\ UNCHANGED <<input, space, todo, pending, universe, owned, claimedEnd, claimedBy,
                   current, cursor, lastOwner, spans, diagnostics>>

Attributed == phase = "done" /\ UNCHANGED vars

Next ==
    \/ \E range \in pending : MergeRange(range)
    \/ UniverseMerged
    \/ \E claim \in pending : ClaimSection(claim)
    \/ SectionsClaimed
    \/ \E piece \in todo : EnterPiece(piece)
    \/ \E member \in pending : AttributeSymbol(member)
    \/ LeavePiece
    \/ SymbolsAttributed
    \/ \E range \in todo : EnterRange(range)
    \/ \E piece \in pending : SkipPiece(piece)
    \/ LeaveRange
    \/ GapsNamed
    \/ Attributed

Spec == Init /\ [][Next]_vars

-----------------------------------------------------------------------------
(* Rows: what `build' makes of the spans.  A row's path has one component  *)
(* per dimension asked for; a gap's row has its name instead.              *)
Dimensions == {"Section", "Symbol"}

NoSymbolName == 0

SectionLabel(i) == Section(i).label

\* Member names are numbered in the order of the raw names; the first names the group.
GroupName(group) ==
    CHOOSE name \in {symbol.name : symbol \in MembersOf(input, group)} :
        \A symbol \in MembersOf(input, group) : name <= symbol.name

\* Bytes without a symbol are no section's as soon as symbols are asked for.
FaultyRowKey(owner, dimensions) ==
    LET label == [d \in dimensions |-> IF d = "Section" THEN SectionLabel(owner.of.section)
                                                        ELSE NoSymbolName]
    IN  CASE owner.what = "symbol" ->
               [unattributed |-> FALSE,
                path |-> [label EXCEPT !["Symbol"] = GroupName(owner.of)]]
          [] owner.what = "noSymbol" /\ "Symbol" \notin dimensions ->
               [unattributed |-> FALSE, path |-> label]
          [] OTHER ->
               [unattributed |-> TRUE, path |-> [d \in {"Gap"} |-> owner.what]]

RowKey(owner, dimensions) ==
    LET path(symbol) == [d \in dimensions |-> IF d = "Section" THEN SectionLabel(owner.of.section)
                                                               ELSE symbol]
    IN  IF owner.what \in {"symbol", "noSymbol"}
        THEN [unattributed |-> owner.what = "noSymbol" /\ "Symbol" \in dimensions,
              path |-> path(IF owner.what = "symbol" THEN GroupName(owner.of) ELSE NoSymbolName)]
        ELSE [unattributed |-> TRUE,
              path |-> [d \in {"Gap"} |-> IF owner.what = "segment"
                                         THEN input.segments[owner.of.section].name
                                         ELSE owner.what]]

\* How many bytes some spans or ranges hold, and how many some rows.
Sum(S) == SumFunction([span \in S |-> span.to - span.from])

Rows(dimensions) == {RowKey(span.owner, dimensions) : span \in spans}

RowSize(key, dimensions) == Sum({span \in spans : RowKey(span.owner, dimensions) = key})

SumOfRows(keys, dimensions) == SumFunction([key \in keys |-> RowSize(key, dimensions)])

Total == Sum(universe)

\* Bytes of alias groups: several symbols, counted once.
Shared == Sum({span \in spans : /\ span.owner.what = "symbol"
                                /\ Cardinality(MembersOf(input, span.owner.of)) > 1})

-----------------------------------------------------------------------------
(* What the summary promises (docs/12-m3-symbols-sizes.md, section 3).      *)
Groupings == [section : Nat, address : Nat, size : Nat]

\* Every address stays within u64, whatever the headers say, and every loop
\* walks spans of its own kind (the saturating additions of `bounds').
TypeOK ==
    /\ IsInput(input) /\ space \in Spaces
    /\ phase \in {"merge", "claim", "symbols", "gaps", "done"}
    /\ universe \subseteq [from : Addresses, to : Addresses]
    /\ owned \subseteq [from : Addresses, to : Addresses, section : SectionIndices]
    /\ claimedEnd \in Addresses
    /\ claimedBy \in SectionIndices \cup {0}
    /\ current \in [from : Addresses, to : Addresses, section : SectionIndices \cup {0}]
    /\ cursor \in Addresses
    /\ lastOwner \in Groups(input) \cup {NoGroup}
    /\ todo \subseteq universe \cup owned
    /\ phase = "merge"   => pending \subseteq UniverseRanges
    /\ phase = "claim"   => pending \subseteq Claims
    /\ phase = "symbols" => pending \subseteq Members(current)
    /\ phase = "gaps"    => pending \subseteq owned
    /\ \A span \in spans :
          /\ span.from \in Addresses /\ span.to \in Addresses /\ span.from < span.to
          /\ span.owner.what \in {"symbol", "noSymbol", "segment", "[headers]",
                                  "[alignment]", "[non-section]"}
          /\ span.owner.of \in Groupings

Covers(span, address) == span.from <= address /\ address < span.to

\* Every byte that the universe holds, and no other, is in exactly one span: the
\* invariant that section totals, symbol totals and gap totals rest on.
EveryByteOnce ==
    phase = "done" =>
        \A address \in Addresses :
            LET owners == {span \in spans : Covers(span, address)}
            IN  Cardinality(owners) =
                  IF \/ space = "file" /\ address < input.fileSize
                     \/ \E k \in Segments : Covers(Bounds(input.segments[k], space), address)
                     \/ \E i \in SectionIndices : Covers(Bounds(Section(i), space), address)
                  THEN 1 ELSE 0

\* A byte of several sections belongs to the one that starts first; of those that
\* start together to one that is no TLS template, and of those to the outermost.
FirstClaimOwns ==
    phase \in {"symbols", "gaps", "done"} =>
        \A piece \in owned, other \in Claims :
            LET claim == Claim(piece.section)
            IN  other.from < piece.to /\ piece.from < other.to =>
                  \/ claim.from < other.from
                  \/ claim.from = other.from /\ ~claim.tls /\ other.tls
                  \/ claim.from = other.from /\ claim.tls = other.tls /\ claim.to >= other.to

\* Inside a section's span a symbol owns a byte only if it covers it and no other
\* symbol that covers it starts earlier, or as early and reaches further; and a
\* byte without a symbol is a byte that no symbol covers.
OutermostSymbolOwns ==
    phase \in {"gaps", "done"} =>
        \A piece \in owned :
            Section(piece.section).extent["vm"] # NoRange =>
            \A span \in spans, member \in Members(piece) :
                (/\ piece.from <= span.from /\ span.to <= piece.to
                 /\ member.from < span.to /\ span.from < member.to)
                => /\ span.owner.what = "symbol"
                   /\ LET owner == Member(span.owner.of, piece)
                      IN  /\ owner.from <= span.from /\ span.to <= owner.to
                          /\ \/ owner.from < member.from
                             \/ owner.from = member.from /\ owner.to >= member.to

\* A section that lost its first bytes to another, and a symbol (in memory) that
\* lost its first bytes to another, are named in a diagnostic together with the
\* one that got them, and no diagnostic names any other pair.  A TLS template
\* neither complains nor is complained about.
OverlapsNamed ==
    phase = "done" =>
        diagnostics =
            {SectionOverlap(w[1].section, w[2].section) :
                w \in {v \in owned \X owned :
                         /\ v[1].from > Claim(v[1].section).from
                         /\ v[2].to = v[1].from
                         /\ ~Claim(v[1].section).tls /\ ~Claim(v[2].section).tls}}
            \cup
            {SymbolOverlap(w[1].owner.of, w[2].owner.of) :
                w \in {v \in spans \X spans :
                         /\ space = "vm"
                         /\ v[1].owner.what = "symbol" /\ v[2].owner.what = "symbol"
                         /\ v[1].owner.of.section = v[2].owner.of.section
                         /\ v[2].to = v[1].from
                         /\ v[1].from > GroupFrom(v[1].owner.of, [section |-> v[1].owner.of.section])}}

\* The rows of every choice of dimensions add up to the universe, no total can
\* saturate, a section's rows by symbol add up to its row by section, and the
\* bytes counted as shared are bytes of symbol rows.
RowsAddUp ==
    phase = "done" =>
        /\ Total <= MaxAddress
        /\ \A dimensions \in (SUBSET Dimensions) \ {{}} :
              /\ Total = SumOfRows(Rows(dimensions), dimensions)
              /\ Shared <= SumOfRows({key \in Rows(dimensions) : ~key.unattributed}, dimensions)
        /\ \A row \in Rows({"Section"}) :
              "Section" \in DOMAIN row.path =>
                  RowSize(row, {"Section"}) =
                    SumOfRows({key \in Rows(Dimensions) : /\ "Section" \in DOMAIN key.path
                                                          /\ key.path["Section"] = row.path["Section"]},
                              Dimensions)

\* summary.rs:50, docs/12 section 3: a TLS template is not memory at its address
\* and yields to the sections it overlaps.
TemplatesYield ==
    phase = "done" =>
        \A piece \in owned :
            Claim(piece.section).tls =>
                \A claim \in Claims :
                    ~claim.tls => ~(claim.from < piece.to /\ piece.from < claim.to)
=============================================================================
