------------------------------ MODULE Summary ------------------------------
(***************************************************************************)
(* Session::summary: the symbol table is built, in the stages of           *)
(* SymbolTable, and then the bytes are attributed to its symbols, with     *)
(* whatever sizes these have, as in ByteAttribution.  Between the two a    *)
(* symbol loses the number of its section and keeps only its name.         *)
(***************************************************************************)
EXTENDS ByteAttribution

CONSTANTS Failed,  \* a reader's Err
          Images   \* [sections, segments, headersSize, fileSize, symbols, debug]

VARIABLES binary, stage, entries, table  \* see SymbolTable

tableVars == <<binary, stage, entries, table>>

Binary(image) ==
    [sections |-> [i \in DOMAIN image.sections |->
                      [kind |-> image.sections[i].kind, vm |-> image.sections[i].extent["vm"]]],
     symbols  |-> image.symbols,
     debug    |-> image.debug]

Table == INSTANCE SymbolTable WITH Binaries <- {Binary(image) : image \in Images}

\* What the summary is given of an image, with these rows of its table.
Given(image, rows) ==
    [sections |-> image.sections, segments |-> image.segments,
     headersSize |-> image.headersSize, fileSize |-> image.fileSize,
     symbols |-> {[name |-> row.symbol.name, section |-> image.sections[row.symbol.section].label,
                   address |-> row.symbol.address, size |-> row.size, kind |-> row.symbol.kind,
                   evidence |-> row.evidence] :
                     row \in {r \in rows : r.symbol.section \in DOMAIN image.sections}}]

(***************************************************************************)
(* What the readers may say: numbers that fit 64 bits, in any combination. *)
(***************************************************************************)
IsSized(thing) == thing.address \in Addresses /\ thing.size \in Addresses

IsReader(reader) ==
    /\ reader.symbols # Failed => \A symbol \in reader.symbols : IsSized(symbol)
    /\ reader.functions # Failed =>
          /\ DOMAIN reader.functions \subseteq Nat
          /\ \A u \in DOMAIN reader.functions :
                reader.functions[u] # Failed => reader.functions[u] \in Seq(Seq(Ranges))
    /\ reader.variables # Failed =>
          /\ DOMAIN reader.variables \subseteq Nat
          /\ \A v \in DOMAIN reader.variables : IsSized(reader.variables[v])

ASSUME ImagesAssumption ==
    \A image \in Images :
        /\ IsInput(Given(image, {}))
        /\ \A symbol \in image.symbols : IsSized(symbol)
        /\ DOMAIN image.debug \subseteq Nat
        /\ \A r \in DOMAIN image.debug : IsReader(image.debug[r])

SummaryInit ==
    /\ \E image \in Images : input = Given(image, {}) /\ binary = Binary(image)
    /\ Table!Begin /\ Start

BuildTable == stage # "done" /\ Table!Next /\ UNCHANGED vars

HandOver ==
    /\ stage = "done" /\ stage' = "summarized"
    /\ input' = Given(input, table)
    /\ UNCHANGED <<binary, entries, table, space, phase, todo, pending, universe, owned, claimedEnd,
                   claimedBy, current, cursor, lastOwner, spans, diagnostics>>

Attribute == stage = "summarized" /\ Next /\ UNCHANGED tableVars

SummaryNext == BuildTable \/ HandOver \/ Attribute

SummarySpec == SummaryInit /\ [][SummaryNext]_<<vars, tableVars>>

-----------------------------------------------------------------------------
\* A group whose size nothing but the distance to the next symbol vouches for.
Guessed(group) == \A symbol \in MembersOf(input, group) : symbol.evidence = "Heuristic"

\* SymbolTable's properties, of the table on its way to the summary.
SizesStick == Table!SizesStick
HeuristicStaysPut == Table!HeuristicStaysPut

\* Else the name that a symbol keeps does not tell whose it is.
NamedApart == \A i, j \in DOMAIN input.sections : SectionLabel(i) = SectionLabel(j) => i = j

\* A guess never cuts a symbol short that starts elsewhere: no symbol is reported as
\* overlapped by a guessed one, and no bytes of a symbol with evidence belong to a
\* guessed one that starts at another address (docs/12 section 4: a guess "never
\* swallows the next symbol").  It may when both start before the bytes that are left
\* of their section: there the one that reaches further wins, whatever vouches for it.
GuessesCutNoOne ==
    phase \in {"gaps", "done"} /\ NamedApart =>
        /\ \A d \in diagnostics : d.code = "SymbolOverlap" => ~Guessed(d.with)
        /\ \A span \in spans :
              span.owner.what = "symbol" /\ Guessed(span.owner.of) =>
                  \A group \in Groups(input), piece \in owned :
                      (/\ group.section = span.owner.of.section /\ piece.section = group.section
                       /\ ~Guessed(group)
                       /\ piece.from <= GroupFrom(group, group)
                       /\ GroupFrom(group, group) < span.to
                       /\ span.from < GroupFrom(group, group) + group.size)
                      => group.address = span.owner.of.address

\* docs/12-m3-symbols-sizes.md:126: a heuristic size "is never used for totals when a
\* non-heuristic source exists for the same bytes".
HeuristicsYield ==
    phase = "done" =>
        \A span \in spans :
            span.owner.what = "symbol" /\ Guessed(span.owner.of) =>
                \A group \in Groups(input) :
                    ~(/\ group.section = span.owner.of.section
                      /\ ~Guessed(group)
                      /\ GroupFrom(group, group) < span.to
                      /\ span.from < GroupFrom(group, group) + group.size)
=============================================================================
