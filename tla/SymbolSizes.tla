---------------------------- MODULE SymbolSizes ----------------------------
(***************************************************************************)
(* Where the size of a symbol comes from (symbols.rs): the symbol table,   *)
(* else debug info, else the distance to the next symbol.  Each stage      *)
(* turns one set of entries into the next; an entry is a symbol with its   *)
(* size (0: none) and the evidence for it.                                 *)
(***************************************************************************)
EXTENDS Integers, Sequences, FiniteSets

CONSTANTS MaxAddress, \* u64::MAX
          NoRange,    \* a section without a mapping
          Failed      \* a reader's Err

SymbolKinds == {"Function", "Object", "Tls", "Section", "Label", "Unknown"}
Evidences   == {"SymbolTable", "DebugInfo", "Heuristic", "none"}

SmallestOf(S) == CHOOSE m \in S : \A n \in S : m <= n

Entry(symbol, size, evidence) == [symbol |-> symbol, size |-> size, evidence |-> evidence]

-----------------------------------------------------------------------------
(* 1-2. The container's symbols, or those of the first reader that has     *)
(* any; section symbols and nameless ones are dropped (name 0: empty).     *)
ReadersWithSymbols(binary) == {r \in DOMAIN binary.debug : binary.debug[r].symbols # Failed}

RawSymbols(binary) ==
    IF binary.symbols # {} THEN binary.symbols
    ELSE IF ReadersWithSymbols(binary) # {}
    THEN binary.debug[SmallestOf(ReadersWithSymbols(binary))].symbols
    ELSE {}

RecordedEvidence(binary) == IF binary.symbols # {} THEN "SymbolTable" ELSE "DebugInfo"

RecordedSizes(binary) ==
    {Entry(s, s.size, IF s.size > 0 THEN RecordedEvidence(binary) ELSE "none") :
        s \in {s \in RawSymbols(binary) : s.kind # "Section" /\ s.name # 0}}

-----------------------------------------------------------------------------
(* 3. Debug info.  Several functions or variables at one address: the      *)
(* first one in reading order counts, even if its size is zero.            *)
Earlier(p, q) ==
    \E i \in DOMAIN p : p[i] < q[i] /\ \A j \in 1..(i - 1) : p[j] = q[j]

FirstOf(P) == CHOOSE p \in P : \A q \in P \ {p} : Earlier(p, q)

\* A function's entry range: the first of those that start lowest.
EntryRange(ranges) ==
    LET start == SmallestOf({ranges[i].start : i \in DOMAIN ranges})
    IN  ranges[SmallestOf({i \in DOMAIN ranges : ranges[i].start = start})]

\* Functions by reader, unit and position; a unit or a reader that fails has none.
FunctionsAt(debug, address) ==
    {p \in UNION {UNION {{<<r, u, f>> : f \in DOMAIN debug[r].functions[u]} :
                            u \in {u \in DOMAIN debug[r].functions : debug[r].functions[u] # Failed}} :
                     r \in {r \in DOMAIN debug : debug[r].functions # Failed}} :
        /\ debug[p[1]].functions[p[2]][p[3]] # <<>>
        /\ EntryRange(debug[p[1]].functions[p[2]][p[3]]).start = address}

FunctionSize(debug, address) ==
    IF FunctionsAt(debug, address) = {} THEN 0
    ELSE LET p == FirstOf(FunctionsAt(debug, address))
         IN  EntryRange(debug[p[1]].functions[p[2]][p[3]]).size

VariablesAt(debug, address) ==
    {p \in UNION {{<<r, v>> : v \in DOMAIN debug[r].variables} :
                     r \in {r \in DOMAIN debug : debug[r].variables # Failed}} :
        debug[p[1]].variables[p[2]].address = address}

VariableSize(debug, address) ==
    IF VariablesAt(debug, address) = {} THEN 0
    ELSE LET p == FirstOf(VariablesAt(debug, address)) IN debug[p[1]].variables[p[2]].size

DebugSize(debug, symbol) ==
    CASE symbol.kind = "Function"              -> FunctionSize(debug, symbol.address)
      [] symbol.kind \in {"Object", "Unknown"} -> VariableSize(debug, symbol.address)
      [] OTHER                                 -> 0

\* Definitions named Faulty... are plausible slips in the code; nothing else uses them.
\* Debug info overrides what the symbol table records.
FaultyDebugSizes(binary, entries) ==
    {LET size == DebugSize(binary.debug, e.symbol)
     IN  IF size > 0 THEN Entry(e.symbol, size, "DebugInfo") ELSE e : e \in entries}

DebugSizes(binary, entries) ==
    {LET size == DebugSize(binary.debug, e.symbol)
     IN  IF e.size = 0 /\ size > 0 THEN Entry(e.symbol, size, "DebugInfo") ELSE e :
        e \in entries}

-----------------------------------------------------------------------------
(* 4. The labeled heuristic: as far as the next distinct address in the    *)
(* section, never past its end, and not among merged literals.             *)
EndOf(range) == SmallestOf({range.start + range.size, MaxAddress})

Guessable(binary, symbol) ==
    /\ symbol.kind \in {"Function", "Object"}
    /\ symbol.section \in DOMAIN binary.sections
    /\ binary.sections[symbol.section].vm # NoRange
    /\ binary.sections[symbol.section].kind # "Literals"

\* Only symbols that still have no size delimit a guess.
FaultyNextAddresses(entries, symbol) ==
    {e.symbol.address : e \in {e \in entries : e.symbol.section = symbol.section /\ e.size = 0
                                              /\ e.symbol.address > symbol.address}}

NextAddresses(entries, symbol) ==
    {e.symbol.address : e \in {e \in entries : e.symbol.section = symbol.section
                                              /\ e.symbol.address > symbol.address}}

\* The distance to the next symbol, even if that lies behind the section's end.
FaultyGuessedEnd(binary, entries, symbol) ==
    LET end == EndOf(binary.sections[symbol.section].vm)
    IN  IF NextAddresses(entries, symbol) = {} THEN end
        ELSE SmallestOf(NextAddresses(entries, symbol))

GuessedEnd(binary, entries, symbol) ==
    SmallestOf(NextAddresses(entries, symbol)
               \cup {EndOf(binary.sections[symbol.section].vm)})

HeuristicSizes(binary, entries) ==
    {IF /\ e.size = 0 /\ Guessable(binary, e.symbol)
        /\ GuessedEnd(binary, entries, e.symbol) > e.symbol.address
     THEN Entry(e.symbol, GuessedEnd(binary, entries, e.symbol) - e.symbol.address, "Heuristic")
     ELSE e : e \in entries}

SizedSymbols(binary) ==
    HeuristicSizes(binary, DebugSizes(binary, RecordedSizes(binary)))

-----------------------------------------------------------------------------
(* 5. Alias groups: sized functions and objects at the same place; a fold  *)
(* when they are different functions once demangled and normalized.        *)
Groupable(e) == e.size > 0 /\ e.symbol.kind \in {"Function", "Object"}

SamePlace(d, e) ==
    /\ d.symbol.section = e.symbol.section
    /\ d.symbol.address = e.symbol.address
    /\ d.size = e.size

AliasGroup(entries, e) ==
    {d \in entries : Groupable(e) /\ Groupable(d) /\ SamePlace(d, e)}

Folded(group) == Cardinality({d.symbol.function : d \in group}) > 1

Row(entries, e) ==
    [symbol |-> e.symbol, size |-> e.size, evidence |-> e.evidence,
     aliases |-> AliasGroup(entries, e) \ {e}, folded |-> Folded(AliasGroup(entries, e))]
=============================================================================
