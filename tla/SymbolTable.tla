---------------------------- MODULE SymbolTable ----------------------------
(***************************************************************************)
(* The symbol lens: one normalized table per session (symbols::build), in  *)
(* the stages in which the code fills in sizes and then relates symbols.   *)
(* The final order (by address, then name) is left to the reader.          *)
(***************************************************************************)
EXTENDS SymbolSizes

CONSTANT Binaries   \* [sections, symbols, debug]

VARIABLES binary,   \* the image and its debug readers
          stage,    \* the next stage: raw, debug, heuristic, aliases; or done
          entries,  \* symbols with sizes and evidence
          table     \* the answer

vars == <<binary, stage, entries, table>>

Begin == stage = "raw" /\ entries = {} /\ table = {}

Init == binary \in Binaries /\ Begin

TakeSymbols ==
    /\ stage = "raw"
    /\ entries' = RecordedSizes(binary)
    /\ stage' = "debug"
    /\ UNCHANGED <<binary, table>>

\* Debug info is read only if a symbol has no size yet.
SizeFromDebugInfo ==
    /\ stage = "debug"
    /\ entries' = DebugSizes(binary, entries)
    /\ stage' = "heuristic"
    /\ UNCHANGED <<binary, table>>

GuessSizes ==
    /\ stage = "heuristic"
    /\ entries' = HeuristicSizes(binary, entries)
    /\ stage' = "aliases"
    /\ UNCHANGED <<binary, table>>

RelateSymbols ==
    /\ stage = "aliases"
    /\ table' = {Row(entries, e) : e \in entries}
    /\ stage' = "done"
    /\ UNCHANGED <<binary, entries>>

Built == stage = "done" /\ UNCHANGED vars

Next == TakeSymbols \/ SizeFromDebugInfo \/ GuessSizes \/ RelateSymbols \/ Built

Spec == Init /\ [][Next]_vars

-----------------------------------------------------------------------------
\* A size once found is never replaced by one with weaker evidence, and after the
\* symbols are taken none appears or disappears (docs/12 section 4: sources in
\* precedence order).
SizesStick ==
    [][stage # "raw" =>
        /\ {e.symbol : e \in entries'} = {e.symbol : e \in entries}
        /\ \A e \in entries : e.size > 0 => e \in entries']_vars

\* "A heuristic size never crosses a section end, never swallows the next symbol"
\* (docs/12 section 4), and is never inferred among literals the linker merged, nor for a
\* symbol that names a section there is none of.
HeuristicStaysPut ==
    \A row \in table :
        row.evidence = "Heuristic" =>
            LET section == binary.sections[row.symbol.section]
                end     == row.symbol.address + row.size
            IN  /\ row.symbol.section \in DOMAIN binary.sections
                /\ section.kind # "Literals"
                /\ end <= EndOf(section.vm)
                /\ \A s \in RawSymbols(binary) :
                      (s.section = row.symbol.section /\ s.kind # "Section" /\ s.name # 0)
                          => ~(row.symbol.address < s.address /\ s.address < end)
=============================================================================
