------------------------------ MODULE Session ------------------------------
(***************************************************************************)
(* Queries on one opened binary, from many threads at once (Session in     *)
(* engine.rs is Send + Sync and cheap to clone).                           *)
(*                                                                         *)
(* Two kinds of cells are shared: the session's symbol table and one type  *)
(* index per debug reader.  Each is a OnceLock: the first thread to need   *)
(* it builds it while the others wait, and if the builder panics the cell  *)
(* stays empty and whoever waits builds it again.  The thread's way        *)
(* through struct_layout, from reader to reader and pass to pass, is       *)
(* interleaved with everybody else's.  What a thread finds when it reads   *)
(* the debug info is fixed by the bytes, which the session owns.           *)
(***************************************************************************)
EXTENDS TypeNames

LOCAL INSTANCE SequencesExt

CONSTANTS Threads,    \* the caller's threads
          Contents,   \* what the debug readers of a session may hold
          Queries,    \* what the threads ask
          MaxQueries, \* bound: queries per thread
          Nobody      \* no thread

\* A type as a reader finds it: its name as recorded, its layout and where it is declared,
\* whether it is a declaration only, and whether its description can be decoded.
Types == [name : Seq(STRING), layout : STRING, decl : STRING,
          declaration : BOOLEAN, readable : BOOLEAN]

\* A debug reader: whether it keeps an index, how reading the types turns out, and the types.
Readers == [indexed : BOOLEAN, index : {"ok", "error"}, types : SUBSET Types]

QueryKinds == {"layout", "symbols", "summary"}

ASSUME SessionAssumption ==
    /\ Nobody \notin Threads
    /\ MaxQueries \in Nat \ {0}
    /\ Contents \subseteq Seq(Readers)
    /\ Queries \subseteq [kind : QueryKinds, name : Seq(STRING)] /\ Queries # {}

VARIABLES
    debug,      \* the readers: a sequence of [indexed, index, types]
    table,      \* the symbol table's cell: unset or set
    tableBy,    \* the thread that builds it
    index,      \* each reader's type index: unset, ok or error (kept like a value)
    indexBy,    \* the threads that build them
    pc,         \* where each thread stands
    query,      \* what it asks
    pass,       \* struct_layout: 0 exact names, 1 trailing components
    reader,     \* struct_layout: the reader whose turn it is
    raws,       \* struct_layout: what was found so far
    failures,   \* struct_layout: the readers that failed, with the pass
    asked,      \* how many queries each thread has made
    answers     \* every answer a thread has received

shared == <<table, tableBy, index, indexBy>>
vars   == <<debug, shared, pc, query, pass, reader, raws, failures, asked, answers>>

-----------------------------------------------------------------------------
(* What a reader finds under a name, and what struct_layout makes of it.   *)
\* Every name that occurs, with its spelling and its meaning.
Names   == {q.name : q \in Queries}
               \cup UNION {{t.name : t \in UNION {readers[r].types : r \in DOMAIN readers}} :
                             readers \in Contents}
Normal  == [name \in Names |-> Normalize(name)]
Denotes == [name \in Names |-> Meaning(name)]

EndsWith(name, wanted) ==
    /\ Len(name) > Len(wanted)
    /\ SubSeq(name, Len(name) - Len(wanted), Len(name)) = <<"::">> \o wanted

Matching(types, wanted, p) ==
    {t \in types : LET name == Normal[t.name]
                   IN  IF p = 0 THEN name = wanted ELSE EndsWith(name, wanted)}

Definitions(types) == {t \in types : ~t.declaration}

\* One definition that cannot be decoded loses everything the reader found.
FindFails(types, wanted, p) ==
    \E t \in Definitions(Matching(types, wanted, p)) : ~t.readable

\* A declaration counts only if the reader has no definition of that name.
FindTypes(types, wanted, p) ==
    {t \in Matching(types, wanted, p) :
        t.declaration => t.name \notin {d.name : d \in Definitions(types)}}

\* compute: everything a match says, identical matches once.
Layouts(found) ==
    {[name |-> t.name, layout |-> t.layout, decl |-> t.decl] : t \in Definitions(found)}

\* Several definitions, all spelled alike.
IsOdrConflict(matches) ==
    Cardinality(matches) > 1 /\ \A m, n \in matches : m.name = n.name

Reason(found) ==
    IF Definitions(found) # {} THEN "found"
    ELSE IF found # {} THEN "onlyDeclarations" ELSE "noSuchType"

Result(found, failed) ==
    [matches |-> Layouts(found), reason |-> Reason(found), failures |-> failed,
     conflict |-> IsOdrConflict(Layouts(found))]

NoResult == [matches |-> {}, reason |-> "none", failures |-> {}, conflict |-> FALSE]

Wanted(q) == Normal[q.name]

Answer(q, status, result) == [query |-> q, status |-> status, result |-> result]

-----------------------------------------------------------------------------
Init ==
    /\ debug \in Contents
    /\ table = "unset" /\ tableBy = Nobody
    /\ index = [r \in DOMAIN debug |-> IF debug[r].indexed THEN "unset" ELSE debug[r].index]
    /\ indexBy = [r \in DOMAIN debug |-> Nobody]
    /\ pc = [t \in Threads |-> "idle"]
    /\ query = [t \in Threads |-> CHOOSE q \in Queries : TRUE]
    /\ pass = [t \in Threads |-> 0]
    /\ reader = [t \in Threads |-> 1]
    /\ raws = [t \in Threads |-> {}]
    /\ failures = [t \in Threads |-> {}]
    /\ asked = [t \in Threads |-> 0]
    /\ answers = {}

Returns(t, status, result) ==
    /\ answers' = answers \cup {Answer(query[t], status, result)}
    /\ pc' = [pc EXCEPT ![t] = "idle"]
    /\ UNCHANGED <<debug, query, pass, reader, raws, failures, asked>>

(* A thread calls struct_layout, symbols, by_symbol or summary.            *)
Ask(t) ==
    /\ pc[t] = "idle" /\ asked[t] < MaxQueries
    /\ \E q \in Queries :
         /\ query' = [query EXCEPT ![t] = q]
         /\ pc' = [pc EXCEPT ![t] = IF q.kind # "layout" THEN "table"
                                    ELSE IF debug = <<>> THEN "noDebugInfo" ELSE "index"]
    /\ asked' = [asked EXCEPT ![t] = @ + 1]
    /\ pass' = [pass EXCEPT ![t] = 0]
    /\ reader' = [reader EXCEPT ![t] = 1]
    /\ raws' = [raws EXCEPT ![t] = {}]
    /\ failures' = [failures EXCEPT ![t] = {}]
    /\ UNCHANGED <<debug, shared, answers>>

NoDebugInfo(t) ==
    /\ pc[t] = "noDebugInfo"
    /\ Returns(t, "ok", [NoResult EXCEPT !.reason = "noDebugInfo"])
    /\ UNCHANGED shared

-----------------------------------------------------------------------------
\* Definitions named Faulty... are plausible slips in the code; Next does not use them.
\* Checking the cell and claiming it are not one step.
FaultyBuildTable(t) ==
    /\ pc[t] = "table" /\ table = "unset"
    /\ tableBy' = t
    /\ pc' = [pc EXCEPT ![t] = "buildTable"]
    /\ UNCHANGED <<debug, table, index, indexBy, query, pass, reader, raws, failures,
                   asked, answers>>

(* symbol_table: OnceLock::get_or_init around symbols::build.              *)
BuildTable(t) ==
    /\ pc[t] = "table" /\ table = "unset" /\ tableBy = Nobody
    /\ tableBy' = t
    /\ pc' = [pc EXCEPT ![t] = "buildTable"]
    /\ UNCHANGED <<debug, table, index, indexBy, query, pass, reader, raws, failures,
                   asked, answers>>

\* Readers that fail only leave symbols without sizes.
TableBuilt(t) ==
    /\ pc[t] = "buildTable"
    /\ table' = "set"
    /\ tableBy' = Nobody
    /\ pc' = [pc EXCEPT ![t] = "table"]
    /\ UNCHANGED <<debug, index, indexBy, query, pass, reader, raws, failures, asked, answers>>

\* A panic leaves the cell claimed.
FaultyBuildingTablePanics(t) ==
    /\ pc[t] = "buildTable"
    /\ Returns(t, "panic", NoResult)
    /\ UNCHANGED <<table, tableBy, index, indexBy>>

\* A plugin panics in symbols::build, which nobody catches.
BuildingTablePanics(t) ==
    /\ pc[t] = "buildTable"
    /\ tableBy' = Nobody
    /\ Returns(t, "panic", NoResult)
    /\ UNCHANGED <<table, index, indexBy>>

UseTable(t) ==
    /\ pc[t] = "table" /\ table = "set"
    /\ Returns(t, "ok", NoResult)
    /\ UNCHANGED shared

\* summary::build runs under catch_unwind; filtering symbols does not.
UsingTablePanics(t) ==
    /\ pc[t] = "table" /\ table = "set"
    /\ Returns(t, IF query[t].kind = "summary" THEN "internalError" ELSE "panic", NoResult)
    /\ UNCHANGED shared

-----------------------------------------------------------------------------
(* find_types: a DWARF reader's OnceLock::get_or_init around build_index; a *)
(* PDB reader has no index and reads its type stream for every query.      *)
\* Every query builds the index anew, in place of the one that is there.
FaultyBuildIndex(t) ==
    LET r == reader[t]
    IN  /\ pc[t] = "index" /\ indexBy[r] = Nobody
        /\ index' = [index EXCEPT ![r] = "unset"]
        /\ indexBy' = [indexBy EXCEPT ![r] = t]
        /\ pc' = [pc EXCEPT ![t] = "buildIndex"]
        /\ UNCHANGED <<debug, table, tableBy, query, pass, reader, raws, failures, asked, answers>>

BuildIndex(t) ==
    LET r == reader[t]
    IN  /\ pc[t] = "index" /\ index[r] = "unset" /\ indexBy[r] = Nobody
        /\ indexBy' = [indexBy EXCEPT ![r] = t]
        /\ pc' = [pc EXCEPT ![t] = "buildIndex"]
        /\ UNCHANGED <<debug, table, tableBy, index, query, pass, reader, raws, failures,
                       asked, answers>>

IndexBuilt(t) ==
    LET r == reader[t]
    IN  /\ pc[t] = "buildIndex"
        /\ index' = [index EXCEPT ![r] = debug[r].index]
        /\ indexBy' = [indexBy EXCEPT ![r] = Nobody]
        /\ pc' = [pc EXCEPT ![t] = "index"]
        /\ UNCHANGED <<debug, table, tableBy, query, pass, reader, raws, failures, asked, answers>>

BuildingIndexPanics(t) ==
    /\ pc[t] = "buildIndex"
    /\ indexBy' = [indexBy EXCEPT ![reader[t]] = Nobody]
    /\ Returns(t, "panic", NoResult)
    /\ UNCHANGED <<table, tableBy, index>>

NextReader(t) ==
    IF reader[t] < Len(debug)
    THEN reader' = [reader EXCEPT ![t] = @ + 1] /\ UNCHANGED pc
    ELSE pc' = [pc EXCEPT ![t] = "endOfPass"] /\ UNCHANGED reader

\* The rest of find_types, and on to the next reader or the end of the pass.
CollectTypes(t) ==
    LET r     == reader[t]
        fails == index[r] = "error" \/ FindFails(debug[r].types, Wanted(query[t]), pass[t])
    IN  /\ pc[t] = "index" /\ index[r] # "unset"
        /\ IF fails
           THEN /\ failures' = [failures EXCEPT ![t] = @ \cup {[reader |-> r, pass |-> pass[t]]}]
                /\ UNCHANGED raws
           ELSE /\ raws' = [raws EXCEPT
                              ![t] = @ \cup FindTypes(debug[r].types, Wanted(query[t]), pass[t])]
                /\ UNCHANGED failures
        /\ NextReader(t)
        /\ UNCHANGED <<debug, shared, query, pass, asked, answers>>

\* The second pass starts where the first one stopped.
FaultyNextPass(t) ==
    /\ pc[t] = "endOfPass" /\ raws[t] = {} /\ pass[t] = 0
    /\ pass' = [pass EXCEPT ![t] = 1]
    /\ pc' = [pc EXCEPT ![t] = "index"]
    /\ UNCHANGED <<debug, shared, query, reader, raws, failures, asked, answers>>

\* Only a pass that found nothing, not even a declaration, is followed by the next.
NextPass(t) ==
    /\ pc[t] = "endOfPass" /\ raws[t] = {} /\ pass[t] = 0
    /\ pass' = [pass EXCEPT ![t] = 1]
    /\ reader' = [reader EXCEPT ![t] = 1]
    /\ pc' = [pc EXCEPT ![t] = "index"]
    /\ UNCHANGED <<debug, shared, query, raws, failures, asked, answers>>

LayoutsComputed(t) ==
    /\ pc[t] = "endOfPass" /\ (raws[t] # {} \/ pass[t] = 1)
    /\ Returns(t, "ok", Result(raws[t], failures[t]))
    /\ UNCHANGED shared

\* A reader panics while decoding, or the layout lens does; nobody catches it.
LayoutPanics(t) ==
    /\ \/ pc[t] = "index" /\ index[reader[t]] # "unset"
       \/ pc[t] = "endOfPass"
    /\ Returns(t, "panic", NoResult)
    /\ UNCHANGED shared

Panics(t) ==
    \/ BuildingTablePanics(t) \/ UsingTablePanics(t)
    \/ BuildingIndexPanics(t) \/ LayoutPanics(t)

Proceeds(t) ==
    \/ NoDebugInfo(t)
    \/ BuildTable(t) \/ TableBuilt(t) \/ UseTable(t)
    \/ BuildIndex(t) \/ IndexBuilt(t) \/ CollectTypes(t)
    \/ NextPass(t) \/ LayoutsComputed(t)

Finished == (\A t \in Threads : pc[t] = "idle" /\ asked[t] = MaxQueries) /\ UNCHANGED vars

Next == (\E t \in Threads : Ask(t) \/ Proceeds(t) \/ Panics(t)) \/ Finished

Spec == Init /\ [][Next]_vars

\* The scheduler runs every thread; a thread is free never to ask.
FairSpec == Spec /\ \A t \in Threads : WF_vars(Proceeds(t))

-----------------------------------------------------------------------------
Places == {"idle", "noDebugInfo", "table", "buildTable", "index", "buildIndex",
           "endOfPass"}

Passes == {0, 1}

KnownTypes == UNION {debug[r].types : r \in DOMAIN debug}
Failures   == [reader : DOMAIN debug, pass : Passes]

TypeOK ==
    /\ debug \in Contents
    /\ table \in {"unset", "set"} /\ tableBy \in Threads \cup {Nobody}
    /\ index \in [DOMAIN debug -> {"unset", "ok", "error"}]
    /\ indexBy \in [DOMAIN debug -> Threads \cup {Nobody}]
    /\ pc \in [Threads -> Places]
    /\ query \in [Threads -> Queries]
    /\ pass \in [Threads -> Passes]
    /\ \A t \in Threads :
          /\ reader[t] \in (DOMAIN debug) \cup {1}
          /\ raws[t] \subseteq KnownTypes
          /\ failures[t] \subseteq Failures
    /\ asked \in [Threads -> 0..MaxQueries]

\* A cell has at most one builder, only while it is empty, and its builder is the
\* thread that is building it: OnceLock never runs two initializers of one cell at
\* once, and a panic or an error never leaves it claimed.
OneBuilder ==
    /\ \A t \in Threads :
          /\ (pc[t] = "buildTable") <=> (tableBy = t)
          /\ \A r \in DOMAIN debug :
                (pc[t] = "buildIndex" /\ reader[t] = r) <=> (indexBy[r] = t)
    /\ tableBy # Nobody => table = "unset"
    /\ \A r \in DOMAIN debug : indexBy[r] # Nobody => index[r] = "unset"

\* What a session has computed once it never recomputes or forgets: neither the
\* symbol table nor a type index, not even the error of a failed index.
CellsStick ==
    [][/\ table # "unset" => table' = table
       /\ \A r \in DOMAIN debug : index[r] # "unset" => index'[r] = index[r]]_vars

\* The readers that fail in a pass, what the others find, and the failures on record.
FailingReaders(readers, wanted, p) ==
    {r \in DOMAIN readers : readers[r].index = "error" \/ FindFails(readers[r].types, wanted, p)}

FoundIn(readers, some, wanted, p) ==
    UNION {FindTypes(readers[r].types, wanted, p) : r \in some \ FailingReaders(readers, wanted, p)}

FailedIn(readers, passes, wanted) ==
    {f \in [reader : DOMAIN readers, pass : passes] :
        f.reader \in FailingReaders(readers, wanted, f.pass)}

AnsweredAlone(readers, wanted) ==
    LET exact    == FoundIn(readers, DOMAIN readers, wanted, 0)
        trailing == FoundIn(readers, DOMAIN readers, wanted, 1)
    IN  IF exact # {} THEN Result(exact, FailedIn(readers, {0}, wanted))
                      ELSE Result(trailing, FailedIn(readers, Passes, wanted))

\* "Queries are read-only and idempotent" (docs/02 section 6): whatever the other
\* threads do meanwhile, and whoever built or failed to build the indexes, a
\* layout query that returns normally says what the binary says: what the readers
\* that could be read hold under the exact name or, if they hold nothing, under a
\* trailing component, and which readers could not be read.
AnswersIdempotent ==
    \A a \in answers :
        a.status = "ok" /\ a.query.kind = "layout" /\ debug # <<>> =>
            a.result = AnsweredAlone(debug, Wanted(a.query))

\* A name denotes what another one denotes, within some scope.
DenotesNested(name, other) == IsSuffix(<<Word("::")>> \o Denotes[other], Denotes[name])

\* The definitions that a name means: the types it denotes, however they are spelled, or,
\* when there are none, not even declared, those it denotes within some scope.
Meant(types, name) ==
    LET denoted == {t \in types : Denotes[t.name] = Denotes[name]}
        nested  == {t \in types : DenotesNested(t.name, name)}
    IN  Definitions(IF denoted # {} THEN denoted ELSE nested)

\* What the table of words is for: of the names that occur, those that denote the same
\* normalize alike, whole or behind a scope, and no others.
SpellingsAgree ==
    \A a, b \in Names :
        /\ (Normal[a] = Normal[b]) <=> (Denotes[a] = Denotes[b])
        /\ EndsWith(Normal[a], Normal[b]) <=> DenotesNested(a, b)

\* "so spellings from Clang, GCC and MSVC compare equal" (lang-cpp): two names normalize
\* alike exactly when they denote the same type, and so a layout query finds the types it
\* means in every reader that could be read, whichever compilers wrote the debug info and
\* the query, and no others.
FindsWhatIsMeant ==
    /\ SpellingsAgree
    /\ \A a \in answers :
          a.status = "ok" /\ a.query.kind = "layout" /\ debug # <<>> /\ a.result.failures = {} =>
              a.result.matches = Layouts(Meant(KnownTypes, a.query.name))

\* Every query returns, even when threads before it panicked while building what
\* it waits for.
EveryQueryReturns == \A t \in Threads : pc[t] # "idle" ~> pc[t] = "idle"

\* docs/02-architecture.md, section 6: "No panics escape the public API."
NoPanicEscapes == \A a \in answers : a.status # "panic"
=============================================================================
