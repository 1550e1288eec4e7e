--------------------------- MODULE SessionProofs ---------------------------
(***************************************************************************)
(* What holds of a session for any number of threads and queries and for   *)
(* any debug readers: the cells are built by one thread at a time and keep *)
(* what they hold, and answers do not depend on the interleaving.          *)
(***************************************************************************)
EXTENDS Session, TLAPS

-----------------------------------------------------------------------------
(* The inductive invariant.  The cells (OneBuilder) and what a thread has   *)
(* collected so far (CollectedInv) are independent of each other, but both *)
(* need the types.                                                         *)
VarTypes ==
    /\ debug \in Contents
    /\ table \in {"unset", "set"} /\ tableBy \in Threads \cup {Nobody}
    /\ index \in [DOMAIN debug -> {"unset", "ok", "error"}]
    /\ indexBy \in [DOMAIN debug -> Threads \cup {Nobody}]
    /\ pc \in [Threads -> Places]
    /\ query \in [Threads -> Queries]
    /\ pass \in [Threads -> Passes]
    /\ reader \in [Threads -> Nat]
    /\ raws \in [Threads -> SUBSET KnownTypes]
    /\ failures \in [Threads -> SUBSET Failures]
    /\ asked \in [Threads -> 0..MaxQueries]

Collecting(t) == pc[t] \in {"index", "buildIndex", "endOfPass"}

\* A thread that collects types stands at one of the readers.
ReaderInv ==
    \A t \in Threads : /\ reader[t] \in (DOMAIN debug) \cup {1}
                       /\ Collecting(t) => reader[t] \in DOMAIN debug

\* A filled index holds what its reader yields.
IndexInv == \A r \in DOMAIN debug : index[r] \in {"unset", debug[r].index}

\* The readers whose turn in this pass is over.
Visited(t) == {r \in DOMAIN debug : pc[t] = "endOfPass" \/ r < reader[t]}

\* What the thread has is what those readers hold, and the failures on record are
\* theirs and those of the pass before, which found nothing.
Collected(t) ==
    /\ raws[t] = FoundIn(debug, Visited(t), Wanted(query[t]), pass[t])
    /\ failures[t] = {f \in FailedIn(debug, Passes, Wanted(query[t])) :
                         f.pass < pass[t] \/ (f.pass = pass[t] /\ f.reader \in Visited(t))}
    /\ pass[t] = 1 => FoundIn(debug, DOMAIN debug, Wanted(query[t]), 0) = {}

\* Only layout queries collect types; the others stay away from the answers below.
PlaceOf(t) ==
    /\ pc[t] \in {"table", "buildTable"} => query[t].kind # "layout"
    /\ pc[t] = "noDebugInfo" => debug = <<>>
    /\ Collecting(t) => Collected(t)

PlaceInv == \A t \in Threads : PlaceOf(t)

TypeInv == VarTypes /\ ReaderInv

(* Debug readers are a sequence, each with what it needs.                  *)
LEMMA DebugFacts ==
    ASSUME debug \in Contents
    PROVE  /\ DOMAIN debug = 1..Len(debug) /\ Len(debug) \in Nat
           /\ debug # <<>> => 1 \in DOMAIN debug
           /\ \A r \in DOMAIN debug : debug[r] \in Readers
  <1>1. debug \in Seq(Readers)
    BY SessionAssumption
  <1>2. QED
    BY <1>1

LEMMA ReaderIndex ==
    ASSUME debug \in Contents, NEW r \in DOMAIN debug
    PROVE  debug[r].index \in {"ok", "error"}
  BY DebugFacts DEF Readers

(* Going on to the next reader stays among the readers.                    *)
LEMMA NextReaderFacts ==
    ASSUME debug \in Contents, reader \in [Threads -> Nat], pc \in [Threads -> Places],
           NEW t \in Threads, reader[t] \in DOMAIN debug, NextReader(t)
    PROVE  /\ reader' \in [Threads -> Nat]
           /\ pc' \in [Threads -> Places]
           /\ \A u \in Threads : u # t => reader'[u] = reader[u] /\ pc'[u] = pc[u]
           /\ reader'[t] \in DOMAIN debug
  <1>1. DOMAIN debug = 1..Len(debug) /\ Len(debug) \in Nat
    BY DebugFacts
  <1>2. CASE reader[t] < Len(debug)
    <2>1. reader' = [reader EXCEPT ![t] = @ + 1] /\ pc' = pc
      BY <1>2 DEF NextReader
    <2>2. reader[t] + 1 \in Nat /\ reader[t] + 1 \in DOMAIN debug
      BY <1>1, <1>2
    <2>3. QED
      BY <2>1, <2>2
  <1>3. CASE ~(reader[t] < Len(debug))
    <2>1. pc' = [pc EXCEPT ![t] = "endOfPass"] /\ reader' = reader
      BY <1>3 DEF NextReader
    <2>2. QED
      BY <2>1 DEF Places
  <1>4. QED
    BY <1>2, <1>3

LEMMA CollectTypesKeepsTypes ==
    ASSUME TypeInv, NEW t \in Threads, CollectTypes(t)
    PROVE  TypeInv'
  <1> DEFINE found   == FindTypes(debug[reader[t]].types, Wanted(query[t]), pass[t])
             failure == [reader |-> reader[t], pass |-> pass[t]]
  <1>1. reader[t] \in DOMAIN debug
    BY DEF CollectTypes, TypeInv, ReaderInv, Collecting
  <1>2. found \subseteq KnownTypes
    BY <1>1 DEF FindTypes, Matching, KnownTypes
  <1>3. failure \in Failures
    BY <1>1 DEF Failures, TypeInv, VarTypes
  <1>4. /\ raws' = raws \/ raws' = [raws EXCEPT ![t] = @ \cup found]
        /\ failures' = failures \/ failures' = [failures EXCEPT ![t] = @ \cup {failure}]
        /\ UNCHANGED <<debug, table, tableBy, index, indexBy, query, pass, asked>>
    BY DEF CollectTypes, shared
  <1> HIDE DEF found, failure
  <1>5. raws' \in [Threads -> SUBSET KnownTypes]
    <2>1. raws \in [Threads -> SUBSET KnownTypes]
      BY DEF TypeInv, VarTypes
    <2>2. QED
      BY <1>2, <1>4, <2>1
  <1>6. failures' \in [Threads -> SUBSET Failures]
    <2>1. failures \in [Threads -> SUBSET Failures]
      BY DEF TypeInv, VarTypes
    <2>2. QED
      BY <1>3, <1>4, <2>1
  <1>7. /\ reader' \in [Threads -> Nat]
        /\ pc' \in [Threads -> Places]
        /\ \A u \in Threads : u # t => reader'[u] = reader[u] /\ pc'[u] = pc[u]
        /\ reader'[t] \in DOMAIN debug
    BY <1>1, NextReaderFacts DEF CollectTypes, TypeInv, VarTypes
  <1>8. KnownTypes' = KnownTypes /\ Failures' = Failures
    BY <1>4 DEF KnownTypes, Failures
  <1>9. VarTypes'
    BY <1>4, <1>5, <1>6, <1>7, <1>8 DEF TypeInv, VarTypes
  <1>10. ReaderInv'
    BY <1>4, <1>7 DEF TypeInv, ReaderInv, Collecting
  <1>11. QED
    BY <1>9, <1>10 DEF TypeInv

LEMMA NextPassKeepsTypes ==
    ASSUME TypeInv, NEW t \in Threads, NextPass(t)
    PROVE  TypeInv'
  <1>1. 1 \in DOMAIN debug
    <2>1. reader[t] \in DOMAIN debug /\ debug \in Contents
      BY DEF NextPass, TypeInv, VarTypes, ReaderInv, Collecting
    <2>2. QED
      BY <2>1, DebugFacts
  <1>2. /\ pass' = [pass EXCEPT ![t] = 1]
        /\ reader' = [reader EXCEPT ![t] = 1]
        /\ pc' = [pc EXCEPT ![t] = "index"]
        /\ UNCHANGED <<debug, table, tableBy, index, indexBy, query, raws, failures, asked>>
    BY DEF NextPass, shared
  <1>3. KnownTypes' = KnownTypes /\ Failures' = Failures
    BY <1>2 DEF KnownTypes, Failures
  <1>4. /\ pass \in [Threads -> Passes] /\ reader \in [Threads -> Nat]
        /\ pc \in [Threads -> Places]
    BY DEF TypeInv, VarTypes
  <1>5. /\ pass' \in [Threads -> Passes] /\ reader' \in [Threads -> Nat]
        /\ pc' \in [Threads -> Places]
        /\ \A u \in Threads : u # t => reader'[u] = reader[u] /\ pc'[u] = pc[u]
        /\ reader'[t] = 1
    <2>1. pass' \in [Threads -> Passes]
      BY <1>2, <1>4 DEF Passes
    <2>2. /\ reader' \in [Threads -> Nat] /\ reader'[t] = 1
          /\ \A u \in Threads : u # t => reader'[u] = reader[u]
      BY <1>2, <1>4
    <2>3. "index" \in Places
      BY DEF Places
    <2>4. /\ pc' \in [Threads -> Places]
          /\ \A u \in Threads : u # t => pc'[u] = pc[u]
      BY <1>2, <1>4, <2>3
    <2>5. QED
      BY <2>1, <2>2, <2>4
  <1>6. VarTypes'
    BY <1>2, <1>3, <1>5 DEF TypeInv, VarTypes
  <1>7. ReaderInv'
    BY <1>1, <1>2, <1>5 DEF TypeInv, ReaderInv, Collecting
  <1>8. QED
    BY <1>6, <1>7 DEF TypeInv

LEMMA AskedFacts ==
    ASSUME asked \in [Threads -> 0..MaxQueries], NEW t \in Threads, asked[t] < MaxQueries
    PROVE  [asked EXCEPT ![t] = @ + 1] \in [Threads -> 0..MaxQueries]
  BY SessionAssumption

(* The step of a thread, one action at a time.                             *)
LEMMA TypeInvStep ==
    ASSUME TypeInv, NEW t \in Threads, Ask(t) \/ Proceeds(t) \/ Panics(t)
    PROVE  TypeInv'
  <1> USE DEF TypeInv, VarTypes, ReaderInv, Collecting, Places, Passes
  <1>0. /\ DOMAIN debug = 1..Len(debug) /\ Len(debug) \in Nat
        /\ debug # <<>> => 1 \in DOMAIN debug
    BY DebugFacts
  <1>k. debug' = debug => KnownTypes' = KnownTypes /\ Failures' = Failures
    BY DEF KnownTypes, Failures
  <1>r. ASSUME NEW status, NEW result, Returns(t, status, result), UNCHANGED <<table, index>>,
               tableBy' \in Threads \cup {Nobody},
               indexBy' \in [DOMAIN debug -> Threads \cup {Nobody}]
        PROVE  TypeInv'
    BY <1>r, <1>k DEF Returns
  <1>1. CASE Ask(t)
    <2>2. PICK q \in Queries :
             /\ query' = [query EXCEPT ![t] = q]
             /\ pc' = [pc EXCEPT ![t] = IF q.kind # "layout" THEN "table"
                                        ELSE IF debug = <<>> THEN "noDebugInfo" ELSE "index"]
      BY <1>1 DEF Ask
    <2>3. asked' \in [Threads -> 0..MaxQueries]
      BY <1>1, AskedFacts DEF Ask
    <2>4. QED
      BY <1>0, <1>1, <1>k, <2>2, <2>3 DEF Ask, shared
  <1>2. CASE NoDebugInfo(t)
    BY <1>2, <1>r DEF NoDebugInfo, shared
  <1>3. CASE BuildTable(t)
    BY <1>3, <1>k DEF BuildTable
  <1>4. CASE TableBuilt(t)
    BY <1>4, <1>k DEF TableBuilt
  <1>5. CASE UseTable(t)
    BY <1>5, <1>r DEF UseTable, shared
  <1>6. CASE BuildIndex(t)
    BY <1>6, <1>k DEF BuildIndex
  <1>7. CASE IndexBuilt(t)
    <2>1. debug[reader[t]].index \in {"ok", "error"}
      BY ReaderIndex, <1>7 DEF IndexBuilt
    <2>2. QED
      BY <1>7, <1>k, <2>1 DEF IndexBuilt
  <1>8. CASE CollectTypes(t)
    BY <1>8, CollectTypesKeepsTypes
  <1>9. CASE NextPass(t)
    BY <1>9, NextPassKeepsTypes
  <1>10. CASE LayoutsComputed(t)
    BY <1>10, <1>r DEF LayoutsComputed, shared
  <1>11. CASE BuildingTablePanics(t)
    BY <1>11, <1>r DEF BuildingTablePanics
  <1>12. CASE UsingTablePanics(t)
    BY <1>12, <1>r DEF UsingTablePanics, shared
  <1>13. CASE BuildingIndexPanics(t)
    BY <1>13, <1>r DEF BuildingIndexPanics
  <1>14. CASE LayoutPanics(t)
    BY <1>14, <1>r DEF LayoutPanics, shared
  <1>15. QED
    BY <1>1, <1>2, <1>3, <1>4, <1>5, <1>6, <1>7, <1>8, <1>9, <1>10, <1>11, <1>12, <1>13, <1>14
    DEF Proceeds, Panics

LEMMA TypeInvHolds == Spec => []TypeInv
  <1>1. Init => TypeInv
    <2> SUFFICES ASSUME Init PROVE TypeInv
      OBVIOUS
    <2>1. debug \in Contents
      BY DEF Init
    <2>2. index \in [DOMAIN debug -> {"unset", "ok", "error"}]
      BY <2>1, ReaderIndex DEF Init
    <2>3. query \in [Threads -> Queries] /\ asked \in [Threads -> 0..MaxQueries]
      BY SessionAssumption DEF Init
    <2>4. QED
      BY <2>1, <2>2, <2>3 DEF Init, TypeInv, VarTypes, ReaderInv, Collecting, Places, Passes
  <1>2. TypeInv /\ [Next]_vars => TypeInv'
    <2> SUFFICES ASSUME TypeInv, [Next]_vars PROVE TypeInv'
      OBVIOUS
    <2>1. CASE UNCHANGED vars
      <3>1. KnownTypes' = KnownTypes /\ Failures' = Failures
        BY <2>1 DEF vars, KnownTypes, Failures
      <3>2. QED
        BY <2>1, <3>1 DEF vars, shared, TypeInv, VarTypes, ReaderInv, Collecting
    <2>2. QED
      BY <2>1, TypeInvStep DEF Next, Finished
  <1>3. QED
    BY <1>1, <1>2, PTL DEF Spec

(* A session's variables keep their types.                                 *)
THEOREM SessionTypeCorrect == Spec => []TypeOK
  <1>1. TypeInv => TypeOK
    BY DEF TypeInv, VarTypes, ReaderInv, TypeOK
  <1>2. QED
    BY <1>1, TypeInvHolds, PTL

-----------------------------------------------------------------------------
(* The cells.                                                              *)
CellInv == OneBuilder /\ IndexInv

LEMMA CellInvStep ==
    ASSUME TypeInv, CellInv, NEW t \in Threads, Ask(t) \/ Proceeds(t) \/ Panics(t)
    PROVE  /\ CellInv'
           /\ table # "unset" => table' = table
           /\ \A r \in DOMAIN debug : index[r] # "unset" => index'[r] = index[r]
  <1> USE DEF CellInv, OneBuilder, IndexInv
  <1>0. /\ Nobody \notin Threads
        /\ indexBy \in [DOMAIN debug -> Threads \cup {Nobody}]
        /\ index \in [DOMAIN debug -> {"unset", "ok", "error"}]
        /\ pc \in [Threads -> Places]
        /\ reader \in [Threads -> Nat]
        /\ pc[t] \in {"index", "buildIndex", "endOfPass"} => reader[t] \in DOMAIN debug
    BY SessionAssumption DEF TypeInv, VarTypes, ReaderInv, Collecting
  <1>1. CASE Ask(t)
    <2>1. /\ pc[t] = "idle"
          /\ pc' \in {[pc EXCEPT ![t] = place] : place \in {"table", "noDebugInfo", "index"}}
          /\ reader' = [reader EXCEPT ![t] = 1]
          /\ UNCHANGED <<debug, table, tableBy, index, indexBy>>
      BY <1>1 DEF Ask, shared
    <2>2. QED
      BY <1>0, <2>1
  <1>2. ASSUME pc[t] \notin {"buildTable", "buildIndex"}, pc' = [pc EXCEPT ![t] = "idle"],
               UNCHANGED <<debug, table, tableBy, index, indexBy, reader>>
        PROVE  CellInv'
    BY <1>0, <1>2
  <1>3. CASE NoDebugInfo(t) \/ UseTable(t) \/ UsingTablePanics(t) \/ LayoutPanics(t)
             \/ LayoutsComputed(t)
    BY <1>2, <1>3
    DEF NoDebugInfo, UseTable, UsingTablePanics, LayoutPanics, LayoutsComputed, Returns, shared
  <1>4. CASE BuildTable(t)
    BY <1>0, <1>4 DEF BuildTable
  <1>5. CASE TableBuilt(t)
    BY <1>0, <1>5 DEF TableBuilt
  <1>6. CASE BuildingTablePanics(t)
    BY <1>0, <1>6 DEF BuildingTablePanics, Returns
  <1>7. CASE BuildIndex(t)
    BY <1>0, <1>7 DEF BuildIndex
  <1>8. CASE IndexBuilt(t)
    BY <1>0, <1>8 DEF IndexBuilt
  <1>9. CASE BuildingIndexPanics(t)
    BY <1>0, <1>9 DEF BuildingIndexPanics, Returns
  <1>10. CASE CollectTypes(t)
    <2>1. /\ pc[t] = "index"
          /\ pc' = pc \/ pc' = [pc EXCEPT ![t] = "endOfPass"]
          /\ reader' = reader \/ reader' = [reader EXCEPT ![t] = @ + 1]
          /\ UNCHANGED <<debug, table, tableBy, index, indexBy>>
      BY <1>10 DEF CollectTypes, NextReader, shared
    <2>2. QED
      BY <1>0, <2>1
  <1>11. CASE NextPass(t)
    BY <1>0, <1>11 DEF NextPass, shared
  <1>12. QED
    BY <1>1, <1>3, <1>4, <1>5, <1>6, <1>7, <1>8, <1>9, <1>10, <1>11 DEF Proceeds, Panics

LEMMA CellInvHolds == Spec => [](TypeInv /\ CellInv)
  <1>1. TypeInv /\ Init => CellInv
    BY SessionAssumption DEF Init, CellInv, OneBuilder, IndexInv
  <1>2. TypeInv /\ CellInv /\ [Next]_vars => CellInv'
    <2>1. CellInv /\ UNCHANGED vars => CellInv'
      BY DEF vars, shared, CellInv, OneBuilder, IndexInv
    <2>2. QED
      BY <2>1, CellInvStep DEF Next, Finished
  <1>3. QED
    BY <1>1, <1>2, TypeInvHolds, PTL DEF Spec

(* Each cell has at most one builder, which is building it, and only while  *)
(* the cell is empty: nobody waits for a builder that has panicked.         *)
THEOREM SessionOneBuilder == Spec => []OneBuilder
  <1>1. CellInv => OneBuilder
    BY DEF CellInv
  <1>2. QED
    BY <1>1, CellInvHolds, PTL

(* What a session has computed it keeps.                                   *)
THEOREM SessionCellsStick == Spec => CellsStick
  <1>1. TypeInv /\ CellInv /\ [Next]_vars =>
            [/\ table # "unset" => table' = table
             /\ \A r \in DOMAIN debug : index[r] # "unset" => index'[r] = index[r]]_vars
    BY CellInvStep DEF Next, Finished
  <1>2. QED
    BY <1>1, CellInvHolds, PTL DEF Spec, CellsStick

-----------------------------------------------------------------------------
(* The answers.                                                            *)
LEMMA FoundInNone ==
    ASSUME NEW readers, NEW wanted, NEW p
    PROVE  FoundIn(readers, {}, wanted, p) = {}
  BY DEF FoundIn

\* A reader more: what it finds is added, unless it fails.
LEMMA FoundInMore ==
    ASSUME NEW readers, NEW some, NEW r, NEW wanted, NEW p, NEW more, more = some \cup {r}
    PROVE  /\ r \in FailingReaders(readers, wanted, p) =>
                FoundIn(readers, more, wanted, p) = FoundIn(readers, some, wanted, p)
           /\ r \notin FailingReaders(readers, wanted, p) =>
                FoundIn(readers, more, wanted, p) =
                  FoundIn(readers, some, wanted, p) \cup FindTypes(readers[r].types, wanted, p)
  <1> DEFINE bad      == FailingReaders(readers, wanted, p)
             found(i) == FindTypes(readers[i].types, wanted, p)
  <1> HIDE DEF bad, found
  <1>1. UNION {found(i) : i \in (some \cup {r}) \ bad} =
          IF r \in bad THEN UNION {found(i) : i \in some \ bad}
                       ELSE (UNION {found(i) : i \in some \ bad}) \cup found(r)
    <2>1. CASE r \in bad
      <3>1. (some \cup {r}) \ bad = some \ bad
        BY <2>1
      <3>2. QED
        BY <2>1, <3>1
    <2>2. CASE r \notin bad
      <3>1. (some \cup {r}) \ bad = (some \ bad) \cup {r}
        BY <2>2
      <3>2. {found(i) : i \in (some \ bad) \cup {r}} = {found(i) : i \in some \ bad} \cup {found(r)}
        OBVIOUS
      <3> DEFINE few  == {found(i) : i \in some \ bad}
                 many == {found(i) : i \in (some \ bad) \cup {r}}
      <3>3. UNION many = (UNION few) \cup found(r)
        <4>1. many = few \cup {found(r)}
          BY <3>2
        <4> HIDE DEF few, many
        <4>2. QED
          BY <4>1
      <3>4. QED
        BY <2>2, <3>1, <3>3
    <2>3. QED
      BY <2>1, <2>2
  <1>2. QED
    BY <1>1 DEF FoundIn, bad, found

LEMMA OthersStay ==
    ASSUME NEW u \in Threads, PlaceOf(u), debug' = debug,
           pc'[u] = pc[u], query'[u] = query[u], pass'[u] = pass[u], reader'[u] = reader[u],
           raws'[u] = raws[u], failures'[u] = failures[u]
    PROVE  PlaceOf(u)'
  <1>1. Visited(u)' = Visited(u)
    BY DEF Visited
  <1>2. Collected(u) => Collected(u)'
    BY <1>1 DEF Collected
  <1>3. QED
    BY <1>2 DEF PlaceOf, Collecting

\* A step inside a pass that fills an index or waits for one.
LEMMA IndexStepStays ==
    ASSUME NEW u \in Threads, PlaceOf(u), debug' = debug,
           pc[u] \in {"index", "buildIndex"}, pc'[u] \in {"index", "buildIndex"},
           query'[u] = query[u], pass'[u] = pass[u], reader'[u] = reader[u],
           raws'[u] = raws[u], failures'[u] = failures[u]
    PROVE  PlaceOf(u)'
  <1>1. Visited(u)' = Visited(u)
    BY DEF Visited
  <1>2. Collected(u) => Collected(u)'
    BY <1>1 DEF Collected
  <1>3. QED
    BY <1>2 DEF PlaceOf, Collecting

(* Only the types one reader after the other holds are collected.          *)
LEMMA CollectTypesCollects ==
    ASSUME TypeInv, CellInv, PlaceInv, NEW t \in Threads, CollectTypes(t)
    PROVE  PlaceOf(t)'
  <1> DEFINE r       == reader[t]
             wanted  == Wanted(query[t])
             p       == pass[t]
             bad     == FailingReaders(debug, wanted, p)
             failure == [reader |-> r, pass |-> p]
  <1>1. /\ Collected(t) /\ pc[t] = "index" /\ index[r] # "unset"
        /\ r \in DOMAIN debug /\ r \in 1..Len(debug) /\ DOMAIN debug = 1..Len(debug)
        /\ Len(debug) \in Nat /\ p \in Passes
    BY DebugFacts
    DEF CollectTypes, PlaceInv, PlaceOf, Collecting, TypeInv, VarTypes, ReaderInv
  <1>2. (index[r] = "error" \/ FindFails(debug[r].types, wanted, p)) <=> r \in bad
    BY <1>1 DEF CellInv, IndexInv, FailingReaders
  <1>3. /\ raws'[t] = IF r \in bad THEN raws[t]
                      ELSE raws[t] \cup FindTypes(debug[r].types, wanted, p)
        /\ failures'[t] = IF r \in bad THEN failures[t] \cup {failure} ELSE failures[t]
    BY <1>2 DEF CollectTypes, TypeInv, VarTypes
  <1>4. debug' = debug /\ query' = query /\ pass' = pass
    BY DEF CollectTypes
  <1>5. pc'[t] \in {"index", "endOfPass"} /\ Visited(t)' = Visited(t) \cup {r}
    <2>1. Visited(t) = 1..(r - 1)
      BY <1>1 DEF Visited
    <2>2. pc \in [Threads -> Places] /\ reader \in [Threads -> Nat]
      BY DEF TypeInv, VarTypes
    <2>3. CASE r < Len(debug)
      <3>1. reader'[t] = r + 1 /\ pc'[t] = "index"
        BY <1>1, <2>2, <2>3 DEF CollectTypes, NextReader
      <3>2. QED
        BY <1>1, <1>4, <2>1, <3>1 DEF Visited
    <2>4. CASE ~(r < Len(debug))
      <3>1. pc'[t] = "endOfPass"
        BY <1>1, <2>2, <2>4 DEF CollectTypes, NextReader
      <3>2. QED
        BY <1>1, <1>4, <2>1, <2>4, <3>1 DEF Visited
    <2>5. QED
      BY <2>3, <2>4
  <1>6. raws'[t] = FoundIn(debug, Visited(t) \cup {r}, wanted, p)
    <2>1. raws[t] = FoundIn(debug, Visited(t), wanted, p)
      BY <1>1 DEF Collected
    <2> DEFINE seen == Visited(t)
               now  == Visited(t) \cup {r}
    <2>0. now = seen \cup {r}
      OBVIOUS
    <2> HIDE DEF seen, now, r, wanted, p
    <2>2. /\ r \in bad => FoundIn(debug, now, wanted, p) = FoundIn(debug, seen, wanted, p)
          /\ r \notin bad => FoundIn(debug, now, wanted, p) =
                FoundIn(debug, seen, wanted, p) \cup FindTypes(debug[r].types, wanted, p)
      BY <2>0, FoundInMore DEF bad
    <2> HIDE DEF bad
    <2>3. QED
      BY <1>3, <2>1, <2>2 DEF seen, now
  <1>7. failures'[t] = {f \in FailedIn(debug, Passes, wanted) :
                            f.pass < p \/ (f.pass = p /\ f.reader \in Visited(t) \cup {r})}
    <2>1. failures[t] = {f \in FailedIn(debug, Passes, wanted) :
                            f.pass < p \/ (f.pass = p /\ f.reader \in Visited(t))}
      BY <1>1 DEF Collected
    <2>2. \A f \in FailedIn(debug, Passes, wanted) :
             f.pass = p /\ f.reader = r => f = failure /\ r \in bad
      BY DEF FailedIn
    <2>3. r \in bad => failure \in FailedIn(debug, Passes, wanted)
      BY <1>1 DEF FailedIn
    <2>4. failure.pass = p /\ failure.reader = r
      OBVIOUS
    <2> HIDE DEF r, wanted, p, bad, failure
    <2>5. CASE r \in bad
      BY <1>3, <2>1, <2>2, <2>3, <2>4, <2>5
    <2>6. CASE r \notin bad
      BY <1>3, <2>1, <2>2, <2>6
    <2>7. QED
      BY <2>5, <2>6
  <1>8. p = 1 => FoundIn(debug, DOMAIN debug, wanted, 0) = {}
    BY <1>1 DEF Collected
  <1>9. Collected(t)'
    BY <1>4, <1>5, <1>6, <1>7, <1>8 DEF Collected
  <1>10. QED
    BY <1>5, <1>9 DEF PlaceOf

(* The second pass starts over, for what the first one did not find.       *)
LEMMA NextPassStartsOver ==
    ASSUME TypeInv, PlaceInv, NEW t \in Threads, NextPass(t)
    PROVE  PlaceOf(t)'
  <1>1. /\ pc[t] = "endOfPass" /\ raws[t] = {} /\ pass[t] = 0
        /\ Collected(t) /\ Visited(t) = DOMAIN debug
        /\ DOMAIN debug = 1..Len(debug)
    BY DebugFacts DEF NextPass, PlaceInv, PlaceOf, Collecting, Visited, TypeInv, VarTypes
  <1>2. /\ pc'[t] = "index" /\ pass'[t] = 1 /\ reader'[t] = 1
        /\ UNCHANGED <<debug, query, raws, failures>>
    BY DEF NextPass, TypeInv, VarTypes
  <1>3. Visited(t)' = {}
    BY <1>1, <1>2 DEF Visited
  <1>4. FoundIn(debug, DOMAIN debug, Wanted(query[t]), 0) = {}
    BY <1>1 DEF Collected
  <1>5. FoundIn(debug, {}, Wanted(query[t]), 1) = {}
    BY FoundInNone
  <1>6. failures[t] = {f \in FailedIn(debug, Passes, Wanted(query[t])) : f.pass < 1}
    <2>1. \A f \in FailedIn(debug, Passes, Wanted(query[t])) :
             f.pass \in {0, 1} /\ f.reader \in DOMAIN debug
      BY DEF FailedIn, Passes
    <2>2. failures[t] = {f \in FailedIn(debug, Passes, Wanted(query[t])) :
                            f.pass < 0 \/ (f.pass = 0 /\ f.reader \in DOMAIN debug)}
      BY <1>1 DEF Collected
    <2>3. QED
      BY <2>1, <2>2
  <1>7. Collected(t)'
    BY <1>1, <1>2, <1>3, <1>4, <1>5, <1>6 DEF Collected
  <1>8. QED
    BY <1>2, <1>7 DEF PlaceOf

(* A layout query starts with nothing visited and nothing found.           *)
LEMMA AskStarts ==
    ASSUME TypeInv, NEW t \in Threads, Ask(t)
    PROVE  PlaceOf(t)'
  <1>1. PICK q \in Queries :
           /\ query' = [query EXCEPT ![t] = q]
           /\ pc' = [pc EXCEPT ![t] = IF q.kind # "layout" THEN "table"
                                      ELSE IF debug = <<>> THEN "noDebugInfo" ELSE "index"]
    BY DEF Ask
  <1>2. /\ query'[t] = q /\ debug' = debug
        /\ pass'[t] = 0 /\ reader'[t] = 1 /\ raws'[t] = {} /\ failures'[t] = {}
        /\ pc'[t] = IF q.kind # "layout" THEN "table"
                    ELSE IF debug = <<>> THEN "noDebugInfo" ELSE "index"
    BY <1>1 DEF Ask, TypeInv, VarTypes
  <1>3. CASE pc'[t] = "index"
    <2>1. Visited(t)' = {}
      <3>1. DOMAIN debug = 1..Len(debug)
        BY DebugFacts DEF TypeInv, VarTypes
      <3>2. QED
        BY <1>2, <1>3, <3>1 DEF Visited
    <2>2. FoundIn(debug, {}, Wanted(q), 0) = {}
      BY FoundInNone
    <2>3. {f \in FailedIn(debug, Passes, Wanted(q)) : f.pass < 0 \/ (f.pass = 0 /\ f.reader \in {})} = {}
      BY DEF FailedIn, Passes
    <2>4. Collected(t)'
      BY <1>2, <2>1, <2>2, <2>3 DEF Collected
    <2>5. QED
      BY <1>3, <2>4 DEF PlaceOf
  <1>4. CASE pc'[t] # "index"
    BY <1>2, <1>4 DEF PlaceOf, Collecting
  <1>5. QED
    BY <1>3, <1>4

(* Every thread stays where its query says, whoever takes a step.          *)
LEMMA PlaceInvStep ==
    ASSUME TypeInv, CellInv, PlaceInv, NEW t \in Threads, Ask(t) \/ Proceeds(t) \/ Panics(t)
    PROVE  PlaceInv'
  <1>0. /\ pc \in [Threads -> Places] /\ query \in [Threads -> Queries]
        /\ pass \in [Threads -> Passes] /\ reader \in [Threads -> Nat]
        /\ raws \in [Threads -> SUBSET KnownTypes]
        /\ failures \in [Threads -> SUBSET Failures]
        /\ asked \in [Threads -> 0..MaxQueries]
        /\ PlaceOf(t)
    BY DEF TypeInv, VarTypes, PlaceInv
  <1>1. /\ debug' = debug
        /\ \A u \in Threads : u # t =>
              /\ pc'[u] = pc[u] /\ query'[u] = query[u] /\ pass'[u] = pass[u]
              /\ reader'[u] = reader[u] /\ raws'[u] = raws[u] /\ failures'[u] = failures[u]
    <2>1. CASE Ask(t)
      BY <1>0, <2>1 DEF Ask
    <2>2. CASE CollectTypes(t)
      <3>1. /\ raws' = raws \/ \E x : raws' = [raws EXCEPT ![t] = x]
            /\ failures' = failures \/ \E x : failures' = [failures EXCEPT ![t] = x]
            /\ reader' = reader \/ \E x : reader' = [reader EXCEPT ![t] = x]
            /\ pc' = pc \/ \E x : pc' = [pc EXCEPT ![t] = x]
            /\ UNCHANGED <<debug, query, pass>>
        BY <2>2 DEF CollectTypes, NextReader
      <3>2. QED
        BY <1>0, <3>1
    <2>3. CASE NextPass(t)
      BY <1>0, <2>3 DEF NextPass
    <2>4. CASE BuildTable(t) \/ TableBuilt(t) \/ BuildIndex(t) \/ IndexBuilt(t)
      BY <1>0, <2>4 DEF BuildTable, TableBuilt, BuildIndex, IndexBuilt
    <2>5. CASE NoDebugInfo(t) \/ UseTable(t) \/ LayoutsComputed(t) \/ Panics(t)
      BY <1>0, <2>5
      DEF NoDebugInfo, UseTable, LayoutsComputed, Panics, BuildingTablePanics,
          UsingTablePanics, BuildingIndexPanics, LayoutPanics, Returns
    <2>6. QED
      BY <2>1, <2>2, <2>3, <2>4, <2>5 DEF Proceeds
  <1>2. \A u \in Threads : u # t => PlaceOf(u)'
    BY <1>1, OthersStay DEF PlaceInv
  <1>3. PlaceOf(t)'
    <2>1. CASE Ask(t)
      BY <2>1, AskStarts
    <2>2. CASE CollectTypes(t)
      BY <2>2, CollectTypesCollects
    <2>3. CASE NextPass(t)
      BY <2>3, NextPassStartsOver
    <2>4. CASE BuildTable(t) \/ TableBuilt(t)
      BY <1>0, <2>4 DEF BuildTable, TableBuilt, PlaceOf, Collecting
    <2>5. CASE BuildIndex(t) \/ IndexBuilt(t)
      <3>1. /\ pc[t] \in {"index", "buildIndex"} /\ pc'[t] \in {"index", "buildIndex"}
            /\ UNCHANGED <<debug, query, pass, reader, raws, failures>>
        BY <1>0, <2>5 DEF BuildIndex, IndexBuilt
      <3>2. QED
        BY <1>0, <3>1, IndexStepStays
    <2>6. CASE NoDebugInfo(t) \/ UseTable(t) \/ LayoutsComputed(t) \/ Panics(t)
      <3>1. pc'[t] = "idle"
        BY <1>0, <2>6
        DEF NoDebugInfo, UseTable, LayoutsComputed, Panics, BuildingTablePanics,
            UsingTablePanics, BuildingIndexPanics, LayoutPanics, Returns
      <3>2. QED
        BY <3>1 DEF PlaceOf, Collecting
    <2>7. QED
      BY <2>1, <2>2, <2>3, <2>4, <2>5, <2>6 DEF Proceeds
  <1>4. QED
    BY <1>2, <1>3 DEF PlaceInv

(* What struct_layout returns is what the binary says.                     *)
LEMMA LayoutsAnswerAlone ==
    ASSUME TypeInv, PlaceInv, NEW t \in Threads, LayoutsComputed(t)
    PROVE  Result(raws[t], failures[t]) = AnsweredAlone(debug, Wanted(query[t]))
  <1> DEFINE wanted   == Wanted(query[t])
             exact    == FoundIn(debug, DOMAIN debug, wanted, 0)
             trailing == FoundIn(debug, DOMAIN debug, wanted, 1)
  <1>1. /\ Collected(t) /\ Visited(t) = DOMAIN debug
        /\ raws[t] # {} \/ pass[t] = 1
        /\ pass[t] \in {0, 1}
    BY DEF LayoutsComputed, PlaceInv, PlaceOf, Collecting, Visited, TypeInv, VarTypes, Passes
  <1>2. AnsweredAlone(debug, wanted) =
          IF exact # {} THEN Result(exact, FailedIn(debug, {0}, wanted))
                        ELSE Result(trailing, FailedIn(debug, Passes, wanted))
    BY DEF AnsweredAlone
  <1>3. CASE pass[t] = 0
    <2>1. raws[t] = exact /\ exact # {}
      BY <1>1, <1>3 DEF Collected
    <2>2. failures[t] = FailedIn(debug, {0}, wanted)
      <3>1. failures[t] = {f \in FailedIn(debug, Passes, wanted) :
                              f.pass < 0 \/ (f.pass = 0 /\ f.reader \in DOMAIN debug)}
        BY <1>1, <1>3 DEF Collected
      <3>2. QED
        BY <3>1 DEF FailedIn, Passes
    <2>3. QED
      BY <1>2, <2>1, <2>2
  <1>4. CASE pass[t] = 1
    <2>1. raws[t] = trailing /\ exact = {}
      BY <1>1, <1>4 DEF Collected
    <2>2. failures[t] = FailedIn(debug, Passes, wanted)
      <3>1. failures[t] = {f \in FailedIn(debug, Passes, wanted) :
                              f.pass < 1 \/ (f.pass = 1 /\ f.reader \in DOMAIN debug)}
        BY <1>1, <1>4 DEF Collected
      <3>2. \A f \in FailedIn(debug, Passes, wanted) :
               f.pass \in {0, 1} /\ f.reader \in DOMAIN debug
        BY DEF FailedIn, Passes
      <3>3. QED
        BY <3>1, <3>2
    <2>3. QED
      BY <1>2, <2>1, <2>2
  <1>5. QED
    BY <1>1, <1>3, <1>4

LEMMA AnswerStep ==
    ASSUME TypeInv, PlaceInv, AnswersIdempotent, NEW t \in Threads,
           Ask(t) \/ Proceeds(t) \/ Panics(t)
    PROVE  AnswersIdempotent'
  <1>1. CASE answers' = answers /\ debug' = debug
    BY <1>1 DEF AnswersIdempotent
  <1>2. ASSUME NEW status, NEW result, Returns(t, status, result),
               \/ status # "ok"
               \/ query[t].kind # "layout"
               \/ debug = <<>>
               \/ result = AnsweredAlone(debug, Wanted(query[t]))
        PROVE  AnswersIdempotent'
    <2>1. answers' = answers \cup {Answer(query[t], status, result)} /\ debug' = debug
      BY <1>2 DEF Returns
    <2>2. QED
      BY <1>2, <2>1 DEF AnswersIdempotent, Answer
  <1>3. CASE NoDebugInfo(t)
    BY <1>2, <1>3 DEF NoDebugInfo, PlaceInv, PlaceOf
  <1>4. CASE UseTable(t)
    BY <1>2, <1>4 DEF UseTable, PlaceInv, PlaceOf
  <1>5. CASE LayoutsComputed(t)
    BY <1>2, <1>5, LayoutsAnswerAlone DEF LayoutsComputed
  <1>6. CASE Panics(t)
    BY <1>2, <1>6
    DEF Panics, BuildingTablePanics, UsingTablePanics, BuildingIndexPanics, LayoutPanics
  <1>7. CASE Ask(t) \/ BuildTable(t) \/ TableBuilt(t) \/ BuildIndex(t) \/ IndexBuilt(t)
             \/ CollectTypes(t) \/ NextPass(t)
    BY <1>1, <1>7 DEF Ask, BuildTable, TableBuilt, BuildIndex, IndexBuilt, CollectTypes, NextPass
  <1>8. QED
    BY <1>3, <1>4, <1>5, <1>6, <1>7 DEF Proceeds

(* Queries are idempotent: a layout query that returns says what the        *)
(* debug info holds, and nothing another thread did shows in the answer.    *)
THEOREM SessionAnswersIdempotent == Spec => []AnswersIdempotent
  <1>1. TypeInv /\ Init => PlaceInv /\ AnswersIdempotent
    BY DEF Init, PlaceInv, PlaceOf, Collecting, AnswersIdempotent
  <1>2. TypeInv /\ CellInv /\ PlaceInv /\ AnswersIdempotent /\ [Next]_vars
          => (PlaceInv /\ AnswersIdempotent)'
    <2> SUFFICES ASSUME TypeInv, CellInv, PlaceInv, AnswersIdempotent, [Next]_vars
                 PROVE  PlaceInv' /\ AnswersIdempotent'
      OBVIOUS
    <2>1. CASE UNCHANGED vars
      <3>1. PlaceInv'
        BY <2>1, OthersStay DEF vars, PlaceInv
      <3>2. AnswersIdempotent'
        BY <2>1 DEF vars, AnswersIdempotent
      <3>3. QED
        BY <3>1, <3>2
    <2>2. QED
      BY <2>1, PlaceInvStep, AnswerStep DEF Next, Finished
  <1>3. QED
    BY <1>1, <1>2, CellInvHolds, PTL DEF Spec

-----------------------------------------------------------------------------
(* From the answer to what was meant.                                      *)

\* Every answer is to a query that can be asked.
QueriesInv == \A a \in answers : a.query \in Queries

LEMMA QueriesStep ==
    ASSUME TypeInv, QueriesInv, NEW t \in Threads, Ask(t) \/ Proceeds(t) \/ Panics(t)
    PROVE  QueriesInv'
  <1>1. CASE answers' = answers
    BY <1>1 DEF QueriesInv
  <1>2. ASSUME NEW status, NEW result, Returns(t, status, result) PROVE QueriesInv'
    <2>1. query[t] \in Queries
      BY DEF TypeInv, VarTypes
    <2>2. QED
      BY <1>2, <2>1 DEF Returns, Answer, QueriesInv
  <1>3. CASE NoDebugInfo(t) \/ UseTable(t) \/ LayoutsComputed(t) \/ Panics(t)
    BY <1>2, <1>3
    DEF NoDebugInfo, UseTable, LayoutsComputed,
        Panics, BuildingTablePanics, UsingTablePanics, BuildingIndexPanics, LayoutPanics
  <1>4. CASE Ask(t) \/ BuildTable(t) \/ TableBuilt(t) \/ BuildIndex(t) \/ IndexBuilt(t)
             \/ CollectTypes(t) \/ NextPass(t)
    BY <1>1, <1>4 DEF Ask, BuildTable, TableBuilt, BuildIndex, IndexBuilt, CollectTypes, NextPass
  <1>5. QED
    BY <1>3, <1>4 DEF Proceeds

(* Where no reader fails, a pass finds the definitions that match, and finds *)
(* nothing only if nothing matches: a declaration that yields to a          *)
(* definition yields to one that matches as well.                           *)
LEMMA PassFindsMatching ==
    ASSUME debug \in Contents, NEW wanted, NEW p, FailingReaders(debug, wanted, p) = {}
    PROVE  LET found == FoundIn(debug, DOMAIN debug, wanted, p)
           IN  /\ Definitions(found) = Definitions(Matching(KnownTypes, wanted, p))
               /\ (found = {}) <=> (Matching(KnownTypes, wanted, p) = {})
  <1> DEFINE found    == FoundIn(debug, DOMAIN debug, wanted, p)
             matching == Matching(KnownTypes, wanted, p)
  <1>1. found = UNION {FindTypes(debug[r].types, wanted, p) : r \in DOMAIN debug}
    BY DEF FoundIn
  <1>2. \A t : t \in matching <=> \E r \in DOMAIN debug : t \in Matching(debug[r].types, wanted, p)
    BY DEF Matching, KnownTypes
  <1>3. found \subseteq matching
    BY <1>1, <1>2 DEF FindTypes
  <1>4. ASSUME NEW t \in matching, ~t.declaration PROVE t \in found
    BY <1>1, <1>2, <1>4 DEF FindTypes
  <1>5. ASSUME NEW t \in matching PROVE found # {}
    <2>1. PICK r \in DOMAIN debug : t \in Matching(debug[r].types, wanted, p)
      BY <1>2
    <2>2. CASE t \in FindTypes(debug[r].types, wanted, p)
      BY <1>1, <2>2
    <2>3. CASE t \notin FindTypes(debug[r].types, wanted, p)
      <3>1. PICK d \in Definitions(debug[r].types) : d.name = t.name
        BY <2>1, <2>3 DEF FindTypes
      <3>2. d \in Matching(debug[r].types, wanted, p) /\ ~d.declaration
        BY <2>1, <3>1 DEF Matching, Definitions
      <3>3. QED
        BY <1>2, <1>4, <3>2
    <2>4. QED
      BY <2>2, <2>3
  <1>6. Definitions(found) = Definitions(matching)
    BY <1>3, <1>4 DEF Definitions
  <1>7. QED
    BY <1>3, <1>5, <1>6

(* Names compare as what they denote.                                      *)
LEMMA MatchingIsMeant ==
    ASSUME SpellingsAgree, debug \in Contents, NEW q \in Queries
    PROVE  /\ Matching(KnownTypes, Wanted(q), 0) = {t \in KnownTypes : Denotes[t.name] = Denotes[q.name]}
           /\ Matching(KnownTypes, Wanted(q), 1) =
                 {t \in KnownTypes : DenotesNested(t.name, q.name)}
  <1>1. q.name \in Names /\ \A t \in KnownTypes : t.name \in Names
    BY DEF Names, KnownTypes
  <1>2. ASSUME NEW t \in KnownTypes
        PROVE  /\ (Normal[t.name] = Normal[q.name]) <=> (Denotes[t.name] = Denotes[q.name])
               /\ EndsWith(Normal[t.name], Normal[q.name]) <=> DenotesNested(t.name, q.name)
    BY <1>1 DEF SpellingsAgree
  <1>3. QED
    BY <1>2 DEF Matching, Wanted

LEMMA AloneFindsWhatIsMeant ==
    ASSUME SpellingsAgree, debug \in Contents, NEW q \in Queries,
           AnsweredAlone(debug, Wanted(q)).failures = {}
    PROVE  AnsweredAlone(debug, Wanted(q)).matches = Layouts(Meant(KnownTypes, q.name))
  <1> DEFINE wanted   == Wanted(q)
             exact    == FoundIn(debug, DOMAIN debug, wanted, 0)
             trailing == FoundIn(debug, DOMAIN debug, wanted, 1)
             denoted  == {t \in KnownTypes : Denotes[t.name] = Denotes[q.name]}
             nested   == {t \in KnownTypes : DenotesNested(t.name, q.name)}
  <1>1. AnsweredAlone(debug, wanted) =
          IF exact # {} THEN Result(exact, FailedIn(debug, {0}, wanted))
                        ELSE Result(trailing, FailedIn(debug, Passes, wanted))
    BY DEF AnsweredAlone
  <1>2. \A passes, p : FailedIn(debug, passes, wanted) = {} /\ p \in passes
                        => FailingReaders(debug, wanted, p) = {}
    <2> SUFFICES ASSUME NEW passes, NEW p \in passes, FailedIn(debug, passes, wanted) = {},
                        NEW r \in FailingReaders(debug, wanted, p)
                 PROVE  FALSE
      OBVIOUS
    <2>1. [reader |-> r, pass |-> p] \in FailedIn(debug, passes, wanted)
      BY DEF FailedIn, FailingReaders
    <2>2. QED
      BY <2>1
  <1>3. Meant(KnownTypes, q.name) = Definitions(IF denoted # {} THEN denoted ELSE nested)
    BY DEF Meant
  <1>4. \A found, failed : /\ Result(found, failed).failures = failed
                           /\ Result(found, failed).matches = Layouts(found)
    BY DEF Result
  <1>5. \A S, T : Definitions(S) = Definitions(T) => Layouts(S) = Layouts(Definitions(T))
    BY DEF Layouts, Definitions
  <1>6. Matching(KnownTypes, wanted, 0) = denoted /\ Matching(KnownTypes, wanted, 1) = nested
    BY MatchingIsMeant
  <1>7. CASE exact # {}
    <2>1. FailingReaders(debug, wanted, 0) = {}
      BY <1>1, <1>2, <1>4, <1>7
    <2>2. denoted # {} /\ Definitions(exact) = Definitions(denoted)
      BY <1>6, <1>7, <2>1, PassFindsMatching
    <2>3. QED
      BY <1>1, <1>3, <1>4, <1>5, <1>7, <2>2
  <1>8. CASE exact = {}
    <2>1. FailingReaders(debug, wanted, 0) = {} /\ FailingReaders(debug, wanted, 1) = {}
      BY <1>1, <1>2, <1>4, <1>8 DEF Passes
    <2>2. denoted = {} /\ Definitions(trailing) = Definitions(nested)
      BY <1>6, <1>8, <2>1, PassFindsMatching
    <2>3. QED
      BY <1>1, <1>3, <1>4, <1>5, <1>8, <2>2
  <1>9. QED
    BY <1>7, <1>8

(* Where the table of words does what it is for, a layout query finds the   *)
(* types that its name means in every reader that could be read, and no     *)
(* others: neither the passes, nor declarations, nor other threads lose or  *)
(* add any.                                                                *)
THEOREM SessionFindsWhatIsMeant == ASSUME SpellingsAgree PROVE Spec => []FindsWhatIsMeant
  <1>1. Init => QueriesInv
    BY DEF Init, QueriesInv
  <1>2. TypeInv /\ QueriesInv /\ [Next]_vars => QueriesInv'
    <2> SUFFICES ASSUME TypeInv, QueriesInv, [Next]_vars PROVE QueriesInv'
      OBVIOUS
    <2>1. CASE UNCHANGED vars
      BY <2>1 DEF vars, QueriesInv
    <2>2. QED
      BY <2>1, QueriesStep DEF Next, Finished
  <1>3. TypeInv /\ QueriesInv /\ AnswersIdempotent => FindsWhatIsMeant
    <2> SUFFICES ASSUME TypeInv, QueriesInv, AnswersIdempotent PROVE FindsWhatIsMeant
      OBVIOUS
    <2>1. debug \in Contents
      BY DEF TypeInv, VarTypes
    <2>2. ASSUME NEW a \in answers, a.status = "ok", a.query.kind = "layout", debug # <<>>,
                 a.result.failures = {}
          PROVE  a.result.matches = Layouts(Meant(KnownTypes, a.query.name))
      <3>1. a.result = AnsweredAlone(debug, Wanted(a.query))
        BY <2>2 DEF AnswersIdempotent
      <3>2. a.query \in Queries
        BY DEF QueriesInv
      <3>3. QED
        BY <2>1, <2>2, <3>1, <3>2, AloneFindsWhatIsMeant
    <2>3. QED
      BY <2>2 DEF FindsWhatIsMeant
  <1>4. QED
    BY <1>1, <1>2, <1>3, TypeInvHolds, SessionAnswersIdempotent, PTL DEF Spec

=============================================================================
