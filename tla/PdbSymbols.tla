------------------------------ MODULE PdbSymbols ------------------------------
(***************************************************************************)
(* The symbols of a PE image, which has none itself, from its PDB: public  *)
(* records give names and addresses, procedure records of the modules give *)
(* sizes, and names to what has no public (PdbReader::symbols).            *)
(*                                                                         *)
(* Records are read one at a time.  A place is a section and an offset;    *)
(* whether and where it is in the image is the address map's business      *)
(* (external).                                                             *)
(***************************************************************************)
EXTENDS Extents

CONSTANTS Places, \* sections with offsets, as records name them
          Pdbs    \* [modules, globals, rva, imageBase, ...]; a module is a sequence
                  \* of records or None, and rva maps places to addresses or None

\* Iterating over a stream fails at a "broken" record.
IsStream(stream) ==
    /\ Len(stream) \in Nat /\ DOMAIN stream = 1..Len(stream)
    /\ \A k \in DOMAIN stream :
          /\ stream[k].is \in {"procedure", "public"} => stream[k].place \in Places
          /\ stream[k].is = "procedure" => stream[k].length \in Nat

ASSUME PdbAssumption ==
    \A file \in Pdbs :
        /\ Len(file.modules) \in Nat /\ DOMAIN file.modules = 1..Len(file.modules)
        /\ \A m \in DOMAIN file.modules : file.modules[m] = None \/ IsStream(file.modules[m])
        /\ file.globals # None /\ IsStream(file.globals)
        /\ DOMAIN file.rva = Places

VARIABLES pdb,        \* the file
          stage,      \* "modules", "globals", "symbols" or "failed"
          module, at, \* the record that is read next
          procedures, \* the first record of each place: place :> [name, length, global]
          covered,    \* places with a public
          symbols     \* the answer

symbolVars == <<pdb, stage, module, at, procedures, covered, symbols>>

SymbolInit ==
    /\ pdb \in Pdbs
    /\ stage = "modules" /\ module = 1 /\ at = 1
    /\ procedures = <<>> /\ covered = {} /\ symbols = {}

\* u64 arithmetic that the code does not check.
Wrap(n) == n % (MaxAddress + 1)

Address(place) == IF pdb.rva[place] = None THEN None ELSE Wrap(pdb.imageBase + pdb.rva[place])

\* A size of zero is none (0).
Symbol(name, place, length, function, global, stream, k) ==
    [name |-> name, place |-> place, address |-> Address(place), size |-> length,
     function |-> function, global |-> global, stream |-> stream, at |-> k]

-----------------------------------------------------------------------------
ReadingModules == stage = "modules" /\ module \in DOMAIN pdb.modules

\* A module without symbols of its own is no error.
SkipModule ==
    /\ ReadingModules
    /\ pdb.modules[module] = None \/ (pdb.modules[module] # None /\ at > Len(pdb.modules[module]))
    /\ module' = module + 1 /\ at' = 1
    /\ UNCHANGED <<pdb, stage, procedures, covered, symbols>>

\* The last record of a place counts.
FaultyReadModule ==
    /\ ReadingModules /\ pdb.modules[module] # None /\ at <= Len(pdb.modules[module])
    /\ LET record == pdb.modules[module][at]
       IN /\ record.is # "broken"
          /\ procedures' = IF record.is # "procedure" THEN procedures
                           ELSE [place \in DOMAIN procedures \cup {record.place} |->
                                    IF place = record.place THEN <<module, at>> ELSE procedures[place]]
    /\ at' = at + 1
    /\ UNCHANGED <<pdb, stage, module, covered, symbols>>

\* Of several procedures at one place (folded functions) the first is kept.
ReadModule ==
    /\ ReadingModules /\ pdb.modules[module] # None /\ at <= Len(pdb.modules[module])
    /\ LET record == pdb.modules[module][at]
       IN /\ record.is # "broken"
          /\ procedures' = IF record.is # "procedure" \/ record.place \in DOMAIN procedures
                           THEN procedures
                           ELSE [place \in DOMAIN procedures \cup {record.place} |->
                                    IF place = record.place THEN <<module, at>> ELSE procedures[place]]
    /\ at' = at + 1
    /\ UNCHANGED <<pdb, stage, module, covered, symbols>>

ModulesRead ==
    /\ stage = "modules" /\ module \notin DOMAIN pdb.modules
    /\ stage' = "globals" /\ at' = 1
    /\ UNCHANGED <<pdb, module, procedures, covered, symbols>>

Procedure(place) == pdb.modules[procedures[place][1]][procedures[place][2]]

Length(place) == IF place \in DOMAIN procedures THEN Procedure(place).length ELSE 0

\* A public covers its place, so that its procedure is not named a second time.
ReadGlobal ==
    /\ stage = "globals" /\ at \in DOMAIN pdb.globals
    /\ LET record == pdb.globals[at]
       IN /\ record.is # "broken"
          /\ IF record.is = "public" /\ Address(record.place) # None
             THEN /\ covered' = covered \cup {record.place}
                  /\ symbols' = symbols \cup
                       {Symbol(record.name, record.place, Length(record.place),
                               record.function, TRUE, 0, at)}
             ELSE UNCHANGED <<covered, symbols>>
    /\ at' = at + 1
    /\ UNCHANGED <<pdb, stage, module, procedures>>

\* What has no public is a static function, or one that the linker was not told to publish.
NameStatics ==
    /\ stage = "globals" /\ at \notin DOMAIN pdb.globals
    /\ symbols' = symbols \cup
         {Symbol(Procedure(place).name, place, Procedure(place).length, TRUE,
                 Procedure(place).global, procedures[place][1], procedures[place][2]) :
             place \in {p \in DOMAIN procedures \ covered : Address(p) # None}}
    /\ stage' = "symbols"
    /\ UNCHANGED <<pdb, module, at, procedures, covered>>

\* One stream that cannot be read to its end fails the whole answer.
ReadingFails ==
    /\ \/ /\ ReadingModules /\ pdb.modules[module] # None /\ at <= Len(pdb.modules[module])
          /\ pdb.modules[module][at].is = "broken"
       \/ /\ stage = "globals" /\ at \in DOMAIN pdb.globals
          /\ pdb.globals[at].is = "broken"
    /\ stage' = "failed" /\ symbols' = {}
    /\ UNCHANGED <<pdb, module, at, procedures, covered>>

SymbolStep == SkipModule \/ ReadModule \/ ModulesRead \/ ReadGlobal \/ NameStatics \/ ReadingFails

SymbolsDone == stage \in {"symbols", "failed"} /\ UNCHANGED symbolVars

SymbolSpec == SymbolInit /\ [][SymbolStep \/ SymbolsDone]_symbolVars

-----------------------------------------------------------------------------
(* What is checked.                                                        *)
Records(is) ==
    {r \in UNION {{m} \X DOMAIN pdb.modules[m] :
                     m \in {m \in DOMAIN pdb.modules : pdb.modules[m] # None}} :
        pdb.modules[r[1]][r[2]].is = is}

ProcedurePlaces == {pdb.modules[r[1]][r[2]].place : r \in Records("procedure")}

Publics == {k \in DOMAIN pdb.globals : pdb.globals[k].is = "public"}

\* All code and data with a name is in the answer, at its address in the image, and what
\* is not in the image is not: each public under its own name, a procedure under its own
\* only if its place has no public, and then once, however many were folded into it.
\* Symbols of one place all have the size of the place's first procedure.
EveryCodeNamed ==
    stage = "symbols" =>
        /\ {s.at : s \in {s \in symbols : s.stream = 0}}
               = {k \in Publics : Address(pdb.globals[k].place) # None}
        /\ {s.place : s \in {s \in symbols : s.stream # 0}}
               = {p \in ProcedurePlaces : Address(p) # None} \ {pdb.globals[k].place : k \in Publics}
        /\ \A s, t \in symbols : s.stream # 0 /\ t.stream # 0 /\ s.place = t.place => s = t
        /\ \A s \in symbols :
              /\ s.address = Address(s.place) /\ s.address # None
              /\ s.place \notin ProcedurePlaces => s.size = 0
              /\ s.place \in ProcedurePlaces =>
                    \E first \in Records("procedure") :
                        /\ pdb.modules[first[1]][first[2]].place = s.place
                        /\ pdb.modules[first[1]][first[2]].length = s.size
                        /\ \A r \in Records("procedure") :
                              pdb.modules[r[1]][r[2]].place = s.place =>
                                  first[1] < r[1] \/ (first[1] = r[1] /\ first[2] <= r[2])
=============================================================================
