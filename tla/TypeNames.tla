----------------------------- MODULE TypeNames -----------------------------
(***************************************************************************)
(* How libstratum-lang-cpp spells the names of types, so that the          *)
(* spellings of Clang, GCC and MSVC compare equal.  A name is the sequence *)
(* of its words and punctuation marks; white space only separates them and *)
(* is gone.  "::", which the code takes as two marks, is one here.         *)
(***************************************************************************)
EXTENDS Naturals, Sequences, FiniteSets

LOCAL INSTANCE SequencesExt

KEYWORDS ==
    {"unsigned", "signed", "short", "long", "int", "__int16", "__int32", "__int64"}

\* Runs of key words, in any order, and the run that replaces them.
CANONICAL ==
    {[words |-> <<"unsigned", "long", "long", "int">>, spelling |-> <<"unsigned", "long", "long">>],
     [words |-> <<"unsigned", "long", "long">>, spelling |-> <<"unsigned", "long", "long">>],
     [words |-> <<"signed", "long", "long", "int">>, spelling |-> <<"long", "long">>],
     [words |-> <<"long", "long", "int">>, spelling |-> <<"long", "long">>],
     [words |-> <<"signed", "long", "long">>, spelling |-> <<"long", "long">>],
     [words |-> <<"unsigned", "__int64">>, spelling |-> <<"unsigned", "long", "long">>],
     [words |-> <<"__int64">>, spelling |-> <<"long", "long">>],
     [words |-> <<"unsigned", "long", "int">>, spelling |-> <<"unsigned", "long">>],
     [words |-> <<"signed", "long", "int">>, spelling |-> <<"long">>],
     [words |-> <<"long", "int">>, spelling |-> <<"long">>],
     [words |-> <<"signed", "long">>, spelling |-> <<"long">>],
     [words |-> <<"unsigned", "short", "int">>, spelling |-> <<"unsigned", "short">>],
     [words |-> <<"signed", "short", "int">>, spelling |-> <<"short">>],
     [words |-> <<"short", "int">>, spelling |-> <<"short">>],
     [words |-> <<"signed", "short">>, spelling |-> <<"short">>],
     [words |-> <<"unsigned", "__int32">>, spelling |-> <<"unsigned", "int">>],
     [words |-> <<"__int32">>, spelling |-> <<"int">>],
     [words |-> <<"unsigned", "__int16">>, spelling |-> <<"unsigned", "short">>],
     [words |-> <<"__int16">>, spelling |-> <<"short">>],
     [words |-> <<"unsigned">>, spelling |-> <<"unsigned", "int">>],
     [words |-> <<"signed", "int">>, spelling |-> <<"int">>],
     [words |-> <<"signed">>, spelling |-> <<"int">>]}

Words(run) == [word \in KEYWORDS |-> Cardinality({i \in DOMAIN run : run[i] = word})]

Listed == {Words(entry.words) : entry \in CANONICAL}
Spelling ==
    [words \in Listed |-> (CHOOSE entry \in CANONICAL : Words(entry.words) = words).spelling]

\* Words are compared in the order they are written in.
FaultyCanonical(run) ==
    IF \E entry \in CANONICAL : entry.words = run THEN Spelling[Words(run)] ELSE run

Canonical(run) == IF Words(run) \in Listed THEN Spelling[Words(run)] ELSE run

\* The maximal run of words of a set that starts at a position.
StartsRun(name, words, i) == name[i] \in words /\ (i > 1 => name[i - 1] \notin words)

RunFrom(name, words, i) ==
    SubSeq(name, i, CHOOSE j \in i..Len(name) :
                        /\ \A k \in i..j : name[k] \in words
                        /\ j < Len(name) => name[j + 1] \notin words)

Normalize(name) ==
    FlattenSeq([i \in DOMAIN name |->
                   IF StartsRun(name, KEYWORDS, i) THEN Canonical(RunFrom(name, KEYWORDS, i))
                   ELSE IF name[i] \in KEYWORDS THEN <<>> ELSE <<name[i]>>])

-----------------------------------------------------------------------------
(* For comparison, what a name means in C++: a run of key words is a type  *)
(* told by its base, its width and its sign, in whatever order.            *)
Fundamental == KEYWORDS \cup {"char", "double"}

Denoted(run) ==
    LET has(word) == \E i \in DOMAIN run : run[i] = word
        twice(word) == \E i, j \in DOMAIN run : i # j /\ run[i] = word /\ run[j] = word
        base      == IF has("char") THEN "char" ELSE IF has("double") THEN "double" ELSE "int"
    IN  [base  |-> base,
         width |-> IF has("short") \/ has("__int16") THEN "short"
                   ELSE IF has("__int64") \/ twice("long") THEN "long long"
                   ELSE IF has("long") THEN "long" ELSE "none",
         sign  |-> IF has("unsigned") THEN "unsigned"
                   ELSE IF has("signed") \/ base = "int" THEN "signed" ELSE "unsaid"]

Unsaid == [base |-> "none", width |-> "none", sign |-> "none"]
Word(word) == [word |-> word, denotes |-> Unsaid]

Meaning(name) ==
    FlattenSeq([i \in DOMAIN name |->
                   IF StartsRun(name, Fundamental, i)
                   THEN <<[word |-> "fundamental", denotes |-> Denoted(RunFrom(name, Fundamental, i))]>>
                   ELSE IF name[i] \in Fundamental THEN <<>> ELSE <<Word(name[i])>>])
=============================================================================
