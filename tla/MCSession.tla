----------------------------- MODULE MCSession -----------------------------
(* Three threads on sessions with no, one or two debug readers, with       *)
(* names as different compilers spell them.                                *)
EXTENDS Session

Type(name, layout, decl) ==
    [name |-> name, layout |-> layout, decl |-> decl, declaration |-> FALSE, readable |-> TRUE]
Declared(name) == [Type(name, "none", "none") EXCEPT !.declaration = TRUE]
Corrupt(name)  == [Type(name, "none", "none") EXCEPT !.readable = FALSE]

Dwarf(types)  == [indexed |-> TRUE, index |-> "ok", types |-> types]
BadDwarf      == [indexed |-> TRUE, index |-> "error", types |-> {}]
Pdb(types)    == [indexed |-> FALSE, index |-> "ok", types |-> types]
BadPdb        == [indexed |-> FALSE, index |-> "error", types |-> {}]

Box(type)     == <<"Box", "<">> \o type \o <<">">>
InScope(name) == <<"ns", "::">> \o name

\* One type as Clang, GCC and MSVC name it, and a different one.
Clang   == Box(<<"unsigned", "long", "long">>)
Gcc     == Box(<<"long", "long", "unsigned", "int">>)
Msvc    == Box(<<"unsigned", "__int64">>)
Another == Box(<<"unsigned", "long">>)

\* Every type of C++ that key words name, as the three compilers spell it.
Spellings ==
    {<<"int">>, <<"signed">>, <<"unsigned", "int">>, <<"unsigned">>, <<"char">>, <<"signed", "char">>,
     <<"unsigned", "char">>, <<"short">>, <<"short", "int">>, <<"unsigned", "short">>,
     <<"short", "unsigned", "int">>, <<"long">>, <<"long", "int">>, <<"unsigned", "long">>,
     <<"long", "unsigned", "int">>, <<"long", "long">>, <<"long", "long", "int">>, <<"__int64">>,
     <<"unsigned", "long", "long">>, <<"long", "long", "unsigned", "int">>,
     <<"unsigned", "__int64">>, <<"__int32">>, <<"unsigned", "__int32">>, <<"__int16">>,
     <<"unsigned", "__int16">>, <<"double">>, <<"long", "double">>}

MCContents ==
    {<<>>,
     <<Dwarf({Type(Gcc, "A", "x.h"), Type(Another, "B", "x.h")}), BadDwarf>>,
     <<BadDwarf, Dwarf({Type(InScope(Gcc), "A", "x.h"), Type(InScope(Gcc), "B", "y.h")})>>,
     <<Dwarf({Declared(Gcc)}), Pdb({Type(InScope(Msvc), "A", "x.h")})>>,
     <<Dwarf({Type(Gcc, "A", "x.h"), Type(InScope(Clang), "C", "x.h")}),
       Pdb({Type(Msvc, "A", "x.h"), Type(Another, "B", "x.h")})>>,
     <<Pdb({Type(Box(s), "A", "x.h") : s \in Spellings})>>,
     <<Dwarf({Corrupt(Clang), Type(InScope(Clang), "A", "x.h")}), BadPdb>>}

MCQueries == {[kind |-> "layout", name |-> Clang], [kind |-> "layout", name |-> InScope(Msvc)],
              [kind |-> "symbols", name |-> <<>>], [kind |-> "summary", name |-> <<>>]}

=============================================================================
