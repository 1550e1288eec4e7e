---------------------------- MODULE MCFsLocator ----------------------------
(***************************************************************************)
(* Requests of every kind, from a file and from memory, over files that    *)
(* are of this build or another, unreadable, or archives with and without  *)
(* the member, while one or two of them change.                            *)
(***************************************************************************)
EXTENDS FsLocator

CONSTANTS this, other, \* builds
          m            \* member of an archive

File(mark, readable, members) == [mark |-> mark, readable |-> readable, members |-> members]

MCFiles ==
    {File(this, TRUE, None), File(other, TRUE, None), File(this, FALSE, None),
     File(this, TRUE, {}), File(other, TRUE, {m})}

MCDirs == {"image", "origin", "dir", "root1", "root2", "store", "map"}

MCLocators ==
    {[searchDirs |-> <<>>, debugRoots |-> <<"root1", "root2">>, symbolStores |-> <<"store">>,
      prefixMaps |-> <<"map">>],
     [searchDirs |-> <<"dir">>, debugRoots |-> <<>>, symbolStores |-> <<>>, prefixMaps |-> <<>>]}

Request(kind, imagePath, absolute, member) ==
    [kind |-> kind, imagePath |-> imagePath, absolute |-> absolute, named |-> TRUE,
     member |-> member, mark |-> this]

MCRequests ==
    {Request(kind, TRUE, FALSE, None) : kind \in {"Dsym", "SplitDwo", "DebugLink", "BuildId"}}
    \cup {Request("Pdb", imagePath, TRUE, None) : imagePath \in BOOLEAN}
    \cup {Request("MachOObject", FALSE, TRUE, member) : member \in {None, m}}
    \cup {Request("DebugLink", FALSE, FALSE, None), Request("Embedded", TRUE, FALSE, None),
          [Request("BuildId", FALSE, FALSE, None) EXCEPT !.named = FALSE],
          [Request("Dwp", TRUE, FALSE, None) EXCEPT !.named = FALSE]}
=============================================================================
