----------------------------- MODULE FsLocator -----------------------------
(***************************************************************************)
(* The file locator (FsLocator::locate): one request for a companion file, *)
(* from the list of candidate paths to the bytes handed to the debug-info  *)
(* backend, while other processes replace, remove and create files.        *)
(*                                                                         *)
(* Looking whether a path is a file and reading it are two steps, as they  *)
(* are two system calls.  A path is a directory and a way to name the file *)
(* within it; what tells files apart is one mark (the CRC or the identity).*)
(***************************************************************************)
EXTENDS Naturals, Sequences, FiniteSets

CONSTANTS Marks,     \* what a file's bytes amount to
          Members,   \* members of static archives
          None,      \* an Option's None
          Dirs,      \* directories, "image" (where the binary is) and "origin" (as recorded)
          Files,     \* [mark, readable, members] that may be met on the disk
          Locators,  \* [searchDirs, debugRoots, symbolStores, prefixMaps]
          Requests,  \* [kind, imagePath, absolute, named, member, mark]
          MaxChanges \* files that change during one call (bound for TLC)

Kinds == {"Embedded", "Dsym", "MachOObject", "SplitDwo", "Dwp", "DebugLink", "BuildId", "Pdb"}

\* The flags of a request: the image came from a file, the recorded path is absolute
\* and ends in a name; member is set for "lib.a(member.o)"; mark is the recorded CRC or
\* identity.  A file that is no archive has None for its members.
ASSUME LocateAssumption ==
    /\ Files \subseteq [mark : Marks, readable : BOOLEAN, members : (SUBSET Members) \cup {None}]
    /\ None \notin Files /\ None \notin Members /\ MaxChanges \in Nat
    /\ {"image", "origin"} \subseteq Dirs
    /\ Locators \subseteq [searchDirs : Seq(Dirs), debugRoots : Seq(Dirs),
                            symbolStores : Seq(Dirs), prefixMaps : Seq(Dirs)]
    /\ Requests \subseteq
          [kind : Kinds, imagePath : BOOLEAN, absolute : BOOLEAN, named : BOOLEAN,
           member : Members \cup {None}, mark : Marks]
    /\ \A r \in Requests : r.member # None => r.kind = "MachOObject" /\ r.named

VARIABLES locator,  \* the directories that the embedder configured
          request,
          disk,     \* path -> file or None
          changed,  \* paths that other processes have touched since the call began
          pc,       \* next step of the call
          at,       \* candidate under consideration
          bytes,    \* what has been read from it
          result

vars == <<locator, request, disk, changed, pc, at, bytes, result>>

-----------------------------------------------------------------------------
(* Candidate paths.                                                        *)
Path(dir, form) == [dir |-> dir, form |-> form]

In(dirs, form) == [k \in DOMAIN dirs |-> Path(dirs[k], form)]

BesideImage(form) == IF request.imagePath THEN <<Path("image", form)>> ELSE <<>>

\* remap: the prefix maps that fit the recorded path, then the path as recorded.
Remapped == Append(In(locator.prefixMaps, "recorded"), Path("origin", "recorded"))

Candidates ==
    (IF request.absolute THEN Remapped ELSE BesideImage("recorded"))
    \o (IF request.named THEN BesideImage("name") \o In(locator.searchDirs, "name") ELSE <<>>)

\* The paths that a request tries, in order.
PathsTried ==
    CASE request.kind = "Embedded" -> <<>>
      [] request.kind = "Dsym" ->
            IF request.imagePath
            THEN BesideImage("bundle") \o In(locator.searchDirs, "bundle") ELSE <<>>
      [] request.kind \in {"MachOObject", "SplitDwo", "Dwp"} -> Candidates
      [] request.kind = "Pdb" ->
            Candidates \o (IF request.named THEN In(locator.symbolStores, "store") ELSE <<>>)
      [] request.kind = "DebugLink" ->
            (IF request.imagePath
             THEN <<Path("image", "name"), Path("image", "debug")>>
                  \o In(locator.debugRoots, "mirror")
             ELSE <<>>)
            \o In(locator.searchDirs, "name")
      [] request.kind = "BuildId" ->
            IF request.named THEN In(locator.debugRoots, "buildid") ELSE <<>>

Tried(k) == disk[PathsTried[k]]

-----------------------------------------------------------------------------
Init ==
    /\ locator \in Locators /\ request \in Requests
    /\ disk \in [{PathsTried[k] : k \in DOMAIN PathsTried} -> Files \cup {None}]
    /\ changed = {}
    /\ pc = "look" /\ at = 1 /\ bytes = None
    /\ result = [status |-> "pending", file |-> None]

Return(status, file) ==
    /\ pc' = "done"
    /\ result' = [status |-> status, file |-> file]
    /\ UNCHANGED <<locator, request, disk, changed, at>>

FaultyLook ==
    /\ pc = "look" /\ at <= Len(PathsTried)
    /\ pc' = "read"
    /\ UNCHANGED <<locator, request, disk, changed, at, bytes, result>>

\* is_file
Look ==
    /\ pc = "look" /\ at <= Len(PathsTried)
    /\ IF Tried(at) = None THEN at' = at + 1 /\ pc' = pc ELSE at' = at /\ pc' = "read"
    /\ UNCHANGED <<locator, request, disk, changed, bytes, result>>

NothingLeft ==
    /\ pc = "look" /\ at > Len(PathsTried)
    /\ Return("none", None)
    /\ UNCHANGED bytes

CanRead == Tried(at) # None /\ Tried(at).readable

\* FileSource::read, or the read in archive_member.
Read ==
    /\ pc = "read" /\ CanRead
    /\ bytes' = Tried(at)
    /\ IF request.kind = "DebugLink" THEN pc' = "crc" /\ result' = result
       ELSE IF request.member # None THEN pc' = "member" /\ result' = result
       ELSE pc' = "done" /\ result' = [status |-> "found", file |-> Tried(at)]
    /\ UNCHANGED <<locator, request, disk, changed, at>>

\* The file has gone since it was looked at, or cannot be read.
ReadFails ==
    /\ pc = "read" /\ ~CanRead
    /\ Return("Io", None)
    /\ UNCHANGED bytes

FaultyCheckCrc ==
    /\ pc = "crc"
    /\ IF Tried(at) # None /\ Tried(at).mark = request.mark
       THEN Return("found", bytes) /\ UNCHANGED bytes
       ELSE /\ pc' = "look" /\ at' = at + 1 /\ bytes' = None
            /\ UNCHANGED <<locator, request, disk, changed, result>>

FaultyNextCandidate ==
    /\ pc = "crc"
    /\ IF bytes.mark = request.mark
       THEN Return("found", bytes) /\ UNCHANGED bytes
       ELSE /\ pc' = "look" /\ at' = at /\ bytes' = None
            /\ UNCHANGED <<locator, request, disk, changed, result>>

FaultyFirstOnly ==
    /\ pc = "crc"
    /\ IF bytes.mark = request.mark THEN Return("found", bytes) ELSE Return("none", None)
    /\ UNCHANGED bytes

\* The CRC of a debuglink is its only identity; another file's bytes are dropped.
CheckCrc ==
    /\ pc = "crc"
    /\ IF bytes.mark = request.mark
       THEN Return("found", bytes) /\ UNCHANGED bytes
       ELSE /\ pc' = "look" /\ at' = at + 1 /\ bytes' = None
            /\ UNCHANGED <<locator, request, disk, changed, result>>

\* archive_member: the first archive decides, whether the member is in it or not.
FindMember ==
    /\ pc = "member"
    /\ IF bytes.members = None THEN Return("Malformed", None)
       ELSE IF request.member \in bytes.members THEN Return("found", bytes)
       ELSE Return("none", None)
    /\ UNCHANGED bytes

\* Another process writes, replaces or removes a file.
FileChanges(path) ==
    /\ pc # "done" /\ Cardinality(changed \cup {path}) <= MaxChanges
    /\ \E file \in Files \cup {None} :
          file # disk[path] /\ disk' = [disk EXCEPT ![path] = file]
    /\ changed' = changed \cup {path}
    /\ UNCHANGED <<locator, request, pc, at, bytes, result>>

Returned == pc = "done" /\ UNCHANGED vars

Step == Look \/ NothingLeft \/ Read \/ ReadFails \/ CheckCrc \/ FindMember

Next ==
    \/ Step
    \/ \E k \in DOMAIN PathsTried : FileChanges(PathsTried[k])
    \/ Returned

Spec == Init /\ [][Next]_vars

\* The calling thread runs on; other processes may do nothing.
FairSpec == Spec /\ WF_vars(Step)

-----------------------------------------------------------------------------
(* What is checked.                                                        *)

\* The call holds the bytes of one file from the moment it has read them until it has
\* judged them, and asks for candidates in its list only.
TypeOK ==
    /\ changed \subseteq DOMAIN disk
    /\ disk \in [DOMAIN disk -> Files \cup {None}]
    /\ pc \in {"look", "read", "crc", "member", "done"}
    /\ at \in 1..(Len(PathsTried) + 1)
    /\ pc \in {"read", "crc", "member"} => at <= Len(PathsTried)
    /\ bytes \in Files \cup {None} /\ (pc \in {"crc", "member"} => bytes # None)
    /\ result.status \in {"pending", "found", "none", "Io", "Malformed"}
    /\ (result.status = "found") = (result.file \in Files)

\* The bytes that are handed out for a debuglink have the CRC that the image records,
\* whatever happens to the file after it was read: what is returned is what was checked.
LinkVouched ==
    result.status = "found" /\ request.kind = "DebugLink" => result.file.mark = request.mark

\* Would this candidate do: it is a file and, for a debuglink, has the recorded CRC.
Usable(k) ==
    /\ Tried(k) # None
    /\ request.kind = "DebugLink" => Tried(k).mark = request.mark

\* No file that would do is passed over: each candidate before the one taken, and every
\* candidate when none is found, does not do unless it was changed meanwhile.  The first
\* archive that is there answers for all of them (archive_member is returned as it is).
NothingUsablePassedOver ==
    \A k \in DOMAIN PathsTried :
        (k < at \/ (result.status = "none" /\ request.member = None))
            => PathsTried[k] \in changed \/ ~Usable(k)

\* An error names the candidate that caused it: it cannot be read, is no archive, or was
\* changed between being looked at and being read.  A missing file is not an error.
ErrorsHaveACause ==
    result.status \in {"Io", "Malformed"} =>
        \/ PathsTried[at] \in changed
        \/ /\ Tried(at) # None
           /\ result.status = "Io" => ~Tried(at).readable
           /\ result.status = "Malformed" => Tried(at).members = None

\* The call returns however files change under it: each candidate is read once at most.
LocateReturns == <>(pc = "done")
=============================================================================
