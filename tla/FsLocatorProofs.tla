-------------------------- MODULE FsLocatorProofs --------------------------
(***************************************************************************)
(* The file locator, for any list of candidates, any files and any number  *)
(* of changes to them.                                                     *)
(***************************************************************************)
EXTENDS FsLocator, TLAPS, SequenceTheorems

Forms == {"recorded", "name", "bundle", "debug", "mirror", "store", "buildid"}

AnyPath == [dir : Dirs, form : Forms]

LEMMA APath == ASSUME NEW dir \in Dirs, NEW form \in Forms PROVE Path(dir, form) \in AnyPath
BY DEF Path, AnyPath

\* A list of directories gives one candidate each.
LEMMA InSeq ==
    ASSUME NEW dirs \in Seq(Dirs), NEW form \in Forms
    PROVE  In(dirs, form) \in Seq(AnyPath)
<1>1. DOMAIN dirs = 1..Len(dirs) /\ Len(dirs) \in Nat /\ dirs \in [1..Len(dirs) -> Dirs]
  BY LenProperties
<1>2. In(dirs, form) \in [1..Len(dirs) -> AnyPath]
  <2>1. \A k \in 1..Len(dirs) : Path(dirs[k], form) \in AnyPath
    BY <1>1, APath
  <2>2. QED
    BY <1>1, <2>1 DEF In
<1>3. QED
  BY <1>1, <1>2, SeqDef

\* A path in the image's directory, if there is one.
LEMMA BesideSeq == ASSUME NEW form \in Forms PROVE BesideImage(form) \in Seq(AnyPath)
<1>1. Path("image", form) \in AnyPath
  BY APath, LocateAssumption
<1>2. QED
  BY <1>1, EmptySeq DEF BesideImage

\* The candidates are a sequence.
LEMMA PathsTriedSeq ==
    ASSUME locator \in Locators, request \in Requests
    PROVE  PathsTried \in Seq(AnyPath)
<1> DEFINE Lists == {locator.searchDirs, locator.debugRoots, locator.symbolStores, locator.prefixMaps}
<1>1. \A dirs \in Lists : dirs \in Seq(Dirs)
  <2>1. locator \in [searchDirs : Seq(Dirs), debugRoots : Seq(Dirs),
                     symbolStores : Seq(Dirs), prefixMaps : Seq(Dirs)]
    BY LocateAssumption
  <2>2. QED
    BY <2>1
<1>2. request.kind \in Kinds
  <2>1. request \in [kind : Kinds, imagePath : BOOLEAN, absolute : BOOLEAN, named : BOOLEAN,
                     member : Members \cup {None}, mark : Marks]
    BY LocateAssumption
  <2>2. QED
    BY <2>1
<1>3. \A dirs \in Lists : \A form \in Forms : In(dirs, form) \in Seq(AnyPath)
  BY <1>1, InSeq
<1> HIDE DEF Lists
<1>4. /\ \A form \in Forms : /\ In(locator.searchDirs, form) \in Seq(AnyPath)
                              /\ In(locator.debugRoots, form) \in Seq(AnyPath)
                              /\ In(locator.symbolStores, form) \in Seq(AnyPath)
                              /\ In(locator.prefixMaps, form) \in Seq(AnyPath)
  BY <1>3 DEF Lists
<1>5. Remapped \in Seq(AnyPath)
  <2>1. Path("origin", "recorded") \in AnyPath
    BY APath, LocateAssumption DEF Forms
  <2>2. In(locator.prefixMaps, "recorded") \in Seq(AnyPath)
    BY <1>4 DEF Forms
  <2>3. QED
    BY <2>1, <2>2, AppendProperties DEF Remapped
<1>6. \A s, t \in Seq(AnyPath) : s \o t \in Seq(AnyPath)
  BY ConcatProperties
<1>7. <<>> \in Seq(AnyPath)
  BY EmptySeq
<1>8. Candidates \in Seq(AnyPath)
  <2>1. /\ BesideImage("recorded") \in Seq(AnyPath) /\ BesideImage("name") \in Seq(AnyPath)
        /\ In(locator.searchDirs, "name") \in Seq(AnyPath)
    BY <1>4, BesideSeq DEF Forms
  <2>2. (IF request.named THEN BesideImage("name") \o In(locator.searchDirs, "name") ELSE <<>>)
           \in Seq(AnyPath)
    BY <2>1, <1>6, <1>7
  <2>3. QED
    BY <2>1, <2>2, <1>5, <1>6 DEF Candidates
<1>9. CASE request.kind \in {"Embedded", "MachOObject", "SplitDwo", "Dwp"}
  BY <1>7, <1>8, <1>9 DEF PathsTried
<1>10. CASE request.kind = "Dsym"
  <2>1. BesideImage("bundle") \in Seq(AnyPath) /\ In(locator.searchDirs, "bundle") \in Seq(AnyPath)
    BY <1>4, BesideSeq DEF Forms
  <2>2. QED
    BY <2>1, <1>6, <1>7, <1>10 DEF PathsTried
<1>11. CASE request.kind = "Pdb"
  <2>1. In(locator.symbolStores, "store") \in Seq(AnyPath)
    BY <1>4 DEF Forms
  <2>2. QED
    BY <2>1, <1>6, <1>7, <1>8, <1>11 DEF PathsTried
<1>12. CASE request.kind = "DebugLink"
  <2>1. Path("image", "name") \in AnyPath /\ Path("image", "debug") \in AnyPath
    BY APath, LocateAssumption DEF Forms
  <2>2. <<Path("image", "name"), Path("image", "debug")>> \in Seq(AnyPath)
    BY <2>1
  <2>3. In(locator.debugRoots, "mirror") \in Seq(AnyPath) /\ In(locator.searchDirs, "name") \in Seq(AnyPath)
    BY <1>4 DEF Forms
  <2>4. QED
    BY <2>2, <2>3, <1>6, <1>7, <1>12 DEF PathsTried
<1>13. CASE request.kind = "BuildId"
  <2>1. In(locator.debugRoots, "buildid") \in Seq(AnyPath)
    BY <1>4 DEF Forms
  <2>2. QED
    BY <2>1, <1>7, <1>13 DEF PathsTried
<1>14. QED
  BY <1>2, <1>9, <1>10, <1>11, <1>12, <1>13 DEF Kinds

\* None is no file.
LEMMA NoneIsNoFile == None \notin Files
BY LocateAssumption

-----------------------------------------------------------------------------
(* The inductive invariant.                                                *)

\* What the call was given stays, and the disk holds its candidates.
Given ==
    /\ locator \in Locators /\ request \in Requests
    /\ DOMAIN disk = {PathsTried[k] : k \in 1..Len(PathsTried)}

\* Candidates left behind would not do.
PassedOver == \A k \in 1..(at - 1) : PathsTried[k] \in changed \/ ~Usable(k)

\* What the call knows of the candidate at hand, unless it was changed meanwhile.
AtHand ==
    /\ pc = "read" => PathsTried[at] \in changed \/ Tried(at) # None
    /\ pc \in {"crc", "member"} => PathsTried[at] \in changed \/ Tried(at) = bytes
    /\ pc = "crc" => request.kind = "DebugLink"
    /\ pc = "member" => request.member # None /\ request.kind # "DebugLink"

\* How the call ends.
Ending ==
    /\ (pc = "done") = (result.status # "pending")
    /\ result.status = "none" => at > Len(PathsTried) \/ request.member # None
    /\ LinkVouched
    /\ ErrorsHaveACause

IInv == TypeOK /\ Given /\ PassedOver /\ AtHand /\ Ending

\* It holds when the call starts.
LEMMA InitIInv == Init => IInv
<1> SUFFICES ASSUME Init PROVE IInv
  OBVIOUS
<1>1. PathsTried \in Seq(AnyPath)
  BY PathsTriedSeq DEF Init
<1>2. Given
  BY <1>1 DEF Given, Init
<1>3. TypeOK
  BY <1>1, NoneIsNoFile DEF TypeOK, Init
<1>4. PassedOver /\ AtHand /\ Ending
  BY DEF PassedOver, AtHand, Ending, LinkVouched, ErrorsHaveACause, Init
<1>5. QED
  BY <1>2, <1>3, <1>4 DEF IInv

\* A step by the call leaves the disk alone; what is known of it stays.
LEMMA SameDisk ==
    ASSUME UNCHANGED <<locator, request, disk, changed>>
    PROVE  /\ PathsTried' = PathsTried
           /\ \A k : Tried(k)' = Tried(k) /\ Usable(k)' = Usable(k)
<1>1. PathsTried' = PathsTried
  BY DEF PathsTried, BesideImage, Candidates, Remapped, In, Path
<1>2. QED
  BY <1>1 DEF Tried, Usable

\* Every step keeps it.
LEMMA NextIInv == IInv /\ [Next]_vars => IInv'
<1> SUFFICES ASSUME IInv, [Next]_vars PROVE IInv'
  OBVIOUS
<1> USE DEF IInv
<1>1. PathsTried \in Seq(AnyPath) /\ Len(PathsTried) \in Nat
  BY PathsTriedSeq DEF Given
<1>2. \A k \in 1..Len(PathsTried) : Tried(k) \in Files \cup {None}
  BY <1>1 DEF Given, TypeOK, Tried
<1>3. CASE Look
  <2>1. /\ PathsTried' = PathsTried
        /\ \A k : Tried(k)' = Tried(k) /\ Usable(k)' = Usable(k)
    BY <1>3, SameDisk DEF Look
  <2>2. TypeOK'
    BY <1>3, <1>1, <2>1 DEF Look, TypeOK
  <2>3. Given'
    BY <1>3, <2>1 DEF Look, Given
  <2>4. PassedOver'
    BY <1>3, <1>1, <2>1 DEF Look, TypeOK, PassedOver, Usable
  <2>5. AtHand' /\ Ending'
    BY <1>3, <2>1 DEF Look, AtHand, Ending, LinkVouched, ErrorsHaveACause
  <2>6. QED
    BY <2>2, <2>3, <2>4, <2>5
<1>4. CASE NothingLeft \/ ReadFails
  <2>1. UNCHANGED <<locator, request, disk, changed, at, bytes>>
    BY <1>4 DEF NothingLeft, ReadFails, Return
  <2>2. /\ PathsTried' = PathsTried
        /\ \A k : Tried(k)' = Tried(k) /\ Usable(k)' = Usable(k)
    BY <2>1, SameDisk
  <2>3. TypeOK'
    BY <1>4, <2>1, <2>2, NoneIsNoFile DEF NothingLeft, ReadFails, Return, TypeOK
  <2>4. Given' /\ PassedOver'
    BY <2>1, <2>2 DEF Given, PassedOver
  <2>5. AtHand'
    BY <1>4 DEF NothingLeft, ReadFails, Return, AtHand
  <2>6. Ending'
    BY <1>4, <2>1, <2>2
       DEF NothingLeft, ReadFails, Return, CanRead, AtHand, Ending, LinkVouched, ErrorsHaveACause
  <2>7. QED
    BY <2>3, <2>4, <2>5, <2>6
<1>5. CASE Read
  <2>1. UNCHANGED <<locator, request, disk, changed, at>>
    BY <1>5 DEF Read
  <2>2. /\ PathsTried' = PathsTried
        /\ \A k : Tried(k)' = Tried(k) /\ Usable(k)' = Usable(k)
    BY <2>1, SameDisk
  <2>3. Tried(at) \in Files /\ at <= Len(PathsTried)
    BY <1>5, <1>2 DEF Read, CanRead, TypeOK
  <2>4. TypeOK'
    BY <1>5, <2>1, <2>2, <2>3, NoneIsNoFile DEF Read, TypeOK
  <2>5. Given' /\ PassedOver'
    BY <2>1, <2>2 DEF Given, PassedOver
  <2>6. AtHand'
    BY <1>5, <2>1, <2>2 DEF Read, AtHand
  <2>7. Ending'
    BY <1>5, <2>1, <2>2 DEF Read, Ending, LinkVouched, ErrorsHaveACause
  <2>8. QED
    BY <2>4, <2>5, <2>6, <2>7
<1>6. CASE CheckCrc
  <2>1. UNCHANGED <<locator, request, disk, changed>>
    BY <1>6 DEF CheckCrc, Return
  <2>2. /\ PathsTried' = PathsTried
        /\ \A k : Tried(k)' = Tried(k) /\ Usable(k)' = Usable(k)
    BY <2>1, SameDisk
  <2>3. TypeOK' /\ Given'
    BY <1>6, <1>1, <2>1, <2>2, NoneIsNoFile DEF CheckCrc, Return, TypeOK, Given
  <2>4. PassedOver'
    <3>1. CASE bytes.mark = request.mark
      BY <1>6, <2>1, <2>2, <3>1 DEF CheckCrc, Return, PassedOver
    <3>2. CASE bytes.mark # request.mark
      <4>1. at' = at + 1
        BY <1>6, <3>2 DEF CheckCrc
      <4>2. PathsTried[at] \in changed \/ ~Usable(at)
        BY <1>6, <3>2 DEF CheckCrc, AtHand, Usable
      <4>3. QED
        BY <2>1, <2>2, <4>1, <4>2 DEF PassedOver, TypeOK
    <3>3. QED
      BY <3>1, <3>2
  <2>5. AtHand' /\ Ending'
    BY <1>6, <2>1, <2>2
       DEF CheckCrc, Return, AtHand, Ending, LinkVouched, ErrorsHaveACause
  <2>6. QED
    BY <2>3, <2>4, <2>5
<1>7. CASE FindMember
  <2>1. UNCHANGED <<locator, request, disk, changed, at, bytes>>
    BY <1>7 DEF FindMember, Return
  <2>2. /\ PathsTried' = PathsTried
        /\ \A k : Tried(k)' = Tried(k) /\ Usable(k)' = Usable(k)
    BY <2>1, SameDisk
  <2>3. TypeOK'
    BY <1>7, <2>1, <2>2, NoneIsNoFile DEF FindMember, Return, TypeOK
  <2>4. Given' /\ PassedOver' /\ AtHand'
    BY <1>7, <2>1, <2>2 DEF FindMember, Return, Given, PassedOver, AtHand
  <2>5. Ending'
    BY <1>7, <2>1, <2>2
       DEF FindMember, Return, TypeOK, AtHand, Ending, LinkVouched, ErrorsHaveACause
  <2>6. QED
    BY <2>3, <2>4, <2>5
<1>8. ASSUME NEW path \in DOMAIN disk, FileChanges(path) PROVE IInv'
  <2>1. UNCHANGED <<locator, request, pc, at, bytes, result>>
    BY <1>8 DEF FileChanges
  <2>2. PathsTried' = PathsTried
    BY <2>1 DEF PathsTried, BesideImage, Candidates, Remapped, In, Path
  <2>3. /\ changed' = changed \cup {path}
        /\ disk' \in [DOMAIN disk -> Files \cup {None}] /\ DOMAIN disk' = DOMAIN disk
        /\ \A other \in DOMAIN disk \ {path} : disk'[other] = disk[other]
    BY <1>8 DEF FileChanges, TypeOK
  <2>4. \A k \in 1..Len(PathsTried) : /\ PathsTried[k] \in DOMAIN disk
                                      /\ PathsTried[k] \in changed' \/ Tried(k)' = Tried(k)
    BY <2>2, <2>3 DEF Given, Tried
  <2>5. TypeOK' /\ Given'
    BY <1>8, <2>1, <2>2, <2>3 DEF TypeOK, Given
  <2>6. PassedOver'
    BY <1>1, <2>1, <2>2, <2>3, <2>4 DEF PassedOver, Usable, TypeOK
  <2>7. AtHand'
    BY <1>1, <2>1, <2>2, <2>3, <2>4 DEF AtHand, TypeOK
  <2>8. Ending'
    <3>1. pc # "done"
      BY <1>8 DEF FileChanges
    <3>2. QED
      BY <2>1, <2>2, <3>1 DEF Ending, LinkVouched, ErrorsHaveACause
  <2>9. QED
    BY <2>5, <2>6, <2>7, <2>8
<1>9. CASE UNCHANGED vars
  <2>1. /\ PathsTried' = PathsTried
        /\ \A k : Tried(k)' = Tried(k) /\ Usable(k)' = Usable(k)
    BY <1>9, SameDisk DEF vars
  <2>2. QED
    BY <1>9, <2>1 DEF vars, TypeOK, Given, PassedOver, AtHand, Ending, LinkVouched, ErrorsHaveACause
<1>10. ASSUME NEW k \in DOMAIN PathsTried, FileChanges(PathsTried[k]) PROVE IInv'
  BY <1>1, <1>8, <1>10 DEF Given
<1>11. QED
  BY <1>3, <1>4, <1>5, <1>6, <1>7, <1>9, <1>10 DEF Next, Step, Returned

-----------------------------------------------------------------------------
(* Theorems.                                                               *)

\* The inductive invariant holds throughout a call.
THEOREM LocateInvariant == Spec => []IInv
<1>1. LocateAssumption
  BY LocateAssumption
<1>2. QED
  BY <1>1, InitIInv, NextIInv, PTL DEF Spec

\* Every candidate that is read is read once and judged by what was read.
THEOREM LocateTypeCorrect == Spec => []TypeOK
<1>1. IInv => TypeOK
  BY DEF IInv
<1>2. QED
  BY <1>1, LocateInvariant, PTL

\* A debuglink's file has the recorded CRC, whatever other processes do to it meanwhile.
THEOREM LocateLinkVouched == Spec => []LinkVouched
<1>1. IInv => LinkVouched
  BY DEF IInv, Ending
<1>2. QED
  BY <1>1, LocateInvariant, PTL

\* No file that would do is passed over, for any list of candidates.
THEOREM LocateMissesNothing == Spec => []NothingUsablePassedOver
<1>1. IInv => NothingUsablePassedOver
  <2> SUFFICES ASSUME IInv,
                      NEW k \in DOMAIN PathsTried,
                      k < at \/ (result.status = "none" /\ request.member = None)
               PROVE  PathsTried[k] \in changed \/ ~Usable(k)
    BY DEF NothingUsablePassedOver
  <2>1. PathsTried \in Seq(AnyPath)
    BY PathsTriedSeq DEF IInv, Given
  <2>2. k \in 1..(at - 1)
    BY <2>1 DEF IInv, TypeOK, Ending
  <2>3. QED
    BY <2>2 DEF IInv, PassedOver
<1>2. LocateAssumption
  BY LocateAssumption
<1>3. QED
  BY <1>1, <1>2, LocateInvariant, PTL

\* Every error is the fault of the candidate it is about.
THEOREM LocateErrorsCaused == Spec => []ErrorsHaveACause
<1>1. IInv => ErrorsHaveACause
  BY DEF IInv, Ending
<1>2. QED
  BY <1>1, LocateInvariant, PTL
=============================================================================
