-------------------------- MODULE EngineOpenProofs --------------------------
(***************************************************************************)
(* Engine::open keeps its types and its bookkeeping of debug locations for *)
(* every set of images, identities, formats and backends.                  *)
(***************************************************************************)
EXTENDS EngineOpen, TLAPS

Opening == pc \in {"next", "locate", "companion", "load"}

\* The locations the current and the earlier calls of open_locations cover.
Reached == IF stage = "primary" THEN Primary(image) ELSE Locations(image)

\* The locations open_locations still has to decide about.
Undecided == (todo \cap Readable(image, registered)) \cup ({at} \ {0})

(* While the debug info is being opened, every readable location that the   *)
(* current stage reaches is attached, reported or still undecided, exactly  *)
(* one of the three.                                                        *)
Ledger ==
    /\ Readable(image, registered) \cap Reached = Attached \cup Reported \cup Undecided
    /\ Attached \cap Reported = {}
    /\ (Attached \cup Reported) \cap (todo \cup {at}) = {}
    /\ at \notin todo
    /\ todo \subseteq Reached
    /\ \A d, e \in diagnostics : d.subject = e.subject => d = e

(* The fallback stage starts when no primary location could be attached, so *)
(* it has no primary location left to decide about.                         *)
FallbackStage ==
    stage = "fallback" =>
        /\ Attached \cap Primary(image) = {}
        /\ (todo \cup {at}) \cap Primary(image) = {}

OpeningInv ==
    /\ at # 0 <=> pc \in {"locate", "companion", "load"}
    /\ result = "Pending" <=> pc # "done"
    /\ pc \in {"read", "probe", "format"} =>
         /\ stage = "primary" /\ todo = {} /\ readers = {} /\ diagnostics = {}
    /\ Opening =>
         /\ Ledger
         /\ FallbackStage
         /\ \A d \in diagnostics : d.subject # 0
    /\ result \in Errors => readers = {} /\ diagnostics = {}
    /\ NoForeignReader
    /\ result = "Session" =>
         /\ Ledger /\ FallbackStage /\ todo = {}
         /\ stage = "fallback" \/ readers # {}
         /\ NoReaderIsExplained

-----------------------------------------------------------------------------
(* A location of an image is one of its positive indices.                  *)
LEMMA LocationFacts ==
    ASSUME NEW img, IsImage(img)
    PROVE  /\ Locations(img) \subseteq Nat \ {0}
           /\ Primary(img) \subseteq Locations(img)
           /\ Fallback(img) = Locations(img) \ Primary(img)
           /\ img.locations = <<>> => Locations(img) = {}
  BY DEF IsImage, Locations, Primary, Fallback

(* Every variable of open keeps its type.                                   *)
THEOREM OpenTypeCorrect == Spec => []TypeOK
  <1>1. Init => TypeOK
    BY OpenAssumption DEF Init, TypeOK, PcValues, Stages, BinaryIds
  <1>2. TypeOK /\ [Next]_vars => TypeOK'
    <2> SUFFICES ASSUME TypeOK, [Next]_vars
                 PROVE  TypeOK'
      OBVIOUS
    <2> USE DEF TypeOK
    <2>0. /\ IsImage(image)
          /\ Locations(image) \subseteq Nat \ {0}
          /\ Primary(image) \subseteq Locations(image)
          /\ Fallback(image) \subseteq Locations(image)
      BY OpenAssumption, LocationFacts
    <2>a. ASSUME NEW error \in Errors, Fail(error) PROVE TypeOK'
      BY <2>a DEF Fail, PcValues
    <2>b. ASSUME NEW error \in SpiErrors, RecordFailure(error) PROVE TypeOK'
      <3>1. Failure(error, at) \in Diagnostics
        BY <2>0, <2>b DEF Failure, Diagnostic, Diagnostics
      <3>2. QED
        BY <3>1, <2>b DEF RecordFailure, PcValues, BinaryIds
    <2>1. CASE ReadSource
      BY <2>1, <2>a DEF ReadSource, PcValues, Errors
    <2>2. CASE ProbeFormat
      <3>1. CASE probed = Len(Formats)
        BY <2>2, <3>1, <2>a DEF ProbeFormat, Errors
      <3>2. CASE probed # Len(Formats)
        BY <2>2, <3>2, OpenAssumption DEF ProbeFormat, PcValues
      <3>3. QED
        BY <3>1, <3>2
    <2>3. CASE OpenFormat
      BY <2>3, <2>0, <2>a DEF OpenFormat, PcValues, Errors
    <2>4. ASSUME NEW l \in todo, TakeLocation(l) PROVE TypeOK'
      BY <2>4 DEF TakeLocation, PcValues
    <2>5. CASE LocateCompanion
      <3>1. CASE \E error \in {"NotFound", "Malformed", "Io"} : RecordFailure(error)
        BY <3>1, <2>b DEF SpiErrors
      <3>2. QED
        BY <2>5, <3>1 DEF LocateCompanion, PcValues
    <2>6. CASE OpenCompanion
      <3>1. CASE \E error \in SpiErrors \ {"NotFound"} : RecordFailure(error)
        BY <3>1, <2>b
      <3>2. QED
        BY <2>6, <3>1 DEF OpenCompanion, PcValues
    <2>7. CASE LoadDebugInfo
      <3>1. CASE \E error \in SpiErrors : RecordFailure(error)
        BY <3>1, <2>b
      <3>2. ReaderIdentity \in BinaryIds
        BY <2>0 DEF ReaderIdentity, IsImage, BinaryIds
      <3>3. [location |-> at, id |-> ReaderIdentity] \in [location : Locations(image), id : BinaryIds]
        BY <3>2, <2>7 DEF LoadDebugInfo
      <3>4. Diagnostic("Error", "DebugInfoMismatch", at) \in Diagnostics
        BY <2>7, <2>0 DEF LoadDebugInfo, Diagnostic, Diagnostics
      <3>5. QED
        BY <2>7, <3>1, <3>3, <3>4 DEF LoadDebugInfo, PcValues, BinaryIds
    <2>8. CASE TryFallbacks
      BY <2>8, <2>0 DEF TryFallbacks, Stages
    <2>9. CASE ReturnSession
      BY <2>9 DEF ReturnSession, NoReaderNotice, Diagnostic, Diagnostics, PcValues
    <2>10. CASE PluginPanics
      BY <2>10, <2>a DEF PluginPanics, Errors
    <2>11. CASE Returned \/ UNCHANGED vars
      BY <2>11 DEF Returned, vars
    <2>12. QED
      BY <2>1, <2>2, <2>3, <2>4, <2>5, <2>6, <2>7, <2>8, <2>9, <2>10, <2>11 DEF Next
  <1>3. QED
    BY <1>1, <1>2, PTL DEF Spec

-----------------------------------------------------------------------------
(* A step that only fails or panics forgets everything that was attached.  *)
LEMMA FailKeepsOpeningInv ==
    ASSUME TypeOK, OpeningInv, NEW error \in Errors, Fail(error)
    PROVE  OpeningInv'
  BY DEF TypeOK, OpeningInv, Fail, Errors, Opening, NoForeignReader

(* A backend's failure moves its location from undecided to reported.       *)
LEMMA FailureKeepsOpeningInv ==
    ASSUME TypeOK, OpeningInv, pc \in {"locate", "companion", "load"},
           NEW d, d.subject = at,
           diagnostics' = diagnostics \cup {d},
           at' = 0, pc' = "next",
           UNCHANGED <<registered, image, stage, todo, readers, result>>
    PROVE  OpeningInv'
  <1> USE DEF Opening
  <1>0. at \in Locations(image) /\ at # 0 /\ 0 \notin Locations(image)
    BY OpenAssumption, LocationFacts DEF TypeOK
  <1>1. Ledger /\ FallbackStage /\ \A e \in diagnostics : e.subject # 0
    BY DEF OpeningInv
  <1>2. Reported' = Reported \cup {at} /\ Attached' = Attached
    BY <1>0 DEF Reported, Attached
  <1>3. Reached' = Reached /\ Undecided = (todo \cap Readable(image, registered)) \cup {at}
        /\ Undecided' = (todo \cap Readable(image, registered))
    BY <1>0 DEF Reached, Undecided
  <1>4. \A e \in diagnostics : e.subject # at
    BY <1>1, <1>0 DEF Ledger, Reported
  <1>5. Ledger'
    <2>1. (Readable(image, registered) \cap Reached = Attached \cup Reported \cup Undecided)'
      BY <1>1, <1>2, <1>3 DEF Ledger
    <2>2. (Attached \cap Reported = {})'
      BY <1>1, <1>2 DEF Ledger
    <2>3. ((Attached \cup Reported) \cap (todo \cup {at}) = {})' /\ (at \notin todo)' /\ (todo \subseteq Reached)'
      <3>1. Attached \subseteq Locations(image) /\ Reported \subseteq Locations(image)
        BY <1>1 DEF Ledger, Readable
      <3>2. QED
        BY <1>0, <1>1, <1>2, <1>3, <3>1 DEF Ledger, TypeOK
    <2>4. (\A e, f \in diagnostics : e.subject = f.subject => e = f)'
      BY <1>1, <1>4 DEF Ledger
    <2>5. QED
      BY <2>1, <2>2, <2>3, <2>4 DEF Ledger
  <1>6. FallbackStage'
    BY <1>0, <1>1, <1>2, OpenAssumption, LocationFacts DEF FallbackStage, TypeOK
  <1>7. (\A e \in diagnostics : e.subject # 0)'
    BY <1>0, <1>1
  <1>8. NoForeignReader'
    BY DEF OpeningInv, NoForeignReader
  <1>9. QED
    BY <1>5, <1>6, <1>7, <1>8 DEF OpeningInv, Errors

(* A reader attached for the location being opened moves it from undecided  *)
(* to attached.                                                             *)
LEMMA AttachKeepsOpeningInv ==
    ASSUME TypeOK, OpeningInv, pc = "load",
           ~IdentitiesConflict(image.id, ReaderIdentity),
           readers' = readers \cup {[location |-> at, id |-> ReaderIdentity]},
           at' = 0, pc' = "next",
           UNCHANGED <<registered, image, stage, todo, diagnostics, result>>
    PROVE  OpeningInv'
  <1> USE DEF Opening
  <1>0. at \in Locations(image) /\ at # 0 /\ 0 \notin Locations(image)
    BY OpenAssumption, LocationFacts DEF TypeOK
  <1>1. Ledger /\ FallbackStage /\ \A e \in diagnostics : e.subject # 0
    BY DEF OpeningInv
  <1>2. Attached' = Attached \cup {at} /\ Reported' = Reported
    <2> DEFINE reader == [location |-> at, id |-> ReaderIdentity]
    <2>1. reader.location = at
      OBVIOUS
    <2>2. readers' = readers \cup {reader}
      OBVIOUS
    <2> HIDE DEF reader
    <2>3. QED
      BY <2>1, <2>2 DEF Reported, Attached
  <1>3. Reached' = Reached /\ Undecided = (todo \cap Readable(image, registered)) \cup {at}
        /\ Undecided' = (todo \cap Readable(image, registered))
    BY <1>0 DEF Reached, Undecided
  <1>4. Ledger'
    <2>1. (Readable(image, registered) \cap Reached = Attached \cup Reported \cup Undecided)'
      BY <1>1, <1>2, <1>3 DEF Ledger
    <2>2. (Attached \cap Reported = {})'
      BY <1>1, <1>2 DEF Ledger
    <2>3. ((Attached \cup Reported) \cap (todo \cup {at}) = {})' /\ (at \notin todo)' /\ (todo \subseteq Reached)'
      <3>1. Attached \subseteq Locations(image) /\ Reported \subseteq Locations(image)
        BY <1>1 DEF Ledger, Readable
      <3>2. QED
        BY <1>0, <1>1, <1>2, <1>3, <3>1 DEF Ledger, TypeOK
    <2>4. (\A e, f \in diagnostics : e.subject = f.subject => e = f)'
      BY <1>1 DEF Ledger
    <2>5. QED
      BY <2>1, <2>2, <2>3, <2>4 DEF Ledger
  <1>5. FallbackStage'
    BY <1>0, <1>1, <1>2, OpenAssumption, LocationFacts DEF FallbackStage, TypeOK
  <1>6. NoForeignReader'
    BY DEF OpeningInv, NoForeignReader, IdentitiesConflict
  <1>7. QED
    BY <1>1, <1>4, <1>5, <1>6 DEF OpeningInv, Errors

(* The bookkeeping of open is an inductive invariant.                       *)
THEOREM OpenBookkeeping == Spec => []OpeningInv
  <1> USE DEF Opening
  <1>1. Init => OpeningInv
    BY DEF Init, OpeningInv, NoForeignReader, Errors
  <1>2. TypeOK /\ OpeningInv /\ [Next]_vars => OpeningInv'
    <2> SUFFICES ASSUME TypeOK, OpeningInv, [Next]_vars
                 PROVE  OpeningInv'
      OBVIOUS
    <2>0. /\ Locations(image) \subseteq Nat \ {0}
          /\ Primary(image) \subseteq Locations(image)
          /\ Fallback(image) = Locations(image) \ Primary(image)
          /\ image.locations = <<>> => Locations(image) = {}
      BY OpenAssumption, LocationFacts DEF TypeOK
    <2>a. \A error \in Errors : Fail(error) => OpeningInv'
      BY FailKeepsOpeningInv
    <2>b. ASSUME NEW error \in SpiErrors, RecordFailure(error), pc \in {"locate", "companion", "load"}
          PROVE  OpeningInv'
      <3>1. Failure(error, at).subject = at
        BY DEF Failure, Diagnostic
      <3>2. QED
        BY <2>b, <3>1, FailureKeepsOpeningInv DEF RecordFailure
    <2>1. CASE ReadSource
      BY <2>1, <2>a DEF ReadSource, OpeningInv, NoForeignReader, Errors
    <2>2. CASE ProbeFormat
      BY <2>2, <2>a DEF ProbeFormat, OpeningInv, NoForeignReader, Errors
    <2>3. CASE OpenFormat
      <3>1. CASE Fail("Format")
        BY <3>1, <2>a DEF Errors
      <3>2. CASE ~Fail("Format")
        <4>1. /\ pc = "format" /\ pc' = "next" /\ todo' = Primary(image)
              /\ UNCHANGED <<registered, recognised, probed, image, stage, at, companion,
                             readers, diagnostics, result>>
          BY <2>3, <3>2 DEF OpenFormat
        <4>2. readers = {} /\ diagnostics = {} /\ stage = "primary" /\ at = 0
          BY <4>1 DEF OpeningInv
        <4>3. Ledger' /\ FallbackStage'
          BY <4>1, <4>2, <2>0 DEF Ledger, FallbackStage, Attached, Reported, Reached, Undecided, Readable
        <4>4. QED
          BY <4>1, <4>2, <4>3 DEF OpeningInv, NoForeignReader, Errors
      <3>3. QED
        BY <3>1, <3>2
    <2>4. ASSUME NEW l \in todo, TakeLocation(l) PROVE OpeningInv'
      <3>1. /\ pc = "next" /\ at = 0 /\ l # 0 /\ l \in Locations(image)
            /\ Ledger /\ FallbackStage /\ \A d \in diagnostics : d.subject # 0
        BY <2>0, <2>4 DEF TakeLocation, OpeningInv, TypeOK
      <3>2. /\ Attached' = Attached /\ Reported' = Reported /\ Reached' = Reached
            /\ image' = image /\ registered' = registered /\ diagnostics' = diagnostics
            /\ todo' = todo \ {l}
            /\ at' = IF l \in Readable(image, registered) THEN l ELSE 0
        BY <2>4, <3>1 DEF TakeLocation, Attached, Reported, Reached
      <3>3. 0 \notin Attached \cup Reported
        BY <3>1, <2>0 DEF Ledger, Readable, Undecided
      <3>4. Ledger'
        BY <3>1, <3>2, <3>3, <2>0 DEF Ledger, Undecided, TypeOK
      <3>5. FallbackStage'
        BY <2>4, <3>1, <3>2, <2>0 DEF FallbackStage, TakeLocation
      <3>6. QED
        BY <2>4, <3>1, <3>2, <3>4, <3>5 DEF TakeLocation, OpeningInv, NoForeignReader, Errors
    <2>5. CASE LocateCompanion
      <3>1. CASE \E error \in {"NotFound", "Malformed", "Io"} : RecordFailure(error)
        BY <2>5, <3>1, <2>b DEF LocateCompanion, SpiErrors
      <3>2. CASE ~\E error \in {"NotFound", "Malformed", "Io"} : RecordFailure(error)
        BY <2>5, <3>2 DEF LocateCompanion, OpeningInv, NoForeignReader, Errors, Ledger,
            FallbackStage, Attached, Reported, Reached, Undecided
      <3>3. QED
        BY <3>1, <3>2
    <2>6. CASE OpenCompanion
      <3>1. CASE \E error \in SpiErrors \ {"NotFound"} : RecordFailure(error)
        BY <2>6, <3>1, <2>b DEF OpenCompanion
      <3>2. CASE ~\E error \in SpiErrors \ {"NotFound"} : RecordFailure(error)
        BY <2>6, <3>2 DEF OpenCompanion, OpeningInv, NoForeignReader, Errors, Ledger,
            FallbackStage, Attached, Reported, Reached, Undecided
      <3>3. QED
        BY <3>1, <3>2
    <2>7. CASE LoadDebugInfo
      <3>1. CASE \E error \in SpiErrors : RecordFailure(error)
        BY <2>7, <3>1, <2>b DEF LoadDebugInfo
      <3>2. CASE IdentitiesConflict(image.id, ReaderIdentity) /\ ~\E error \in SpiErrors : RecordFailure(error)
        BY <2>7, <3>2, FailureKeepsOpeningInv DEF LoadDebugInfo, Diagnostic
      <3>3. CASE ~IdentitiesConflict(image.id, ReaderIdentity) /\ ~\E error \in SpiErrors : RecordFailure(error)
        BY <2>7, <3>3, AttachKeepsOpeningInv DEF LoadDebugInfo
      <3>4. QED
        BY <3>1, <3>2, <3>3
    <2>8. CASE TryFallbacks
      <3>1. /\ pc = "next" /\ at = 0 /\ todo = {} /\ stage = "primary" /\ readers = {}
            /\ Ledger /\ \A d \in diagnostics : d.subject # 0
        BY <2>8 DEF TryFallbacks, OpeningInv
      <3>2. /\ Attached = {} /\ Attached' = {} /\ Reported' = Reported
            /\ Reached = Primary(image) /\ Reached' = Locations(image)
            /\ Undecided = {} /\ Undecided' = Fallback(image) \cap Readable(image, registered)
        BY <2>8, <3>1 DEF TryFallbacks, Attached, Reported, Reached, Undecided
      <3>3. Reported = Readable(image, registered) \cap Primary(image)
        BY <3>1, <3>2 DEF Ledger
      <3>4. Ledger' /\ FallbackStage'
        BY <2>8, <3>1, <3>2, <3>3, <2>0 DEF TryFallbacks, Ledger, FallbackStage, Readable
      <3>5. QED
        BY <2>8, <3>1, <3>4 DEF TryFallbacks, OpeningInv, NoForeignReader, Errors
    <2>9. CASE ReturnSession
      <3>1. /\ pc = "next" /\ at = 0 /\ todo = {}
            /\ stage = "fallback" \/ readers # {}
            /\ Ledger /\ FallbackStage /\ \A d \in diagnostics : d.subject # 0
        BY <2>9 DEF ReturnSession, OpeningInv
      <3>2. image.locations = <<>> => readers = {}
        <4>1. ASSUME image.locations = <<>> PROVE Attached = {}
          BY <4>1, <2>0, <3>1 DEF Ledger, Readable
        <4>2. QED
          BY <4>1 DEF Attached
      <3>3. Reported' = Reported /\ Attached' = Attached /\ Reached' = Reached /\ Undecided' = Undecided
        BY <2>9 DEF ReturnSession, NoReaderNotice, Diagnostic, Attached, Reported, Reached, Undecided
      <3>4. diagnostics' = IF readers = {} THEN diagnostics \cup {Diagnostic("Warning", "NoDebugInfo", 0)}
                                           ELSE diagnostics
        BY <2>9, <3>2 DEF ReturnSession, NoReaderNotice
      <3>5. Diagnostic("Warning", "NoDebugInfo", 0).subject = 0
        BY DEF Diagnostic
      <3>6. Ledger' /\ FallbackStage'
        BY <2>9, <3>1, <3>3, <3>4, <3>5 DEF ReturnSession, Ledger, FallbackStage
      <3>7. NoReaderIsExplained'
        BY <2>9, <3>1, <3>4, <3>5 DEF ReturnSession, NoReaderIsExplained
      <3>8. QED
        BY <2>9, <3>1, <3>6, <3>7 DEF ReturnSession, OpeningInv, NoForeignReader, Errors
    <2>10. CASE PluginPanics
      BY <2>10, <2>a DEF PluginPanics, Errors
    <2>11. CASE Returned \/ UNCHANGED vars
      BY <2>11 DEF Returned, vars, OpeningInv, NoForeignReader, Errors, Ledger, FallbackStage,
            Attached, Reported, Reached, Undecided, NoReaderIsExplained
    <2>12. QED
      BY <2>1, <2>2, <2>3, <2>4, <2>5, <2>6, <2>7, <2>8, <2>9, <2>10, <2>11 DEF Next
  <1>3. QED
    BY <1>1, <1>2, OpenTypeCorrect, PTL DEF Spec

-----------------------------------------------------------------------------
(* Primary and fallback debug info are never mixed, at any moment of any    *)
(* open (engine.rs:165-172).                                                *)
THEOREM OpenNeverMixes == Spec => []NeverBothKinds
  <1>1. TypeOK /\ OpeningInv => NeverBothKinds
    <2> SUFFICES ASSUME TypeOK, OpeningInv PROVE NeverBothKinds
      OBVIOUS
    <2>0. IsImage(image)
      BY OpenAssumption DEF TypeOK
    <2>1. CASE readers = {}
      BY <2>1 DEF NeverBothKinds, Attached
    <2>2. CASE readers # {}
      <3>1. Ledger /\ FallbackStage
        BY <2>2 DEF OpeningInv, TypeOK, PcValues, Opening
      <3>2. stage = "primary" => Attached \subseteq Primary(image)
        BY <3>1 DEF Ledger, Reached
      <3>3. QED
        BY <2>0, <3>1, <3>2, LocationFacts DEF FallbackStage, NeverBothKinds, TypeOK, Stages
    <2>3. QED
      BY <2>1, <2>2
  <1>2. QED
    BY <1>1, OpenTypeCorrect, OpenBookkeeping, PTL

(* No session ever reads debug info that carries another binary's identity  *)
(* (engine.rs:205-211).                                                     *)
THEOREM OpenChecksIdentities == Spec => []NoForeignReader
  <1>1. OpeningInv => NoForeignReader
    BY DEF OpeningInv
  <1>2. QED
    BY <1>1, OpenBookkeeping, PTL

(* A session accounts for every location that open consulted, and warns     *)
(* exactly when it has no reader (engine.rs:174-187, 199-234).              *)
THEOREM OpenAccountsForEverything ==
    Spec => [](EveryLocationAccounted /\ NoReaderIsExplained)
  <1>1. TypeOK /\ OpeningInv => EveryLocationAccounted /\ NoReaderIsExplained
    <2> SUFFICES ASSUME TypeOK, OpeningInv, result = "Session"
                 PROVE  EveryLocationAccounted /\ NoReaderIsExplained
      BY DEF EveryLocationAccounted, NoReaderIsExplained
    <2>0. /\ IsImage(image)
          /\ pc = "done" /\ at = 0
          /\ Ledger /\ FallbackStage /\ todo = {}
          /\ stage = "fallback" \/ readers # {}
          /\ NoReaderIsExplained
      BY OpenAssumption DEF OpeningInv, TypeOK
    <2>1. Undecided = {} /\ Readable(image, registered) \cap Reached = Attached \cup Reported
      BY <2>0 DEF Undecided, Ledger
    <2>2. Consulted = Readable(image, registered) \cap Reached
      <3>1. CASE stage = "fallback"
        BY <2>0, <3>1 DEF FallbackStage, Consulted, Reached
      <3>2. CASE stage = "primary"
        <4>1. Attached # {} /\ Attached \subseteq Primary(image)
          BY <2>0, <2>1, <3>2 DEF Attached, Reached
        <4>2. QED
          BY <3>2, <4>1 DEF Consulted, Reached
      <3>3. QED
        BY <3>1, <3>2 DEF TypeOK, Stages
    <2>3. QED
      BY <2>0, <2>1, <2>2 DEF EveryLocationAccounted, Ledger
  <1>2. QED
    BY <1>1, OpenTypeCorrect, OpenBookkeeping, PTL

(* A fallback is opened only after every readable primary has failed and    *)
(* its failure is recorded (engine.rs:168-172).                             *)
THEOREM OpenTriesPrimariesFirst == Spec => []FallbackOnlyAfterFailures
  <1>1. TypeOK /\ OpeningInv => FallbackOnlyAfterFailures
    <2> SUFFICES ASSUME TypeOK, OpeningInv,
                        at \in Fallback(image) \/ Reported \cap Fallback(image) # {}
                 PROVE  Readable(image, registered) \cap Primary(image) \subseteq Reported
      BY DEF FallbackOnlyAfterFailures
    <2>0. IsImage(image) /\ 0 \notin Fallback(image)
          /\ Fallback(image) = Locations(image) \ Primary(image)
          /\ Primary(image) \subseteq Locations(image)
      BY OpenAssumption, LocationFacts DEF TypeOK
    <2>1. Ledger /\ FallbackStage
      BY <2>0 DEF OpeningInv, TypeOK, Opening, PcValues, Reported
    <2>2. stage = "fallback"
      BY <2>0, <2>1 DEF Ledger, Reached, TypeOK, Stages, Undecided, Readable
    <2>3. QED
      BY <2>0, <2>1, <2>2 DEF Ledger, FallbackStage, Reached, Undecided
  <1>2. QED
    BY <1>1, OpenTypeCorrect, OpenBookkeeping, PTL

(* Open implements its one-step contract: refusing and returning a session  *)
(* are the contract's two steps, everything before them is invisible.       *)
THEOREM OpenKeepsContract == Spec => KeepsContract
  <1>0. /\ Contract!Primary(image) = Primary(image)
        /\ Contract!Locations(image) = Locations(image)
        /\ Contract!Readable(image, registered) = Readable(image, registered)
    BY DEF Primary, Locations, Readable, Kind, IsFallback, Accepts, Contract!Primary,
           Contract!Locations, Contract!Readable, Contract!Kind, Contract!IsFallback,
           Contract!Accepts
  <1>1. Init => Contract!Init
    BY DEF Init, Contract!Init, DebugBackends, Contract!DebugBackends
  <1>2. TypeOK /\ OpeningInv /\ OpeningInv' /\ [Next]_vars
        => [Contract!Next]_(Contract!contractVars)
    <2> SUFFICES ASSUME TypeOK, OpeningInv, OpeningInv', [Next]_vars
                 PROVE  Contract!Next \/ UNCHANGED Contract!contractVars
      OBVIOUS
    <2> USE DEF Contract!contractVars
    <2>a. ASSUME NEW error \in Errors, Fail(error), pc # "done"
          PROVE  Contract!Next
      <3>1. result = "Pending"
        BY <2>a DEF OpeningInv
      <3>2. Contract!Refuse
        BY <2>a, <3>1 DEF Fail, Errors, Contract!Refuse
      <3>3. QED
        BY <3>2 DEF Contract!Next
    <2>b. ASSUME UNCHANGED <<image, registered, result>>, result # "Session"
          PROVE  UNCHANGED Contract!contractVars
      BY <2>b
    <2>1. CASE ReadSource
      BY <2>1, <2>a, <2>b DEF ReadSource, Errors, OpeningInv
    <2>2. CASE ProbeFormat
      BY <2>2, <2>a, <2>b DEF ProbeFormat, Errors, OpeningInv
    <2>3. CASE OpenFormat
      BY <2>3, <2>a, <2>b DEF OpenFormat, Errors, OpeningInv
    <2>4. CASE \E l \in todo : TakeLocation(l)
      BY <2>4, <2>b DEF TakeLocation, OpeningInv
    <2>5. CASE LocateCompanion
      BY <2>5, <2>b DEF LocateCompanion, RecordFailure, OpeningInv
    <2>6. CASE OpenCompanion
      BY <2>6, <2>b DEF OpenCompanion, RecordFailure, OpeningInv
    <2>7. CASE LoadDebugInfo
      BY <2>7, <2>b DEF LoadDebugInfo, RecordFailure, OpeningInv
    <2>8. CASE TryFallbacks
      BY <2>8, <2>b DEF TryFallbacks, OpeningInv
    <2>9. CASE ReturnSession
      <3>0. IsImage(image)
        BY OpenAssumption DEF TypeOK
      <3>1. /\ pc = "next" /\ at = 0 /\ todo = {}
            /\ stage = "fallback" \/ readers # {}
            /\ result = "Pending" /\ result' = "Session"
            /\ UNCHANGED <<image, registered, readers, stage>>
            /\ Ledger /\ FallbackStage
        BY <2>9 DEF ReturnSession, OpeningInv, Opening
      <3>2. Attached' = Attached /\ Reported' = Reported
        BY <2>9 DEF ReturnSession, NoReaderNotice, Diagnostic, Attached, Reported
      <3>3. Readable(image, registered) \cap Reached = Attached \cup Reported
            /\ Attached \cap Reported = {}
        <4>1. Undecided = {}
          BY <3>1 DEF Undecided
        <4>2. QED
          BY <3>1, <4>1 DEF Ledger
      <3>4. /\ Attached \subseteq Readable(image, registered)
            /\ stage = "primary" => Attached # {} /\ Attached \subseteq Primary(image)
            /\ stage = "fallback" => Attached \cap Primary(image) = {}
        BY <3>1, <3>3 DEF FallbackStage, Reached, Attached
      <3>5. (Diagnostic("Warning", "NoDebugInfo", 0) \in diagnostics') <=> (Attached = {})
        BY <3>1 DEF OpeningInv, NoReaderIsExplained, Attached
      <3>6. Contract!Answer(Attached)
        <4> DEFINE primaries == Attached \cap Primary(image)
                   consulted == IF primaries # {} THEN Primary(image) ELSE Locations(image)
        <4>1. consulted = Reached /\ Attached \subseteq Reached
          BY <3>0, <3>3, <3>4, LocationFacts DEF Reached, TypeOK, Stages
        <4>2. Attached \cap consulted = Attached
          BY <4>1
        <4>3. (Readable(image, registered) \cap consulted) \ Attached = Reported
          BY <4>1, <3>3
        <4> HIDE DEF consulted
        <4>4. QED
          BY <1>0, <3>1, <3>2, <3>5, <4>2, <4>3 DEF Contract!Answer, consulted
      <3>7. Attached \in SUBSET Readable(image, registered)
        BY <3>4
      <3>8. QED
        BY <1>0, <3>6, <3>7 DEF Contract!Next
    <2>10. CASE PluginPanics
      BY <2>10, <2>a DEF PluginPanics, Errors
    <2>11. CASE Returned \/ UNCHANGED vars
      BY <2>11 DEF Returned, vars, Attached, Reported
    <2>12. QED
      BY <2>1, <2>2, <2>3, <2>4, <2>5, <2>6, <2>7, <2>8, <2>9, <2>10, <2>11 DEF Next
  <1>3. QED
    BY <1>1, <1>2, OpenTypeCorrect, OpenBookkeeping, PTL DEF Spec, KeepsContract, Contract!Spec
-----------------------------------------------------------------------------
(* No format that has been probed and passed over recognises the image.    *)
ProbeInv ==
    /\ pc = "read" => probed = 0
    /\ pc \in {"read", "probe"} => \A i \in 1..probed : Formats[i] \notin recognised
    /\ pc \in {"format"} \/ Opening => result = "Pending"
    /\ pc \in {"read", "probe"} => result = "Pending"
    /\ FirstFormatWins

LEMMA ProbeInvStep ==
    ASSUME TypeOK, ProbeInv, [Next]_vars
    PROVE  ProbeInv'
  <1> USE DEF ProbeInv, FirstFormatWins, Opening
  <1>0. /\ probed \in 0..Len(Formats) /\ Len(Formats) \in Nat
        /\ DOMAIN Formats = 1..Len(Formats)
        /\ recognised \subseteq {Formats[i] : i \in DOMAIN Formats}
    BY OpenAssumption DEF TypeOK
  <1>a. ASSUME NEW error, error \notin {"Session", "UnknownFormat"}, Fail(error) PROVE ProbeInv'
    BY <1>a DEF Fail
  <1>b. ASSUME NEW error, RecordFailure(error), Opening PROVE ProbeInv'
    BY <1>b DEF RecordFailure
  <1>1. CASE ReadSource
    <2>1. CASE Fail("Read")
      BY <2>1, <1>a
    <2>2. CASE pc' = "probe" /\ UNCHANGED <<recognised, probed, result>>
      BY <1>1, <2>2, <1>0 DEF ReadSource
    <2>3. QED
      BY <1>1, <2>1, <2>2 DEF ReadSource
  <1>2. CASE ProbeFormat
    <2>1. CASE probed = Len(Formats)
      <3>1. recognised = {}
        BY <1>0, <1>2, <2>1 DEF ProbeFormat
      <3>2. pc' = "done" /\ result' = "UnknownFormat" /\ recognised' = recognised
        BY <1>2, <2>1 DEF ProbeFormat, Fail
      <3>3. QED
        BY <3>1, <3>2
    <2>2. CASE probed # Len(Formats)
      <3>1. /\ probed' = probed + 1 /\ recognised' = recognised /\ result' = result
            /\ pc' = IF Formats[probed + 1] \in recognised THEN "format" ELSE "probe"
        BY <1>2, <2>2 DEF ProbeFormat
      <3>2. pc = "probe" /\ result = "Pending"
            /\ \A i \in 1..probed : Formats[i] \notin recognised
        BY <1>2 DEF ProbeFormat
      <3>3. /\ probed \in Nat /\ probed' - 1 = probed /\ probed' > 0
            /\ \A i \in 1..probed' : i = probed + 1 \/ i \in 1..probed
        BY <1>0, <3>1
      <3> HIDE DEF TypeOK, ProbeFormat
      <3>4. CASE Formats[probed + 1] \in recognised
        BY <3>1, <3>2, <3>3, <3>4
      <3>5. CASE Formats[probed + 1] \notin recognised
        BY <3>1, <3>2, <3>3, <3>5
      <3>6. QED
        BY <3>4, <3>5
    <2>3. QED
      BY <2>1, <2>2
  <1>3. CASE OpenFormat
    BY <1>3, <1>a DEF OpenFormat
  <1>4. CASE \E l \in todo : TakeLocation(l)
    BY <1>4 DEF TakeLocation
  <1>5. CASE LocateCompanion
    BY <1>5, <1>b DEF LocateCompanion
  <1>6. CASE OpenCompanion
    BY <1>6, <1>b DEF OpenCompanion
  <1>7. CASE LoadDebugInfo
    BY <1>7, <1>b DEF LoadDebugInfo
  <1>8. CASE TryFallbacks
    BY <1>8 DEF TryFallbacks
  <1>9. CASE ReturnSession
    BY <1>9 DEF ReturnSession
  <1>10. CASE PluginPanics
    BY <1>10, <1>a DEF PluginPanics
  <1>11. CASE UNCHANGED vars
    BY <1>11 DEF vars
  <1>12. QED
    BY <1>1, <1>2, <1>3, <1>4, <1>5, <1>6, <1>7, <1>8, <1>9, <1>10, <1>11 DEF Next, Returned

(* The image is opened by the first registered format that recognises it,   *)
(* and "unknown format" means that none does (formats.iter().find).         *)
THEOREM OpenFirstFormatWins == Spec => []FirstFormatWins
  <1>1. Init => ProbeInv
    BY DEF Init, ProbeInv, FirstFormatWins, Opening
  <1>2. TypeOK /\ ProbeInv /\ [Next]_vars => ProbeInv'
    BY ProbeInvStep
  <1>3. ProbeInv => FirstFormatWins
    BY DEF ProbeInv
  <1>4. QED
    BY <1>1, <1>2, <1>3, OpenTypeCorrect, PTL DEF Spec
=============================================================================
