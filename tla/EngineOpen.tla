----------------------------- MODULE EngineOpen -----------------------------
(***************************************************************************)
(* Engine::open of libstratum-core: probe the registered formats, open the *)
(* image, open the debug info its locations name, check identities, and    *)
(* return a session with its diagnostics or an error.                      *)
(*                                                                         *)
(* Each plugin call (probe, open, locate, the companion's open, load) is a *)
(* step of its own that may succeed, fail or panic.  The outcome of a      *)
(* plugin call is a nondeterministic choice: the plugins are modelled by   *)
(* what the engine can see of them.                                        *)
(***************************************************************************)
EXTENDS DebugLocations

CONSTANTS Formats,    \* registered container plugins, in registration order
          Images      \* what the container plugins may return

ASSUME OpenAssumption ==
    /\ Formats \in Seq(STRING)
    /\ \A img \in Images : IsImage(img)

VARIABLES
    pc,          \* where open_inner stands
    registered,  \* the registered debug-info backends (Cargo features)
    recognised,  \* the registered formats whose probe does not answer No
    probed,      \* how many formats have been probed
    image,       \* what the format opened (meaningful once pc has passed "format")
    stage,       \* the call of open_locations: primary or fallback locations
    todo,        \* locations open_locations has not reached yet
    at,          \* the location being opened (0: none)
    companion,   \* identity recorded in the companion file found for it
    readers,     \* debug readers attached so far
    diagnostics, \* diagnostics recorded so far
    result       \* what open has returned

vars == <<pc, registered, recognised, probed, image, stage, todo, at, companion,
          readers, diagnostics, result>>

SpiErrors == {"NotFound", "Unimplemented", "Malformed", "Io", "LimitExceeded"}
Errors    == {"Read", "UnknownFormat", "Format", "Internal"}

\* Definitions named Faulty... are plausible slips in the code; Next does not use them.
FaultyIdentitiesConflict(imageId, debugId) ==
    imageId # NoIdentity /\ debugId = NoIdentity

IdentitiesConflict(imageId, debugId) ==
    imageId # NoIdentity /\ debugId # NoIdentity /\ imageId # debugId

Diagnostic(severity, code, subject) ==
    [severity |-> severity, code |-> code, subject |-> subject]

\* A missing companion file is reported without its location.
FaultyFailure(error, l) ==
    IF error = "NotFound" THEN Diagnostic("Info", "NoDebugInfo", 0)
                          ELSE Diagnostic("Warning", "DebugInfoParseError", l)

\* The diagnostic a failed backend turns into.
Failure(error, l) ==
    CASE error = "NotFound"      -> Diagnostic("Info", "NoDebugInfo", l)
      [] error = "Unimplemented" -> Diagnostic("Info", "Unimplemented", l)
      [] OTHER                   -> Diagnostic("Warning", "DebugInfoParseError", l)

Init ==
    /\ pc = "read"
    /\ registered \in SUBSET DebugBackends
    /\ recognised \in SUBSET {Formats[i] : i \in DOMAIN Formats}
    /\ probed = 0
    /\ image \in Images
    /\ stage = "primary"
    /\ todo = {}
    /\ at = 0
    /\ companion = NoIdentity
    /\ readers = {}
    /\ diagnostics = {}
    /\ result = "Pending"

-----------------------------------------------------------------------------
(* Open fails: whatever was built so far is dropped with the call's frame. *)
Fail(error) ==
    /\ pc' = "done"
    /\ result' = error
    /\ readers' = {}
    /\ diagnostics' = {}
    /\ todo' = {}
    /\ at' = 0
    /\ UNCHANGED <<registered, recognised, probed, image, stage, companion>>

(* source.bytes(): the input may be unreadable. *)
ReadSource ==
    /\ pc = "read"
    /\ \/ /\ pc' = "probe"
          /\ UNCHANGED <<registered, recognised, probed, image, stage, todo, at, companion,
                         readers, diagnostics, result>>
       \/ Fail("Read")

(* formats.iter().find(probe): one format after the other. *)
ProbeFormat ==
    /\ pc = "probe"
    /\ IF probed = Len(Formats)
       THEN Fail("UnknownFormat")
       ELSE /\ probed' = probed + 1
            /\ pc' = IF Formats[probed + 1] \in recognised THEN "format" ELSE "probe"
            /\ UNCHANGED <<registered, recognised, image, stage, todo, at, companion,
                           readers, diagnostics, result>>

(* format.open: an error, or an image whose primary locations come first. *)
OpenFormat ==
    /\ pc = "format"
    /\ \/ /\ pc' = "next"
          /\ todo' = Primary(image)
          /\ UNCHANGED <<registered, recognised, probed, image, stage, at, companion,
                         readers, diagnostics, result>>
       \/ Fail("Format")

\* A location no backend accepts is looked at again.
FaultyTakeLocation(l) ==
    /\ pc = "next" /\ l \in todo
    /\ \A other \in todo : l <= other
    /\ IF l \in Readable(image, registered)
       THEN /\ at' = l
            /\ pc' = IF Kind(image, l) = "Embedded" THEN "load" ELSE "locate"
            /\ todo' = todo \ {l}
       ELSE UNCHANGED <<at, pc, todo>>
    /\ UNCHANGED <<registered, recognised, probed, image, stage, companion, readers,
                   diagnostics, result>>

(* open_locations takes its next location; one no backend accepts is skipped. *)
TakeLocation(l) ==
    /\ pc = "next"
    /\ l \in todo
    /\ \A other \in todo : l <= other
    /\ todo' = todo \ {l}
    /\ IF l \in Readable(image, registered)
       THEN /\ at' = l
            /\ pc' = IF Kind(image, l) = "Embedded" THEN "load" ELSE "locate"
       ELSE UNCHANGED <<at, pc>>
    /\ UNCHANGED <<registered, recognised, probed, image, stage, companion, readers,
                   diagnostics, result>>

(* The backend's Err, seen by open_locations. *)
RecordFailure(error) ==
    /\ diagnostics' = diagnostics \cup {Failure(error, at)}
    /\ at' = 0
    /\ pc' = "next"
    /\ companion' = NoIdentity
    /\ UNCHANGED <<registered, recognised, probed, image, stage, todo, readers, result>>

(* context.locate: the companion is found, missing, or cannot be read. *)
LocateCompanion ==
    /\ pc = "locate"
    /\ \/ /\ companion' \in BinaryIds
          /\ pc' = IF Kind(image, at) = "Pdb" THEN "load" ELSE "companion"
          /\ UNCHANGED <<registered, recognised, probed, image, stage, todo, at, readers,
                         diagnostics, result>>
       \/ \E error \in {"NotFound", "Malformed", "Io"} : RecordFailure(error)

(* context.open_image: no format recognises the companion, or it fails to open. *)
OpenCompanion ==
    /\ pc = "companion"
    /\ \/ /\ pc' = "load"
          /\ UNCHANGED <<registered, recognised, probed, image, stage, todo, at, companion,
                         readers, diagnostics, result>>
       \/ \E error \in SpiErrors \ {"NotFound"} : RecordFailure(error)

(* The identity a reader reports: debug-map objects have none of their own. *)
ReaderIdentity ==
    CASE Kind(image, at) = "Embedded"    -> image.id
      [] Kind(image, at) = "MachOObject" -> NoIdentity
      [] OTHER                           -> companion

(* DwarfReader::load or the eager PDB validation, then the identity check. *)
LoadDebugInfo ==
    /\ pc = "load"
    /\ \/ /\ IF IdentitiesConflict(image.id, ReaderIdentity)
             THEN /\ diagnostics' = diagnostics
                                    \cup {Diagnostic("Error", "DebugInfoMismatch", at)}
                  /\ UNCHANGED readers
             ELSE /\ readers' = readers \cup {[location |-> at, id |-> ReaderIdentity]}
                  /\ UNCHANGED diagnostics
          /\ at' = 0
          /\ companion' = NoIdentity
          /\ pc' = "next"
          /\ UNCHANGED <<registered, recognised, probed, image, stage, todo, result>>
       \/ \E error \in SpiErrors : RecordFailure(error)

\* The fallbacks are consulted whatever the primaries gave.
FaultyTryFallbacks ==
    /\ pc = "next" /\ todo = {} /\ stage = "primary"
    /\ stage' = "fallback"
    /\ todo' = Fallback(image)
    /\ UNCHANGED <<pc, registered, recognised, probed, image, at, companion, readers,
                   diagnostics, result>>

(* Fallbacks stand in for primary debug info that couldn't be read. *)
TryFallbacks ==
    /\ pc = "next" /\ todo = {} /\ stage = "primary" /\ readers = {}
    /\ stage' = "fallback"
    /\ todo' = Fallback(image)
    /\ UNCHANGED <<pc, registered, recognised, probed, image, at, companion, readers,
                   diagnostics, result>>

(* The last diagnostic: no location, or none could be read (subject 0: none). *)
NoReaderNotice(img, attached) ==
    IF img.locations = <<>> \/ attached = {}
    THEN {Diagnostic("Warning", "NoDebugInfo", 0)}
    ELSE {}

ReturnSession ==
    /\ pc = "next" /\ todo = {}
    /\ stage = "fallback" \/ readers # {}
    /\ diagnostics' = diagnostics \cup NoReaderNotice(image, readers)
    /\ result' = "Session"
    /\ pc' = "done"
    /\ UNCHANGED <<registered, recognised, probed, image, stage, todo, at, companion, readers>>

(* A plugin panics; catch_unwind turns it into OpenError::Internal. *)
PluginPanics ==
    /\ pc \in {"read", "probe", "format", "next", "locate", "companion", "load"}
    /\ Fail("Internal")

Returned == pc = "done" /\ UNCHANGED vars

Next ==
    \/ ReadSource \/ ProbeFormat \/ OpenFormat
    \/ \E l \in todo : TakeLocation(l)
    \/ LocateCompanion \/ OpenCompanion \/ LoadDebugInfo
    \/ TryFallbacks \/ ReturnSession
    \/ PluginPanics
    \/ Returned

Spec == Init /\ [][Next]_vars

\* What open does as long as nothing panics.
Progress ==
    \/ ReadSource \/ ProbeFormat \/ OpenFormat
    \/ \E l \in todo : TakeLocation(l)
    \/ LocateCompanion \/ OpenCompanion \/ LoadDebugInfo
    \/ TryFallbacks \/ ReturnSession

\* One thread runs open to its end: every plugin call returns, and a panic is
\* possible at any time but nothing to count on.
FairSpec == Spec /\ WF_vars(Progress)

-----------------------------------------------------------------------------
Stages   == {"primary", "fallback"}
PcValues == {"read", "probe", "format", "next", "locate", "companion", "load", "done"}

Diagnostics == [severity : {"Info", "Warning", "Error"},
                code : {"NoDebugInfo", "Unimplemented", "DebugInfoParseError",
                        "DebugInfoMismatch"},
                subject : Nat]

(* Every variable has its type; in particular todo, at and the readers only *)
(* name locations of the image.                                             *)
TypeOK ==
    /\ pc \in PcValues
    /\ registered \subseteq DebugBackends
    /\ recognised \subseteq {Formats[i] : i \in DOMAIN Formats}
    /\ probed \in 0..Len(Formats)
    /\ image \in Images
    /\ stage \in Stages
    /\ todo \subseteq Locations(image)
    /\ at \in IF pc \in {"locate", "companion", "load"} THEN Locations(image) ELSE {0}
    /\ companion \in BinaryIds
    /\ readers \subseteq [location : Locations(image), id : BinaryIds]
    /\ diagnostics \subseteq Diagnostics
    /\ result \in Errors \cup {"Pending", "Session"}

Attached == {reader.location : reader \in readers}
Reported == {d.subject : d \in diagnostics} \ {0}

\* What open_debug_info consults: fallbacks only when no primary was attached.
Consulted ==
    Readable(image, registered)
        \cap (IF Attached \cap Primary(image) # {} THEN Primary(image) ELSE Locations(image))

(* "Fallbacks stand in for primary debug info that couldn't be read; never  *)
(* both" (engine.rs:170): debug-map objects are never mixed with the dSYM   *)
(* they were linked into, stripped sections never with the separate file.   *)
NeverBothKinds ==
    Attached \cap Primary(image) = {} \/ Attached \cap Fallback(image) = {}

(* No answer of a session ever comes from debug info built for another      *)
(* binary: a reader with an identity of its own has the image's.            *)
NoForeignReader ==
    \A reader \in readers :
        \/ image.id = NoIdentity
        \/ reader.id = NoIdentity
        \/ reader.id = image.id

(* A session accounts for everything open consulted: every location some    *)
(* backend accepts is attached or named by exactly one diagnostic, never    *)
(* both, and no location that was not consulted is mentioned.               *)
EveryLocationAccounted ==
    result = "Session" =>
        /\ Attached \cup Reported = Consulted
        /\ Attached \cap Reported = {}
        /\ \A d, e \in diagnostics : d.subject = e.subject => d = e

(* "Missing or mismatched debug info produces diagnostics, not errors"      *)
(* (engine.rs:113): a session without a reader says so in a warning that    *)
(* no particular location explains away; one with a reader never does.      *)
NoReaderIsExplained ==
    result = "Session" =>
        (readers = {} <=> Diagnostic("Warning", "NoDebugInfo", 0) \in diagnostics)

(* A fallback is only touched when every primary a backend accepts has      *)
(* failed and its failure is on record.                                     *)
FallbackOnlyAfterFailures ==
    (at \in Fallback(image) \/ Reported \cap Fallback(image) # {}) =>
        Readable(image, registered) \cap Primary(image) \subseteq Reported

(* The image is opened by the first registered format that recognises it,   *)
(* and only an input no format recognises is an unknown format.             *)
FirstFormatWins ==
    /\ pc \in {"format", "next", "locate", "companion", "load"} \/ result = "Session" =>
         /\ probed > 0 /\ Formats[probed] \in recognised
         /\ \A i \in 1..(probed - 1) : Formats[i] \notin recognised
    /\ result = "UnknownFormat" => recognised = {}

\* What a caller can see of the open in progress: nothing, until it returns.
Contract ==
    INSTANCE OpenContract WITH
        attached  <- IF result = "Session" THEN Attached ELSE {},
        explained <- IF result = "Session" THEN Reported ELSE {},
        warned    <- result = "Session"
                     /\ Diagnostic("Warning", "NoDebugInfo", 0) \in diagnostics

(* Open, with its plugin calls, partial results and panics, does what the   *)
(* one-step contract promises: the session depends only on which locations  *)
(* could be read, whatever happened on the way.                             *)
KeepsContract == Contract!Spec

(* Open always returns: no location is revisited, no stage is repeated.     *)
OpenReturns == <>(result # "Pending")

=============================================================================
