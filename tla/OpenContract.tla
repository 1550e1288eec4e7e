---------------------------- MODULE OpenContract ----------------------------
(***************************************************************************)
(* What Engine::open promises, in one step: either an error, or a session  *)
(* whose debug readers are exactly the primary locations that could be     *)
(* read or, when there is none, the fallback locations that could, with    *)
(* a diagnostic for everything else that was consulted.                    *)
(***************************************************************************)
EXTENDS DebugLocations

CONSTANT Images

VARIABLES image,      \* the input
          registered, \* the registered backends
          result,     \* what open has returned
          attached,   \* the locations the session reads debug info from
          explained,  \* the locations its diagnostics name
          warned      \* whether it warns that there is no debug info at all

contractVars == <<image, registered, result, attached, explained, warned>>

Init ==
    /\ image \in Images
    /\ registered \in SUBSET DebugBackends
    /\ result = "Pending"
    /\ attached = {}
    /\ explained = {}
    /\ warned = FALSE

Refuse ==
    /\ result = "Pending"
    /\ result' \in {"Read", "UnknownFormat", "Format", "Internal"}
    /\ UNCHANGED <<image, registered, attached, explained, warned>>

\* `works` are the locations whose debug info can be read and is the image's.
Answer(works) ==
    LET primaries == works \cap Primary(image)
        consulted == IF primaries # {} THEN Primary(image) ELSE Locations(image)
    IN  /\ result = "Pending"
        /\ result' = "Session"
        /\ attached' = works \cap consulted
        /\ explained' = (Readable(image, registered) \cap consulted) \ works
        /\ warned' = (works = {})
        /\ UNCHANGED <<image, registered>>

Next == Refuse \/ \E works \in SUBSET Readable(image, registered) : Answer(works)

Spec == Init /\ [][Next]_contractVars
=============================================================================
