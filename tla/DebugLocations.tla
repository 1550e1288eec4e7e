--------------------------- MODULE DebugLocations ---------------------------
(***************************************************************************)
(* Where the debug info of an image may live (ir.rs), which backend reads  *)
(* which kind of location, and which locations only stand in for others.   *)
(***************************************************************************)
EXTENDS Naturals, Sequences

CONSTANTS Identities,  \* build ids, UUIDs and PDB GUID+age pairs
          NoIdentity   \* BinaryId::None

ASSUME IdentityAssumption == NoIdentity \notin Identities

BinaryIds == Identities \cup {NoIdentity}

LocationKinds == {"Embedded", "Dsym", "MachOObject", "SplitDwo", "Dwp",
                  "DebugLink", "BuildId", "Pdb"}

DebugBackends == {"dwarf", "pdb"}

\* An image, as far as its debug info goes: its identity and its locations.
IsImage(img) ==
    /\ img.id \in BinaryIds
    /\ img.locations \in Seq(LocationKinds)

IsFallback(kind) == kind \in {"MachOObject", "DebugLink", "BuildId"}

Accepts(backend, kind) ==
    \/ backend = "dwarf" /\ kind \in {"Embedded", "Dsym", "MachOObject", "DebugLink", "BuildId"}
    \/ backend = "pdb" /\ kind = "Pdb"

Locations(img) == DOMAIN img.locations
Kind(img, l)   == img.locations[l]
Primary(img)   == {l \in Locations(img) : ~IsFallback(Kind(img, l))}
Fallback(img)  == {l \in Locations(img) : IsFallback(Kind(img, l))}

\* The locations some registered backend accepts.
Readable(img, backends) ==
    {l \in Locations(img) : \E backend \in backends : Accepts(backend, Kind(img, l))}
=============================================================================
