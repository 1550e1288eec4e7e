---------------------------- MODULE MCEngineOpen ----------------------------
(***************************************************************************)
(* Images as the three container plugins build them, in the order in which *)
(* they list their debug locations (ELF lib.rs:241-250, Mach-O             *)
(* lib.rs:160-190, PE lib.rs:154-170).                                     *)
(***************************************************************************)
EXTENDS EngineOpen

CONSTANTS a, b   \* two identities

MCFormats == <<"elf", "macho", "pe">>

Image(id, locations) == [id |-> id, locations |-> locations]

ElfImages ==
    {Image(a, embedded \o link \o <<"BuildId">>) :
        embedded \in {<<>>, <<"Embedded">>}, link \in {<<>>, <<"DebugLink">>}}
    \cup {Image(NoIdentity, <<"DebugLink">>), Image(NoIdentity, <<>>)}

MachOImages ==
    {Image(a, <<"Dsym", "MachOObject", "MachOObject">>),
     Image(a, <<"Embedded", "Dsym">>),
     Image(NoIdentity, <<"MachOObject">>)}

PeImages ==
    {Image(a, <<"Pdb">>), Image(a, <<"Embedded", "Pdb">>)}

MCImages == ElfImages \cup MachOImages \cup PeImages
=============================================================================
