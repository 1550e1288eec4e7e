----------------------------- MODULE MachOFormat -----------------------------
(***************************************************************************)
(* What the Mach-O reader makes of a file: thin, or a universal binary of  *)
(* which one slice is read.  Offsets in a slice count from its start, and  *)
(* sections are numbered through all segments, from 1.                     *)
(***************************************************************************)
EXTENDS Extents

CONSTANT MaxFatArchs \* MAX_FAT_ARCHS

\* Of 32 and of 64 bits, in either byte order; universal binaries are big-endian.
MachMagics ==
    {<<254, 237, 250, 206>>, <<254, 237, 250, 207>>, <<206, 250, 237, 254>>, <<207, 250, 237, 254>>}
FatMagics  == {<<202, 254, 186, 190>>, <<202, 254, 186, 191>>}

\* The bound counts the binaries in.
FaultyMachOProbe(file) ==
    \/ file.begins \in MachMagics
    \/ file.begins \in FatMagics /\ file.count \in 1..MaxFatArchs

\* Class files of Java begin like universal binaries, with a version for the count; None is
\* the count of a file that ends before it.
MachOProbe(file) ==
    \/ file.begins \in MachMagics
    \/ file.begins \in FatMagics /\ file.count \in 1..(MaxFatArchs - 1)

\* The slice for an architecture: the first one there is (a thin file is its own slice).
SliceOf(file, arch) ==
    LET fitting == {k \in DOMAIN file.slices : file.slices[k].arch = arch}
    IN IF file.begins \notin FatMagics THEN file.slices[1]
       ELSE IF fitting = {} THEN None
       ELSE file.slices[CHOOSE k \in fitting : \A j \in fitting : k <= j]

\* Numbers in the headers fit their fields, and may be any otherwise; the size of the load
\* commands is a number of 32 bits.
MachONumbers(file) ==
    /\ file.length \in Addresses /\ DOMAIN file.slices \subseteq Nat
    /\ file.begins \notin FatMagics => 1 \in DOMAIN file.slices
    /\ \A s \in DOMAIN file.slices :
          LET slice == file.slices[s]
          IN /\ {slice.offset, slice.length, slice.headerSize + slice.sizeofcmds} \subseteq Addresses
             /\ \A k \in DOMAIN slice.segments :
                   LET seg == slice.segments[k]
                   IN {seg.vmaddr, seg.vmsize, seg.fileoff, seg.filesize} \subseteq Addresses
             /\ \A k \in DOMAIN slice.sections :
                   LET sect == slice.sections[k]
                   IN {sect.addr, sect.size, sect.offset} \subseteq Addresses
             /\ \A k \in DOMAIN slice.symtab : slice.symtab[k].value \in Addresses

-----------------------------------------------------------------------------
(* Segments.                                                               *)
MachOSegment(seg) ==
    LET mapped == seg.vmsize > 0 /\ seg.name # "__DWARF"
        stored == seg.filesize > 0
    IN [name |-> seg.name, accessible |-> seg.initprot # {},
        extent |-> Extent(RangeIf(mapped, seg.vmaddr, seg.vmsize),
                          RangeIf(stored, seg.fileoff, seg.filesize),
                          RangeIf(stored /\ mapped /\ seg.name # "__LINKEDIT",
                                  seg.vmaddr, Lesser(seg.filesize, seg.vmsize)))]

-----------------------------------------------------------------------------
(* Sections.                                                               *)
ZerofillTypes    == {"S_ZEROFILL", "S_GB_ZEROFILL", "S_THREAD_LOCAL_ZEROFILL"}
ThreadLocalTypes ==
    {"S_THREAD_LOCAL_REGULAR", "S_THREAD_LOCAL_ZEROFILL", "S_THREAD_LOCAL_VARIABLES"}
LiteralTypes     ==
    {"S_CSTRING_LITERALS", "S_4BYTE_LITERALS", "S_8BYTE_LITERALS", "S_16BYTE_LITERALS"}

MachOKind(sect) ==
    IF sect.segment = "__DWARF" THEN "Debug"
    ELSE IF sect.type \in ThreadLocalTypes THEN "Tls"
    ELSE IF sect.name \in {"__unwind_info", "__eh_frame"} THEN "Unwind"
    ELSE IF sect.instructions THEN "Code"
    ELSE IF sect.type \in ZerofillTypes THEN "ZeroInit"
    ELSE IF sect.type \in LiteralTypes THEN "Literals"
    ELSE IF sect.segment \in {"__TEXT", "__DATA_CONST"} THEN "ReadOnlyData"
    ELSE "Data"

Stored(sect) == sect.type \notin ZerofillTypes /\ sect.offset > 0 /\ sect.size > 0

\* slice.sections lists the sections of all segments, in the order of the segments.
MachOSection(slice, index) ==
    LET sect   == slice.sections[index]
        mapped == sect.segment # "__DWARF"
    IN [id |-> index, label |-> <<sect.segment, sect.name>>, kind |-> MachOKind(sect),
        extent |-> Extent(RangeIf(mapped, sect.addr, sect.size),
                          RangeIf(Stored(sect), sect.offset, sect.size),
                          RangeIf(mapped /\ Stored(sect), sect.addr, sect.size))]

\* How linkers lay out a program: segments lie apart, their stored bytes first, and a
\* section lies in one of them, as far behind its start in memory as in the file; those
\* of __DWARF are not in memory, and TLS templates are not at their addresses.
MachOConventions(slice) ==
    LET loaded == {k \in DOMAIN slice.segments : slice.segments[k].name # "__DWARF"}
    IN /\ \A j, k \in loaded :
             j # k => Apart(slice.segments[j].vmaddr, slice.segments[j].vmsize,
                            slice.segments[k].vmaddr, slice.segments[k].vmsize)
       /\ \A k \in DOMAIN slice.sections :
             LET sect == slice.sections[k]
             IN MachOKind(sect) \notin {"Debug", "Tls"} /\ sect.size > 0 =>
                  \E j \in loaded :
                      LET seg    == slice.segments[j]
                          stored == Lesser(seg.filesize, seg.vmsize)
                      IN IF Stored(sect)
                         THEN /\ seg.vmaddr <= sect.addr /\ sect.addr + sect.size <= seg.vmaddr + stored
                              /\ sect.offset = seg.fileoff + (sect.addr - seg.vmaddr)
                         ELSE /\ seg.vmaddr + stored <= sect.addr
                              /\ sect.addr + sect.size <= seg.vmaddr + seg.vmsize

MachOSections(slice) == [k \in DOMAIN slice.sections |-> MachOSection(slice, k)]

\* Linkers name section 1 for the header in front of it.
NListSection(slice, nlist) ==
    LET vm == IF nlist.sect \in DOMAIN slice.sections
              THEN MachOSection(slice, nlist.sect).extent["vm"] ELSE NoRange
    IN IF nlist.type = "N_ABS" \/ (vm # NoRange /\ ~Within(vm, nlist.value))
       THEN None ELSE nlist.sect

InCode(slice, section) ==
    section \in DOMAIN slice.sections /\ MachOKind(slice.sections[section]) = "Code"

MachOSymbol(slice, index) ==
    LET nlist   == slice.symtab[index]
        section == NListSection(slice, nlist)
    IN [id |-> index, name |-> nlist.name, address |-> nlist.value, size |-> 0,
        section |-> section, thumb |-> FALSE,
        kind |-> IF section = None THEN "Label"
                 ELSE IF InCode(slice, section) THEN "Function" ELSE "Object"]

\* Defined or absolute, and named; "" is no name.
MachOSymbols(slice) ==
    {MachOSymbol(slice, k) :
        k \in {k \in DOMAIN slice.symtab :
                 LET nlist == slice.symtab[k]
                 IN /\ nlist.stab = None /\ nlist.type \in {"N_SECT", "N_ABS"}
                    /\ nlist.name \notin {"unreadable", ""}}}

\* Of objects without a name in the string table nothing is looked for.
ObjectStabs(slice) ==
    SelectSeq(slice.symtab, LAMBDA n :
        n.stab = "N_OSO" /\ n.nameOffset # 0 /\ n.name \notin {"unreadable", ""})

\* The last identity counts.
MachOId(slice) == IF slice.uuids = <<>> THEN None ELSE slice.uuids[Len(slice.uuids)]

MachOLocations(slice) ==
    LET objects == ObjectStabs(slice)
    IN (IF \E k \in DOMAIN slice.segments : slice.segments[k].name = "__DWARF"
        THEN <<"Embedded">> ELSE <<>>)
       \o (IF MachOId(slice) # None THEN <<"Dsym">> ELSE <<>>)
       \o [k \in DOMAIN objects |-> "MachOObject"]

\* The size of a slice is known to be other than the source's only if it is inside of one.
MachOImage(file, arch) ==
    LET slice == SliceOf(file, arch)
    IN IF ~file.parses \/ slice = None THEN Malformed
       ELSE [status |-> "ok", id |-> MachOId(slice), arch |-> slice.arch,
             addressSize |-> IF slice.is64 THEN 8 ELSE 4,
             headersSize |-> slice.headerSize + slice.sizeofcmds,
             fileSize |-> IF slice.offset # 0 THEN slice.length ELSE file.length,
             segments |-> [k \in DOMAIN slice.segments |-> MachOSegment(slice.segments[k])],
             sections |-> MachOSections(slice), symbols |-> MachOSymbols(slice),
             locations |-> MachOLocations(slice)]

\* A linked file is whole: slices are in it, and in each what is stored there; symbols are
\* in sections that take memory.
MachOWhole(file, slice) ==
    /\ slice.offset + slice.length <= file.length
    /\ \A k \in DOMAIN slice.segments :
          LET seg == slice.segments[k] IN seg.filesize > 0 => seg.fileoff + seg.filesize <= slice.length
    /\ \A k \in DOMAIN slice.sections :
          LET sect == slice.sections[k]
          IN /\ Stored(sect) => sect.offset + sect.size <= slice.length
             /\ file.linked.contents[slice.arch][k] = sect.size
    /\ \A k \in DOMAIN slice.symtab :
          LET nlist == slice.symtab[k]
          IN nlist.stab = None /\ nlist.type = "N_SECT" =>
                nlist.sect \in DOMAIN slice.sections /\ slice.sections[nlist.sect].segment # "__DWARF"
    /\ file.linked.start[slice.arch] = slice.offset

\* Offsets in a universal binary's slice are taken for ones in the file.
FaultyMachOSectionData(file, arch, index) ==
    LET range == MachOSection(SliceOf(file, arch), index).extent["file"]
    IN IF range = NoRange THEN Bytes(0, 0)
       ELSE IF range.start + range.size > Lesser(file.length, MaxAddress) THEN Refused("Malformed")
       ELSE Bytes(range.start, range.size)

\* The bytes of a section, if they are anywhere in the source: in its slice or not.
MachOSectionData(file, arch, index) ==
    LET slice == SliceOf(file, arch)
        range == MachOSection(slice, index).extent["file"]
        start == slice.offset + range.start
    IN IF range = NoRange THEN Bytes(0, 0)
       ELSE IF start + range.size > Lesser(file.length, MaxAddress) THEN Refused("Malformed")
       ELSE Bytes(start, range.size)
=============================================================================
