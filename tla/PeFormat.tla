------------------------------- MODULE PeFormat -------------------------------
(***************************************************************************)
(* What the PE reader makes of a file.  PE has no segments and a linked    *)
(* image no symbols; the reader answers the loader's view instead: one     *)
(* mapping of the whole image, and the headers at its start.               *)
(***************************************************************************)
EXTENDS Extents

\* Programs for DOS begin alike; the signature of a PE file counts if it is where the header
\* says, within the bytes that a probe is given.
PeProbe(file) == Len(file.begins) >= 2 /\ file.begins[1] = 77 /\ file.begins[2] = 90 /\ file.signature

\* Numbers in the headers fit their fields, and may be any otherwise.
PeNumbers(file) ==
    /\ {file.base, file.sizeOfImage, file.sizeOfHeaders, file.length} \subseteq Addresses
    /\ \A k \in DOMAIN file.sections :
          LET sh == file.sections[k]
          IN {sh.rva, sh.rawPointer, sh.rawSize, sh.virtualSize} \subseteq Addresses

PeSegment(vm, file, load) ==
    [name |-> None, accessible |-> TRUE, extent |-> Extent(vm, file, load)]

PeSegments(file) ==
    LET headers == AddrRange(file.base, Lesser(file.sizeOfHeaders, file.sizeOfImage))
    IN << PeSegment(AddrRange(file.base, file.sizeOfImage), NoRange, NoRange),
          PeSegment(headers, AddrRange(0, file.sizeOfHeaders), headers) >>

PeNamedKinds ==
    [name \in {".debug_info", ".debug_line", ".pdata", ".xdata", ".reloc", ".tls"} |->
        CASE name \in {".debug_info", ".debug_line"} -> "Debug" \* .debug*
          [] name \in {".pdata", ".xdata"}           -> "Unwind"
          [] name = ".reloc"                         -> "Relocs"
          [] OTHER                                   -> "Tls"]

PeKind(sh) ==
    IF sh.name \in DOMAIN PeNamedKinds THEN PeNamedKinds[sh.name]
    ELSE IF sh.flags \cap {"CNT_CODE", "MEM_EXECUTE"} # {} THEN "Code"
    ELSE IF "CNT_UNINITIALIZED_DATA" \in sh.flags /\ "CNT_INITIALIZED_DATA" \notin sh.flags
    THEN "ZeroInit"
    ELSE IF "MEM_WRITE" \in sh.flags THEN "Data"
    ELSE IF "MEM_READ" \in sh.flags THEN "ReadOnlyData"
    ELSE "Other"

VirtualSize(sh) == IF sh.virtualSize = 0 THEN sh.rawSize ELSE sh.virtualSize

\* How linkers lay out a program: sections lie apart, and raw data has a place in the file.
PeConventions(file) ==
    /\ \A j, k \in DOMAIN file.sections :
          j # k => Apart(file.sections[j].rva, VirtualSize(file.sections[j]),
                         file.sections[k].rva, VirtualSize(file.sections[k]))
    /\ \A k \in DOMAIN file.sections : file.sections[k].rawSize > 0 => file.sections[k].rawPointer > 0

\* The padding of the raw data is loaded with it.
FaultyPeSection(file, index) ==
    LET sh     == file.sections[index]
        va     == file.base + sh.rva
        stored == sh.rawSize > 0 /\ sh.rawPointer > 0
    IN [id |-> index, label |-> sh.name, kind |-> PeKind(sh),
        extent |-> Extent(AddrRange(va, VirtualSize(sh)),
                          RangeIf(stored, sh.rawPointer, sh.rawSize),
                          RangeIf(stored, va, sh.rawSize))]

\* Raw data is padded in the file; of a section that is larger the rest is zero.
PeSection(file, index) ==
    LET sh     == file.sections[index]
        va     == file.base + sh.rva
        stored == sh.rawSize > 0 /\ sh.rawPointer > 0
    IN [id |-> index, label |-> sh.name, kind |-> PeKind(sh),
        extent |-> Extent(AddrRange(va, VirtualSize(sh)),
                          RangeIf(stored, sh.rawPointer, sh.rawSize),
                          RangeIf(stored, va, Lesser(sh.rawSize, VirtualSize(sh))))]

PeLocations(file) ==
    (IF \E k \in DOMAIN file.sections : file.sections[k].name = ".debug_info"
     THEN <<"Embedded">> ELSE <<>>)
    \o (IF file.pdb # None THEN <<"Pdb">> ELSE <<>>)

PeImage(file) ==
    IF \/ ~file.parses \/ file.optional \notin {"PE32", "PE32+"}
       \/ \E k \in DOMAIN file.sections : file.base + file.sections[k].rva > MaxAddress
    THEN Malformed
    ELSE [status |-> "ok", id |-> file.pdb, arch |-> file.machine,
          addressSize |-> IF file.optional = "PE32+" THEN 8 ELSE 4,
          headersSize |-> file.sizeOfHeaders, fileSize |-> file.length,
          segments |-> PeSegments(file),
          sections |-> [k \in DOMAIN file.sections |-> PeSection(file, k)],
          symbols |-> {}, locations |-> PeLocations(file)]

\* A linked file is whole: headers and raw data are in it.
PeWhole(file) ==
    /\ file.sizeOfHeaders <= file.length
    /\ \A k \in DOMAIN file.sections :
          LET sh == file.sections[k]
          IN /\ sh.rawPointer + sh.rawSize <= file.length
             /\ file.linked.contents[file.machine][k] = sh.rawSize
    /\ file.linked.start[file.machine] = 0

\* The bytes of a section, which may have none, if they are in the source.
PeSectionData(file, index) ==
    LET range == PeSection(file, index).extent["file"]
    IN IF range = NoRange THEN Bytes(0, 0)
       ELSE IF range.start + range.size > Lesser(file.length, MaxAddress) THEN Refused("Malformed")
       ELSE Bytes(range.start, range.size)
=============================================================================
