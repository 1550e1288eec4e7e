------------------------------ MODULE Containers ------------------------------
(***************************************************************************)
(* The container readers behind the interface that the engine sees: a      *)
(* format claims a file by its header, opens it, and the image answers     *)
(* with its structure and, section by section, with bytes.                 *)
(*                                                                         *)
(* file.linked says what the linker that wrote the file put where, and of  *)
(* a file with damaged headers it is None; file.is says of what format a   *)
(* file is.  No reader looks at either.                                    *)
(***************************************************************************)
EXTENDS ElfFormat, PeFormat, MachOFormat

CONSTANTS Files,  \* [is, begins, count, linked, ...], the rest as its format has it
          Wanted, \* OpenOptions::arch, or None
          Host    \* the architecture this code runs on

ASSUME HeaderAssumption ==
    \A f \in Files : f.parses =>
        /\ ElfProbe(f) => ElfNumbers(f)
        /\ PeProbe(f) => PeNumbers(f)
        /\ MachOProbe(f) => MachONumbers(f)

\* A file that a linker wrote is laid out as linkers lay out files, and whole.
ASSUME LinkerAssumption ==
    \A f \in Files : f.linked # None /\ f.parses =>
        /\ ElfProbe(f) => ElfConventions(f) /\ ElfWhole(f)
        /\ PeProbe(f) => PeConventions(f) /\ PeWhole(f)
        /\ MachOProbe(f) =>
              \A k \in DOMAIN f.slices : MachOConventions(f.slices[k]) /\ MachOWhole(f, f.slices[k])

ASSUME LimitAssumption == MaxRatio \in Nat /\ RatioSlack \in Nat

VARIABLES file, wanted, image, read

vars == <<file, wanted, image, read>>

Formats == {"elf", "macho", "pe"}

Probe(format) ==
    CASE format = "elf"   -> ElfProbe(file)
      [] format = "pe"    -> PeProbe(file)
      [] format = "macho" -> MachOProbe(file)

Arch == IF wanted = None THEN Host ELSE wanted

Init ==
    /\ file \in Files /\ wanted \in Wanted
    /\ image = None /\ read = None

OpenImage(format, answer) ==
    /\ image = None /\ Probe(format)
    /\ image' = answer
    /\ UNCHANGED <<file, wanted, read>>

OpenElf   == OpenImage("elf", ElfImage(file))
OpenPe    == OpenImage("pe", PeImage(file))
OpenMachO == OpenImage("macho", MachOImage(file, Arch))

Unrecognised ==
    /\ image = None /\ \A format \in Formats : ~Probe(format)
    /\ image' = [status |-> "UnknownFormat"]
    /\ UNCHANGED <<file, wanted, read>>

Opened == image # None /\ image.status = "ok"

SectionData(index) ==
    IF Probe("elf") THEN ElfSectionData(file, index)
    ELSE IF Probe("pe") THEN PeSectionData(file, index)
    ELSE MachOSectionData(file, Arch, index)

ReadSection(index) ==
    /\ Opened
    /\ read' = [section |-> index, bytes |-> SectionData(index)]
    /\ UNCHANGED <<file, wanted, image>>

Refusal == image # None /\ image.status # "ok" /\ UNCHANGED vars

Next ==
    \/ OpenElf \/ OpenPe \/ OpenMachO \/ Unrecognised
    \/ Opened /\ \E index \in DOMAIN image.sections : ReadSection(index)
    \/ Opened /\ image.sections = <<>> /\ UNCHANGED vars
    \/ Refusal

Spec == Init /\ [][Next]_vars

-----------------------------------------------------------------------------
\* Whatever the headers say, every number that is answered fits 64 bits, so that the
\* lenses may add to them what they saturate ("header values are untrusted (found by
\* fuzzing)").
TypeOK ==
    /\ image # None => image.status \in {"ok", "Malformed", "UnknownFormat"}
    /\ Opened =>
        /\ image.fileSize \in Addresses /\ image.headersSize \in Addresses
        /\ \A k \in DOMAIN image.segments : image.segments[k].extent \in Extents
        /\ \A k \in DOMAIN image.sections : image.sections[k].extent \in Extents
        /\ \A symbol \in image.symbols :
              symbol.address \in Addresses /\ symbol.size \in Addresses
    /\ read # None => read.bytes.from \in Addresses /\ read.bytes.size \in Addresses

-----------------------------------------------------------------------------
(* What a loader does with a file, from the headers that are there for it: *)
(* bytes of the file that are stored somewhere and used somewhere.         *)
Copies(from, stored, used, size) ==
    {[file |-> from + i, load |-> stored + i, vm |-> used + i] : i \in 0..(size - 1)}

ElfLoader ==
    UNION {Copies(ph.offset, ph.paddr, ph.vaddr, ph.filesz) :
              ph \in {file.segments[k] : k \in {k \in DOMAIN file.segments : Loadable(file.segments[k])}}}

PeLoader ==
    UNION {Copies(sh.rawPointer, file.base + sh.rva, file.base + sh.rva,
                  IF sh.virtualSize # 0 /\ sh.virtualSize < sh.rawSize THEN sh.virtualSize ELSE sh.rawSize) :
              sh \in {file.sections[k] : k \in DOMAIN file.sections}}

MachOLoader ==
    UNION {Copies(seg.fileoff, seg.vmaddr, seg.vmaddr, Lesser(seg.filesize, seg.vmsize)) :
              seg \in {s \in {SliceOf(file, Arch).segments[k] : k \in DOMAIN SliceOf(file, Arch).segments} :
                          s.name # "__DWARF"}}

LoaderBytes == IF Probe("elf") THEN ElfLoader ELSE IF Probe("pe") THEN PeLoader ELSE MachOLoader

Linked == Opened /\ file.linked # None

\* The bytes of a section that are stored for loading are just those that a loader, which
\* knows no sections, brings to the section's addresses; they are stored where it finds
\* them, and are the section's in the file.  A TLS template is not at its addresses.
LoadedFromFile ==
    Linked =>
        \A k \in DOMAIN image.sections :
            LET extent == image.sections[k].extent
                vm     == extent["vm"]
                load   == extent["load"]
            IN vm # NoRange /\ image.sections[k].kind # "Tls" =>
                 {b \in LoaderBytes : vm.start <= b.vm /\ b.vm < vm.start + vm.size}
                   = IF load = NoRange THEN {}
                     ELSE Copies(extent["file"].start, load.start, vm.start, load.size)

\* What the reader of a file's own format makes of it.
OwnImage ==
    CASE file.is = "elf"   -> ElfImage(file)
      [] file.is = "pe"    -> PeImage(file)
      [] file.is = "macho" -> MachOImage(file, Arch)
      [] OTHER             -> [status |-> "UnknownFormat"]

\* Whichever format is asked first, a file is answered as its own reader reads it, or, if no
\* linker wrote it whole, not recognised: nothing that another format claims by its header
\* is opened by it, Java's class files, programs for DOS and files cut short by no one.
OpenedByItsFormat ==
    image # None => image = OwnImage \/ (image.status = "UnknownFormat" /\ file.linked = None)

\* Sections are of the kind of what the linker put into them, and the symbols of the
\* program, and no others, are reported with their kind, address and section: functions
\* without the Thumb bit, and what is in no section without one.
ProgramReadsBack ==
    Linked =>
        /\ [k \in DOMAIN image.sections |-> image.sections[k].kind] = file.linked.kinds[image.arch]
        /\ {[name |-> s.name, kind |-> s.kind, address |-> s.address, section |-> s.section] :
               s \in image.symbols} = file.linked.symbols[image.arch]

\* conformance.rs, check_image: what lens and debug readers rely on in every image that a
\* linker wrote; and a section's bytes are its own, of its own slice of the file.
Conforms ==
    Linked =>
        /\ \A k \in DOMAIN image.segments :
              LET range == image.segments[k].extent["file"]
              IN range # NoRange => range.start + range.size <= image.fileSize
        /\ \A k \in DOMAIN image.sections :
              LET extent == image.sections[k].extent
              IN /\ extent["file"] # NoRange => EndOf(extent["file"]) <= image.fileSize
                 /\ extent["load"] # NoRange => extent["vm"] # NoRange /\ extent["file"] # NoRange
        /\ \A symbol \in image.symbols :
              symbol.section # None =>
                 /\ symbol.section \in DOMAIN image.sections
                 /\ LET vm == image.sections[symbol.section].extent["vm"]
                    IN vm # NoRange /\ symbol.kind \notin {"Tls", "Section"} => Within(vm, symbol.address)
                 /\ ~(symbol.thumb /\ symbol.address % 2 = 1)
        /\ read # None /\ image.sections[read.section].extent["file"] # NoRange =>
              LET range == image.sections[read.section].extent["file"]
              IN /\ read.bytes.status = "ok"
                 /\ read.bytes.from = file.linked.start[image.arch] + range.start
                 /\ read.bytes.size = file.linked.contents[image.arch][read.section]
=============================================================================
