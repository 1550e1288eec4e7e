----------------------------- MODULE ImageProofs -----------------------------
(***************************************************************************)
(* What is read of an image file.  Numbers that the containers answer fit  *)
(* 64 bits, whatever the headers say; of a file that a linker wrote, the   *)
(* extents are those that a loader brings into memory, and the rules of    *)
(* conformance.rs are kept; PdbReader::symbols names all code and data of  *)
(* a PE image, whatever the streams of its PDB hold, in any order; and the *)
(* layouts and variables that are read of a PDB are those that a compiler  *)
(* wrote, however it spread them over records.                             *)
(***************************************************************************)
EXTENDS Containers, PdbWritten, Sums

(* Extents.                                                                *)

\* A range that is there only on a condition fits if its numbers do then.
LEMMA RangeFits ==
    ASSUME NEW condition \in BOOLEAN, NEW start, NEW size,
           condition => start \in Addresses /\ size \in Addresses
    PROVE  RangeIf(condition, start, size) \in Ranges \cup {NoRange}
BY DEF RangeIf, AddrRange, Ranges

LEMMA ExtentFits ==
    ASSUME NEW vm \in Ranges \cup {NoRange}, NEW stored \in Ranges \cup {NoRange},
           NEW load \in Ranges \cup {NoRange}
    PROVE  Extent(vm, stored, load) \in Extents
BY DEF Extent, Extents

LEMMA LesserFits ==
    ASSUME NEW m \in Addresses, NEW n \in Addresses
    PROVE  Lesser(m, n) \in Addresses /\ Lesser(m, n) <= m
BY WidthAssumption DEF Lesser, Addresses

\* The parts of TypeOK that speak of an image.
ImageFits(parsed) ==
    parsed.status = "ok" =>
        /\ parsed.fileSize \in Addresses /\ parsed.headersSize \in Addresses
        /\ \A k \in DOMAIN parsed.segments : parsed.segments[k].extent \in Extents
        /\ \A k \in DOMAIN parsed.sections : parsed.sections[k].extent \in Extents
        /\ \A symbol \in parsed.symbols : symbol.address \in Addresses /\ symbol.size \in Addresses

BytesFit(bytes) == bytes.from \in Addresses /\ bytes.size \in Addresses

LEMMA BytesAre ==
    ASSUME NEW from \in Addresses, NEW size \in Addresses
    PROVE  BytesFit(Bytes(from, size)) /\ \A status : BytesFit(Refused(status)) /\ BytesFit(Bytes(0, 0))
BY WidthAssumption DEF BytesFit, Bytes, Refused, Addresses

-----------------------------------------------------------------------------
(* ELF.                                                                    *)
LEMMA ElfLoadRangeFits ==
    ASSUME NEW f, ElfNumbers(f), NEW k \in DOMAIN f.sections
    PROVE  LoadRange(f, f.sections[k]) \in Ranges \cup {NoRange}
<1> DEFINE sh == f.sections[k]
<1> DEFINE mapping == {j \in DOMAIN f.segments : Maps(f.segments[j], sh)}
<1> DEFINE first == CHOOSE j \in mapping : \A i \in mapping : j <= i
<1> DEFINE ph == f.segments[first]
<1> DEFINE start == ph.paddr + (sh.addr - ph.vaddr)
<1> DEFINE there == "ALLOC" \in sh.flags /\ ~Nobits(sh) /\ sh.size > 0 /\ mapping # {} /\ start <= MaxAddress
<1>1. LoadRange(f, sh) = RangeIf(there, start, sh.size)
    BY DEF LoadRange
<1>2. sh.size \in Addresses
    BY DEF ElfNumbers
<1>3. ASSUME there PROVE start \in Addresses
    <2>1. first \in mapping
        <3>1. mapping \subseteq Nat /\ mapping # {}
            BY <1>3 DEF ElfNumbers
        <3>2. \E j \in mapping : \A i \in mapping : j <= i
            <4> HIDE DEF mapping
            <4> QED BY <3>1, LeastNat
        <3> HIDE DEF mapping
        <3> QED BY <3>2
    <2>2. first \in DOMAIN f.segments /\ Maps(ph, sh)
        <3> HIDE DEF first
        <3> QED BY <2>1
    <2> HIDE DEF first
    <2>3. ph.vaddr \in Addresses /\ ph.paddr \in Addresses /\ sh.addr \in Addresses
        BY <2>2 DEF ElfNumbers
    <2>4. ph.vaddr <= sh.addr
        BY <2>2 DEF Maps
    <2> HIDE DEF ph, sh
    <2> QED BY <1>3, <2>3, <2>4, WidthAssumption DEF Addresses
<1>4. there \in BOOLEAN
    OBVIOUS
<1> HIDE DEF there, start, sh
<1> QED BY <1>1, <1>2, <1>3, <1>4, RangeFits DEF sh

LEMMA ElfHeadersFit ==
    ASSUME NEW f, ElfNumbers(f)
    PROVE  ElfHeadersSize(f) \in Addresses
<1> DEFINE end == f.phoff + f.phnum * f.phentsize
<1> DEFINE counted == IF f.phoff = 0 \/ end > MaxAddress THEN 0 ELSE end
<1>1. f.ehsize \in Addresses /\ counted \in Addresses
    <2>1. f.phoff \in Nat /\ f.phnum \in Nat /\ f.phentsize \in Nat /\ f.ehsize \in Addresses
        BY DEF ElfNumbers, Addresses
    <2>2. f.phnum * f.phentsize \in Nat
        BY <2>1
    <2>3. end \in Nat
        BY <2>1, <2>2
    <2> HIDE DEF end
    <2> QED BY <2>1, <2>3, WidthAssumption DEF Addresses
<1>2. ElfHeadersSize(f) = Max({f.ehsize, counted})
    BY DEF ElfHeadersSize
<1> HIDE DEF counted
<1>3. \E m \in {f.ehsize, counted} : \A n \in {f.ehsize, counted} : m >= n
    BY <1>1 DEF Addresses
<1>4. Max({f.ehsize, counted}) \in {f.ehsize, counted}
    BY <1>3 DEF Max
<1> QED BY <1>1, <1>2, <1>4

LEMMA ElfSymbolFits ==
    ASSUME NEW f, NEW k, NEW sym, sym.value \in Addresses, sym.size \in Addresses
    PROVE  ElfSymbol(f, k, sym).address \in Addresses /\ ElfSymbol(f, k, sym).size \in Addresses
<1>1. sym.value \in Nat /\ (sym.value % 2 = 1 => sym.value - 1 \in Addresses)
    BY WidthAssumption DEF Addresses
<1> QED BY <1>1 DEF ElfSymbol, IsThumb

LEMMA ElfImageFits ==
    ASSUME NEW f, f.parses => ElfNumbers(f)
    PROVE  ImageFits(ElfImage(f))
<1> SUFFICES ASSUME f.parses PROVE ImageFits(ElfImage(f))
    BY DEF ElfImage, Malformed, ImageFits
<1>0. ElfNumbers(f)
    OBVIOUS
<1>1. ASSUME NEW k \in DOMAIN f.segments PROVE ElfSegment(f.segments[k]).extent \in Extents
    <2> DEFINE ph == f.segments[k]
    <2>1. /\ ph.offset \in Addresses /\ ph.vaddr \in Addresses /\ ph.paddr \in Addresses
          /\ ph.filesz \in Addresses /\ ph.memsz \in Addresses
        BY <1>0 DEF ElfNumbers
    <2> HIDE DEF ph
    <2>2. /\ RangeIf(Loadable(ph), ph.vaddr, ph.memsz) \in Ranges \cup {NoRange}
          /\ RangeIf(ph.filesz > 0, ph.offset, ph.filesz) \in Ranges \cup {NoRange}
          /\ RangeIf(Loadable(ph) /\ ph.filesz > 0, ph.paddr, ph.filesz) \in Ranges \cup {NoRange}
        BY <2>1 DEF RangeIf, AddrRange, Ranges
    <2> QED BY <2>2, ExtentFits DEF ElfSegment, ph
<1>2. ASSUME NEW k \in DOMAIN f.sections PROVE ElfSection(f, k).extent \in Extents
    <2> DEFINE sh == f.sections[k]
    <2>1. sh.addr \in Addresses /\ sh.offset \in Addresses /\ sh.size \in Addresses
        BY <1>0 DEF ElfNumbers
    <2>2. LoadRange(f, sh) \in Ranges \cup {NoRange}
        BY <1>0, ElfLoadRangeFits
    <2> HIDE DEF sh
    <2>3. /\ RangeIf("ALLOC" \in sh.flags, sh.addr, sh.size) \in Ranges \cup {NoRange}
          /\ RangeIf(~Nobits(sh) /\ sh.type # "SHT_NULL", sh.offset, sh.size) \in Ranges \cup {NoRange}
        BY <2>1 DEF RangeIf, AddrRange, Ranges
    <2> QED BY <2>2, <2>3, ExtentFits DEF ElfSection, sh
<1>3. ASSUME NEW symbol \in ElfSymbols(f)
      PROVE  symbol.address \in Addresses /\ symbol.size \in Addresses
    <2>1. PICK entries \in {f.symtab, f.dynsym} : \E k \in DOMAIN entries : symbol = ElfSymbol(f, k, entries[k])
        BY <1>3 DEF ElfSymbols
    <2>2. PICK k \in DOMAIN entries : symbol = ElfSymbol(f, k, entries[k])
        BY <2>1
    <2>3. entries[k].value \in Addresses /\ entries[k].size \in Addresses
        BY <1>0, <2>2 DEF ElfNumbers
    <2> QED BY <2>2, <2>3, ElfSymbolFits
<1>4. ElfHeadersSize(f) \in Addresses /\ f.length \in Addresses
    BY <1>0, ElfHeadersFit DEF ElfNumbers
<1> QED BY <1>1, <1>2, <1>3, <1>4 DEF ElfImage, ImageFits

LEMMA ElfDataFits ==
    ASSUME NEW f, ElfNumbers(f), NEW k \in DOMAIN f.sections
    PROVE  BytesFit(ElfSectionData(f, k))
<1> DEFINE sh == f.sections[k]
<1>1. sh.offset \in Addresses /\ sh.size \in Addresses /\ (sh.uncompressed # None => sh.uncompressed \in Addresses)
    BY DEF ElfNumbers
<1>2. 0 \in Addresses
    BY WidthAssumption DEF Addresses
<1>3. /\ BytesFit(Bytes(sh.offset, 0)) /\ BytesFit(Bytes(sh.offset, sh.size))
      /\ sh.uncompressed # None => BytesFit(Bytes(sh.offset, sh.uncompressed))
      /\ \A status : BytesFit(Refused(status))
    BY <1>1, <1>2, BytesAre
<1> QED BY <1>3 DEF ElfSectionData

-----------------------------------------------------------------------------
(* PE.                                                                     *)
LEMMA PeSectionFits ==
    ASSUME NEW f, PeNumbers(f), NEW k \in DOMAIN f.sections, f.base + f.sections[k].rva <= MaxAddress
    PROVE  PeSection(f, k).extent \in Extents
<1> DEFINE sh == f.sections[k]
<1> DEFINE va == f.base + sh.rva
<1> DEFINE stored == sh.rawSize > 0 /\ sh.rawPointer > 0
<1>1. /\ sh.rva \in Addresses /\ sh.rawPointer \in Addresses /\ sh.rawSize \in Addresses
      /\ sh.virtualSize \in Addresses /\ f.base \in Addresses
    BY DEF PeNumbers
<1>2. va \in Addresses
    <2>1. va <= MaxAddress
        OBVIOUS
    <2> HIDE DEF sh
    <2> QED BY <1>1, <2>1, WidthAssumption DEF Addresses
<1>3. VirtualSize(sh) \in Addresses
    BY <1>1 DEF VirtualSize
<1>4. Lesser(sh.rawSize, VirtualSize(sh)) \in Addresses
    BY <1>1, <1>3, LesserFits
<1>5. PeSection(f, k).extent =
          Extent(AddrRange(va, VirtualSize(sh)), RangeIf(stored, sh.rawPointer, sh.rawSize),
                 RangeIf(stored, va, Lesser(sh.rawSize, VirtualSize(sh))))
    BY DEF PeSection
<1> HIDE DEF va, sh, stored
<1>6. /\ AddrRange(va, VirtualSize(sh)) \in Ranges \cup {NoRange}
      /\ RangeIf(stored, sh.rawPointer, sh.rawSize) \in Ranges \cup {NoRange}
      /\ RangeIf(stored, va, Lesser(sh.rawSize, VirtualSize(sh))) \in Ranges \cup {NoRange}
    BY <1>1, <1>2, <1>3, <1>4 DEF RangeIf, AddrRange, Ranges
<1> QED BY <1>5, <1>6, ExtentFits

LEMMA PeImageFits ==
    ASSUME NEW f, f.parses => PeNumbers(f)
    PROVE  ImageFits(PeImage(f))
<1> DEFINE bad == \/ ~f.parses \/ f.optional \notin {"PE32", "PE32+"}
                  \/ \E k \in DOMAIN f.sections : f.base + f.sections[k].rva > MaxAddress
<1> SUFFICES ASSUME ~bad PROVE ImageFits(PeImage(f))
    BY DEF PeImage, Malformed, ImageFits
<1>0. PeNumbers(f)
    OBVIOUS
<1>1. f.base \in Addresses /\ f.sizeOfImage \in Addresses /\ f.sizeOfHeaders \in Addresses /\ f.length \in Addresses
    BY <1>0 DEF PeNumbers
<1>2. ASSUME NEW k \in DOMAIN f.sections PROVE PeSection(f, k).extent \in Extents
    <2>1. f.base \in Int /\ f.sections[k].rva \in Int /\ MaxAddress \in Int
        BY <1>0, WidthAssumption DEF PeNumbers, Addresses
    <2>2. f.base + f.sections[k].rva <= MaxAddress
        BY <2>1
    <2> QED BY <1>0, <2>2, PeSectionFits
<1>3. \A k \in DOMAIN PeSegments(f) : PeSegments(f)[k].extent \in Extents
    <2> DEFINE headers == AddrRange(f.base, Lesser(f.sizeOfHeaders, f.sizeOfImage))
    <2> DEFINE stored == AddrRange(0, f.sizeOfHeaders)
    <2> DEFINE mapped == AddrRange(f.base, f.sizeOfImage)
    <2>1. Lesser(f.sizeOfHeaders, f.sizeOfImage) \in Addresses
        BY <1>1, LesserFits
    <2>5. 0 \in Addresses
        BY WidthAssumption DEF Addresses
    <2>2. headers \in Ranges /\ stored \in Ranges /\ mapped \in Ranges
        BY <1>1, <2>1, <2>5 DEF AddrRange, Ranges
    <2>3. PeSegments(f) = << PeSegment(mapped, NoRange, NoRange), PeSegment(headers, stored, headers) >>
        BY DEF PeSegments
    <2> HIDE DEF headers, stored, mapped
    <2>4. /\ PeSegment(mapped, NoRange, NoRange).extent \in Extents
          /\ PeSegment(headers, stored, headers).extent \in Extents
        BY <2>2, ExtentFits DEF PeSegment
    <2> QED BY <2>3, <2>4
<1> HIDE DEF bad
<1>4. PeImage(f).fileSize = f.length /\ PeImage(f).headersSize = f.sizeOfHeaders
      /\ PeImage(f).segments = PeSegments(f) /\ PeImage(f).symbols = {}
      /\ PeImage(f).sections = [k \in DOMAIN f.sections |-> PeSection(f, k)]
    BY DEF PeImage, bad
<1> QED BY <1>1, <1>2, <1>3, <1>4 DEF ImageFits

LEMMA PeDataFits ==
    ASSUME NEW f, PeNumbers(f), NEW k \in DOMAIN f.sections
    PROVE  BytesFit(PeSectionData(f, k))
<1> DEFINE sh == f.sections[k]
<1> DEFINE stored == sh.rawSize > 0 /\ sh.rawPointer > 0
<1> DEFINE range == PeSection(f, k).extent["file"]
<1>1. sh.rawPointer \in Addresses /\ sh.rawSize \in Addresses
    BY DEF PeNumbers
<1>2. range = RangeIf(stored, sh.rawPointer, sh.rawSize)
    BY DEF PeSection, Extent
<1>3. range = NoRange \/ (range.start \in Addresses /\ range.size \in Addresses)
    <2> HIDE DEF range
    <2> QED BY <1>1, <1>2 DEF RangeIf, AddrRange
<1>4. 0 \in Addresses
    BY WidthAssumption DEF Addresses
<1>5. /\ BytesFit(Bytes(0, 0)) /\ \A status : BytesFit(Refused(status))
      /\ range # NoRange => BytesFit(Bytes(range.start, range.size))
    BY <1>3, <1>4, BytesAre
<1> QED BY <1>5 DEF PeSectionData

-----------------------------------------------------------------------------
(* Mach-O.                                                                 *)

\* The slice that is read is one of the file's.
LEMMA SliceIsOne ==
    ASSUME NEW f, NEW arch, MachONumbers(f)
    PROVE  SliceOf(f, arch) = None \/ \E s \in DOMAIN f.slices : SliceOf(f, arch) = f.slices[s]
<1> DEFINE fitting == {s \in DOMAIN f.slices : f.slices[s].arch = arch}
<1> DEFINE first == CHOOSE s \in fitting : \A t \in fitting : s <= t
<1>1. CASE f.begins \notin FatMagics
    BY <1>1 DEF SliceOf, MachONumbers
<1>2. CASE f.begins \in FatMagics /\ fitting = {}
    BY <1>2 DEF SliceOf
<1>3. CASE f.begins \in FatMagics /\ fitting # {}
    <2>1. fitting \subseteq Nat
        BY DEF MachONumbers
    <2>2. \E s \in fitting : \A t \in fitting : s <= t
        <3> HIDE DEF fitting
        <3> QED BY <1>3, <2>1, LeastNat
    <2>3. first \in fitting
        <3> HIDE DEF fitting
        <3> QED BY <2>2
    <2>4. SliceOf(f, arch) = f.slices[first]
        BY <1>3 DEF SliceOf
    <2> HIDE DEF first
    <2> QED BY <2>3, <2>4
<1> QED BY <1>1, <1>2, <1>3

SliceNumbers(slice) ==
    /\ slice.offset \in Addresses /\ slice.length \in Addresses
    /\ slice.headerSize + slice.sizeofcmds \in Addresses
    /\ \A k \in DOMAIN slice.segments :
          /\ slice.segments[k].vmaddr \in Addresses /\ slice.segments[k].vmsize \in Addresses
          /\ slice.segments[k].fileoff \in Addresses /\ slice.segments[k].filesize \in Addresses
    /\ \A k \in DOMAIN slice.sections :
          /\ slice.sections[k].addr \in Addresses /\ slice.sections[k].size \in Addresses
          /\ slice.sections[k].offset \in Addresses
    /\ \A k \in DOMAIN slice.symtab : slice.symtab[k].value \in Addresses

LEMMA SliceHasNumbers ==
    ASSUME NEW f, NEW arch, MachONumbers(f), SliceOf(f, arch) # None
    PROVE  SliceNumbers(SliceOf(f, arch)) /\ f.length \in Addresses
<1>1. PICK s \in DOMAIN f.slices : SliceOf(f, arch) = f.slices[s]
    BY SliceIsOne
<1>2. SliceNumbers(f.slices[s])
    BY DEF MachONumbers, SliceNumbers
<1> QED BY <1>1, <1>2 DEF MachONumbers

LEMMA MachOSectionFits ==
    ASSUME NEW slice, SliceNumbers(slice), NEW k \in DOMAIN slice.sections
    PROVE  MachOSection(slice, k).extent \in Extents
<1> DEFINE sect == slice.sections[k]
<1> DEFINE mapped == sect.segment # "__DWARF"
<1>1. sect.addr \in Addresses /\ sect.size \in Addresses /\ sect.offset \in Addresses
    BY DEF SliceNumbers
<1>2. MachOSection(slice, k).extent =
          Extent(RangeIf(mapped, sect.addr, sect.size), RangeIf(Stored(sect), sect.offset, sect.size),
                 RangeIf(mapped /\ Stored(sect), sect.addr, sect.size))
    BY DEF MachOSection
<1> HIDE DEF sect, mapped
<1>3. /\ RangeIf(mapped, sect.addr, sect.size) \in Ranges \cup {NoRange}
      /\ RangeIf(Stored(sect), sect.offset, sect.size) \in Ranges \cup {NoRange}
      /\ RangeIf(mapped /\ Stored(sect), sect.addr, sect.size) \in Ranges \cup {NoRange}
    BY <1>1 DEF RangeIf, AddrRange, Ranges
<1> QED BY <1>2, <1>3, ExtentFits

LEMMA MachOImageFits ==
    ASSUME NEW f, NEW arch, f.parses => MachONumbers(f)
    PROVE  ImageFits(MachOImage(f, arch))
<1> DEFINE slice == SliceOf(f, arch)
<1> SUFFICES ASSUME f.parses, slice # None PROVE ImageFits(MachOImage(f, arch))
    BY DEF MachOImage, Malformed, ImageFits
<1>1. SliceNumbers(slice) /\ f.length \in Addresses
    BY SliceHasNumbers
<1>2. ASSUME NEW k \in DOMAIN slice.segments PROVE MachOSegment(slice.segments[k]).extent \in Extents
    <2> DEFINE seg == slice.segments[k]
    <2> DEFINE mapped == seg.vmsize > 0 /\ seg.name # "__DWARF"
    <2> DEFINE stored == seg.filesize > 0
    <2>1. /\ seg.vmaddr \in Addresses /\ seg.vmsize \in Addresses
          /\ seg.fileoff \in Addresses /\ seg.filesize \in Addresses
        BY <1>1, <1>2 DEF SliceNumbers
    <2>2. Lesser(seg.filesize, seg.vmsize) \in Addresses
        BY <2>1, LesserFits
    <2>3. MachOSegment(seg).extent =
              Extent(RangeIf(mapped, seg.vmaddr, seg.vmsize), RangeIf(stored, seg.fileoff, seg.filesize),
                     RangeIf(stored /\ mapped /\ seg.name # "__LINKEDIT",
                             seg.vmaddr, Lesser(seg.filesize, seg.vmsize)))
        BY DEF MachOSegment
    <2> HIDE DEF seg, mapped, stored
    <2>4. /\ RangeIf(mapped, seg.vmaddr, seg.vmsize) \in Ranges \cup {NoRange}
          /\ RangeIf(stored, seg.fileoff, seg.filesize) \in Ranges \cup {NoRange}
          /\ RangeIf(stored /\ mapped /\ seg.name # "__LINKEDIT", seg.vmaddr, Lesser(seg.filesize, seg.vmsize))
                \in Ranges \cup {NoRange}
        BY <2>1, <2>2 DEF RangeIf, AddrRange, Ranges
    <2> QED BY <2>3, <2>4, ExtentFits, SMTT(30) DEF seg
<1>3. ASSUME NEW symbol \in MachOSymbols(slice)
      PROVE  symbol.address \in Addresses /\ symbol.size \in Addresses
    <2>1. PICK k \in DOMAIN slice.symtab : symbol = MachOSymbol(slice, k)
        BY <1>3 DEF MachOSymbols
    <2>2. symbol.address = slice.symtab[k].value /\ symbol.size = 0
        BY <2>1 DEF MachOSymbol
    <2> QED BY <1>1, <2>2, WidthAssumption DEF SliceNumbers, Addresses
<1>4. /\ MachOImage(f, arch).headersSize = slice.headerSize + slice.sizeofcmds
      /\ MachOImage(f, arch).fileSize \in {slice.length, f.length}
      /\ MachOImage(f, arch).segments = [k \in DOMAIN slice.segments |-> MachOSegment(slice.segments[k])]
      /\ MachOImage(f, arch).sections = [k \in DOMAIN slice.sections |-> MachOSection(slice, k)]
      /\ MachOImage(f, arch).symbols = MachOSymbols(slice)
    BY DEF MachOImage, MachOSections
<1>5. \A k \in DOMAIN slice.sections : MachOSection(slice, k).extent \in Extents
    BY <1>1, MachOSectionFits
<1> HIDE DEF slice
<1> QED BY <1>1, <1>2, <1>3, <1>4, <1>5 DEF ImageFits, SliceNumbers

LEMMA MachODataFits ==
    ASSUME NEW f, NEW arch, MachONumbers(f), SliceOf(f, arch) # None,
           NEW k \in DOMAIN SliceOf(f, arch).sections
    PROVE  BytesFit(MachOSectionData(f, arch, k))
<1> DEFINE slice == SliceOf(f, arch)
<1> DEFINE sect == slice.sections[k]
<1> DEFINE range == MachOSection(slice, k).extent["file"]
<1> DEFINE start == slice.offset + range.start
<1>1. sect.size \in Addresses /\ sect.offset \in Addresses /\ slice.offset \in Addresses /\ f.length \in Addresses
    BY SliceHasNumbers DEF SliceNumbers
<1>2. range = RangeIf(Stored(sect), sect.offset, sect.size)
    BY DEF MachOSection, Extent
<1>3. range = NoRange \/ (range.start \in Addresses /\ range.size \in Addresses)
    <2> HIDE DEF range
    <2> QED BY <1>1, <1>2 DEF RangeIf, AddrRange
<1>4. 0 \in Addresses /\ MaxAddress \in Addresses
    BY WidthAssumption DEF Addresses
<1>5. ASSUME range # NoRange, ~(start + range.size > Lesser(f.length, MaxAddress))
      PROVE  start \in Addresses
    <2> HIDE DEF range, slice
    <2>1. Lesser(f.length, MaxAddress) \in Nat /\ Lesser(f.length, MaxAddress) <= MaxAddress
        BY <1>1, WidthAssumption DEF Lesser, Addresses
    <2>2. slice.offset \in Nat /\ range.start \in Nat /\ range.size \in Nat
        BY <1>1, <1>3, <1>5 DEF Addresses
    <2> QED BY <1>5, <2>1, <2>2, WidthAssumption DEF Addresses
<1>6. /\ BytesFit(Bytes(0, 0)) /\ \A status : BytesFit(Refused(status))
      /\ range # NoRange /\ ~(start + range.size > Lesser(f.length, MaxAddress))
            => BytesFit(Bytes(start, range.size))
    BY <1>3, <1>4, <1>5, BytesAre
<1> QED BY <1>6 DEF MachOSectionData

-----------------------------------------------------------------------------
(* The interface.                                                          *)

\* What is answered was read from the file that is open, by the format that claimed it.
ImageInv ==
    /\ file \in Files
    /\ Opened => /\ file.parses
                 /\ \/ Probe("elf") /\ image = ElfImage(file)
                    \/ Probe("pe") /\ image = PeImage(file)
                    \/ Probe("macho") /\ image = MachOImage(file, Arch)
    /\ image # None => image.status \in {"ok", "Malformed", "UnknownFormat"}
    /\ read # None => BytesFit(read.bytes)

LEMMA NumbersFit ==
    ASSUME file \in Files
    PROVE  /\ Probe("elf") => (file.parses => ElfNumbers(file)) /\ ~Probe("pe") /\ ~Probe("macho")
           /\ Probe("pe") => (file.parses => PeNumbers(file)) /\ ~Probe("elf") /\ ~Probe("macho")
           /\ Probe("macho") => (file.parses => MachONumbers(file)) /\ ~Probe("elf") /\ ~Probe("pe")
<1>1. ElfProbe(file) => ~PeProbe(file) /\ ~MachOProbe(file)
    BY DEF ElfProbe, PeProbe, MachOProbe, ELF_MAGIC, MachMagics, FatMagics
<1>2. PeProbe(file) => ~MachOProbe(file)
    BY DEF PeProbe, MachOProbe, MachMagics, FatMagics
<1> QED BY <1>1, <1>2, HeaderAssumption DEF Probe

LEMMA OpenKeepsImage ==
    ASSUME ImageInv, OpenElf \/ OpenPe \/ OpenMachO \/ Unrecognised
    PROVE  ImageInv'
<1>1. file' = file /\ wanted' = wanted /\ read' = read
    BY DEF OpenElf, OpenPe, OpenMachO, OpenImage, Unrecognised
<1>2. \A format : Probe(format)' = Probe(format)
    BY <1>1 DEF Probe, ElfProbe, PeProbe, MachOProbe
<1>3. Arch' = Arch
    BY <1>1 DEF Arch
<1>4. CASE OpenElf
    BY <1>1, <1>2, <1>4 DEF OpenElf, OpenImage, ImageInv, Opened, ElfImage, Malformed
<1>5. CASE OpenPe
    BY <1>1, <1>2, <1>5 DEF OpenPe, OpenImage, ImageInv, Opened, PeImage, Malformed
<1>6. CASE OpenMachO
    BY <1>1, <1>2, <1>3, <1>6 DEF OpenMachO, OpenImage, ImageInv, Opened, MachOImage, Malformed
<1>7. CASE Unrecognised
    BY <1>1, <1>7 DEF Unrecognised, ImageInv, Opened
<1> QED BY <1>4, <1>5, <1>6, <1>7

LEMMA ReadKeepsImage ==
    ASSUME ImageInv, NEW index \in DOMAIN image.sections, ReadSection(index)
    PROVE  ImageInv'
<1>1. file' = file /\ wanted' = wanted /\ image' = image /\ Opened
    BY DEF ReadSection
<1>2. file \in Files /\ file.parses
    BY <1>1 DEF ImageInv
<1>3. BytesFit(read'.bytes)
    <2>1. CASE Probe("elf") /\ image = ElfImage(file)
        <3>1. read'.bytes = ElfSectionData(file, index)
            BY <2>1 DEF ReadSection, SectionData
        <3>2. index \in DOMAIN file.sections
            BY <1>2, <2>1 DEF ElfImage
        <3> QED BY <1>2, <2>1, <3>1, <3>2, NumbersFit, ElfDataFits
    <2>2. CASE Probe("pe") /\ image = PeImage(file)
        <3>1. read'.bytes = PeSectionData(file, index)
            BY <1>2, <2>2, NumbersFit DEF ReadSection, SectionData
        <3>2. index \in DOMAIN file.sections
            BY <1>1, <2>2 DEF PeImage, Opened, Malformed
        <3> QED BY <1>2, <2>2, <3>1, <3>2, NumbersFit, PeDataFits
    <2>3. CASE Probe("macho") /\ image = MachOImage(file, Arch)
        <3>1. read'.bytes = MachOSectionData(file, Arch, index)
            BY <1>2, <2>3, NumbersFit DEF ReadSection, SectionData
        <3>2. SliceOf(file, Arch) # None /\ index \in DOMAIN SliceOf(file, Arch).sections
            BY <1>1, <2>3 DEF MachOImage, MachOSections, Opened, Malformed
        <3> QED BY <1>2, <2>3, <3>1, <3>2, NumbersFit, MachODataFits
    <2> QED BY <1>1, <2>1, <2>2, <2>3 DEF ImageInv
<1>4. \A format : Probe(format)' = Probe(format)
    BY <1>1 DEF Probe, ElfProbe, PeProbe, MachOProbe
<1>5. Arch' = Arch /\ (Opened' <=> Opened)
    BY <1>1 DEF Arch, Opened
<1> QED BY <1>1, <1>3, <1>4, <1>5 DEF ImageInv

LEMMA ImageInvStarts == Init => ImageInv
BY DEF Init, ImageInv, Opened

LEMMA ImageInvKept == ImageInv /\ [Next]_vars => ImageInv'
<1> SUFFICES ASSUME ImageInv, [Next]_vars PROVE ImageInv'
    OBVIOUS
<1>1. CASE UNCHANGED vars
    <2>1. file' = file /\ wanted' = wanted /\ image' = image /\ read' = read
        BY <1>1 DEF vars
    <2>2. \A format : Probe(format)' = Probe(format)
        BY <2>1 DEF Probe, ElfProbe, PeProbe, MachOProbe
    <2>3. Arch' = Arch /\ (Opened' <=> Opened)
        BY <2>1 DEF Arch, Opened
    <2> QED BY <2>1, <2>2, <2>3 DEF ImageInv
<1> QED BY <1>1, OpenKeepsImage, ReadKeepsImage DEF Next, Refusal

LEMMA ImageTypes == ImageInv => TypeOK
<1> SUFFICES ASSUME ImageInv PROVE TypeOK
    OBVIOUS
<1>1. file \in Files
    BY DEF ImageInv
<1>2. Opened => ImageFits(image)
    BY <1>1, NumbersFit, ElfImageFits, PeImageFits, MachOImageFits DEF ImageInv
<1> QED BY <1>2 DEF ImageInv, ImageFits, BytesFit, TypeOK, Opened

\* Every number that a container answers fits 64 bits, whatever the headers of the file
\* say: what is added is checked, or cannot be too large.
THEOREM ContainersTypeCorrect == Spec => []TypeOK
<1>1. Spec => []ImageInv
    BY ImageInvStarts, ImageInvKept, PTL DEF Spec
<1> QED BY <1>1, ImageTypes, PTL

-----------------------------------------------------------------------------
(* What a loader does.                                                     *)

\* The bytes that come to these addresses.
Addressed(bytes, start, size) == {b \in bytes : start <= b.vm /\ b.vm < start + size}

\* Bytes are those that a loader copies, piece by piece.
Loads(bytes, pieces, from, stored, used, len) ==
    \A b : b \in bytes <=> \E j \in pieces : b \in Copies(from[j], stored[j], used[j], len[j])

\* Where no piece overlaps nothing is loaded.
LEMMA NoPiece ==
    ASSUME NEW bytes, NEW pieces, NEW from, NEW stored, NEW used, NEW len,
           Loads(bytes, pieces, from, stored, used, len),
           NEW start \in Nat, NEW size \in Nat,
           \A j \in pieces : used[j] \in Nat /\ len[j] \in Nat /\ Apart(used[j], len[j], start, size)
    PROVE  Addressed(bytes, start, size) = {}
<1> SUFFICES ASSUME NEW b \in bytes, start <= b.vm, b.vm < start + size PROVE FALSE
    BY DEF Addressed
<1>1. PICK j \in pieces : b \in Copies(from[j], stored[j], used[j], len[j])
    BY DEF Loads
<1>2. used[j] \in Nat /\ len[j] \in Nat /\ Apart(used[j], len[j], start, size)
    OBVIOUS
<1>3. PICK i \in 0..(len[j] - 1) : b.vm = used[j] + i
    BY <1>1 DEF Copies
<1> QED BY <1>2, <1>3 DEF Apart

\* Where one piece alone overlaps, its part there is loaded.
LEMMA OnePiece ==
    ASSUME NEW bytes, NEW pieces, NEW from, NEW stored, NEW used, NEW len,
           Loads(bytes, pieces, from, stored, used, len),
           NEW start \in Nat, NEW size \in Nat,
           NEW piece \in pieces, NEW n \in 0..size,
           \A j \in pieces :
              from[j] \in Nat /\ stored[j] \in Nat /\ used[j] \in Nat /\ len[j] \in Nat,
           used[piece] <= start, start + n <= used[piece] + len[piece],
           n = size \/ start + n = used[piece] + len[piece],
           \A j \in pieces : j # piece => Apart(used[j], len[j], start, size)
    PROVE  Addressed(bytes, start, size) =
              Copies(from[piece] + (start - used[piece]), stored[piece] + (start - used[piece]), start, n)
<1> DEFINE d == start - used[piece]
<1>0. /\ from[piece] \in Nat /\ stored[piece] \in Nat /\ used[piece] \in Nat /\ len[piece] \in Nat
      /\ d \in Nat /\ n \in Nat
    OBVIOUS
<1>1. ASSUME NEW b \in Addressed(bytes, start, size)
      PROVE  b \in Copies(from[piece] + d, stored[piece] + d, start, n)
    <2>1. b \in bytes /\ start <= b.vm /\ b.vm < start + size
        BY DEF Addressed
    <2>2. PICK j \in pieces : b \in Copies(from[j], stored[j], used[j], len[j])
        BY <2>1 DEF Loads
    <2>3. PICK i \in 0..(len[j] - 1) :
              b = [file |-> from[j] + i, load |-> stored[j] + i, vm |-> used[j] + i]
        BY <2>2 DEF Copies
    <2>4. j = piece
        <3> SUFFICES ASSUME j # piece PROVE FALSE
            OBVIOUS
        <3>1. used[j] \in Nat /\ len[j] \in Nat /\ Apart(used[j], len[j], start, size)
            OBVIOUS
        <3>2. b.vm = used[j] + i
            BY <2>3
        <3> QED BY <2>1, <3>1, <3>2 DEF Apart
    <2>5. b.vm = used[piece] + i /\ i \in Nat /\ i < len[piece]
        BY <1>0, <2>3, <2>4
    <2>6. i - d \in 0..(n - 1)
        BY <1>0, <2>1, <2>5
    <2>7. from[piece] + i = from[piece] + d + (i - d) /\ stored[piece] + i = stored[piece] + d + (i - d)
          /\ used[piece] + i = start + (i - d)
        BY <1>0, <2>5
    <2>8. b = [file |-> from[piece] + d + (i - d), load |-> stored[piece] + d + (i - d), vm |-> start + (i - d)]
        <3> HIDE DEF d
        <3> QED BY <2>3, <2>4, <2>7
    <2> HIDE DEF d
    <2> QED BY <2>6, <2>8 DEF Copies
<1>2. ASSUME NEW b \in Copies(from[piece] + d, stored[piece] + d, start, n)
      PROVE  b \in Addressed(bytes, start, size)
    <2>1. PICK i \in 0..(n - 1) :
              b = [file |-> from[piece] + d + i, load |-> stored[piece] + d + i, vm |-> start + i]
        <3> HIDE DEF d
        <3> QED BY <1>2 DEF Copies
    <2>2. d + i \in 0..(len[piece] - 1)
        BY <1>0, <2>1
    <2>3. from[piece] + d + i = from[piece] + (d + i) /\ stored[piece] + d + i = stored[piece] + (d + i)
          /\ start + i = used[piece] + (d + i)
        BY <1>0, <2>1
    <2>4. b = [file |-> from[piece] + (d + i), load |-> stored[piece] + (d + i), vm |-> used[piece] + (d + i)]
        <3> HIDE DEF d
        <3> QED BY <2>1, <2>3
    <2>5. b \in bytes
        <3>1. b \in Copies(from[piece], stored[piece], used[piece], len[piece])
            <4> HIDE DEF d
            <4> QED BY <2>2, <2>4 DEF Copies
        <3> QED BY <3>1 DEF Loads
    <2>6. b.vm = start + i /\ i \in Nat /\ i < n
        BY <1>0, <2>1
    <2> QED BY <1>0, <2>5, <2>6 DEF Addressed
<1> HIDE DEF d
<1> QED BY <1>1, <1>2 DEF d

\* What LoadedFromFile says of a section.
LoadsRight(bytes, extent) ==
    LET vm   == extent["vm"]
        load == extent["load"]
    IN vm # NoRange =>
          Addressed(bytes, vm.start, vm.size)
              = IF load = NoRange THEN {}
                ELSE Copies(extent["file"].start, load.start, vm.start, load.size)

LEMMA NothingAddressed ==
    ASSUME NEW bytes, NEW pieces, NEW from, NEW stored, NEW used, NEW len,
           Loads(bytes, pieces, from, stored, used, len),
           NEW start \in Nat,
           \A j \in pieces : used[j] \in Nat /\ len[j] \in Nat
    PROVE  Addressed(bytes, start, 0) = {}
<1> SUFFICES ASSUME NEW b \in bytes, start <= b.vm, b.vm < start + 0 PROVE FALSE
    BY DEF Addressed
<1>1. PICK j \in pieces : b \in Copies(from[j], stored[j], used[j], len[j])
    BY DEF Loads
<1>2. used[j] \in Nat /\ len[j] \in Nat
    OBVIOUS
<1>3. PICK i \in 0..(len[j] - 1) : b.vm = used[j] + i
    BY <1>1 DEF Copies
<1> QED BY <1>2, <1>3

LEMMA NoCopies == \A from, stored, used : Copies(from, stored, used, 0) = {}
BY DEF Copies

LEMMA RangesAre ==
    ASSUME NEW start \in Addresses, NEW size \in Addresses
    PROVE  AddrRange(start, size) # NoRange
           /\ AddrRange(start, size).start = start /\ AddrRange(start, size).size = size
BY RangeAssumption DEF AddrRange, Ranges

\* Pieces have their own room in memory, of which they fill the first part.
HaveRoom(pieces, used, len, room) ==
    /\ \A j \in pieces : used[j] \in Nat /\ len[j] \in Nat /\ room[j] \in Nat /\ len[j] <= room[j]
    /\ \A j, k \in pieces : j # k => Apart(used[j], room[j], used[k], room[k])

LEMMA OthersApart ==
    ASSUME NEW pieces, NEW used, NEW len, NEW room, HaveRoom(pieces, used, len, room),
           NEW start \in Nat, NEW size \in Nat, NEW piece \in pieces,
           used[piece] <= start, start + size <= used[piece] + room[piece],
           NEW j \in pieces, j # piece
    PROVE  Apart(used[j], len[j], start, size)
<1>1. /\ used[piece] \in Nat /\ room[piece] \in Nat
      /\ used[j] \in Nat /\ len[j] \in Nat /\ room[j] \in Nat /\ len[j] <= room[j]
      /\ Apart(used[j], room[j], used[piece], room[piece])
    BY DEF HaveRoom
<1> QED BY <1>1 DEF Apart

\* What lies in the part of a piece that is filled is loaded from there,
LEMMA StoredPart ==
    ASSUME NEW bytes, NEW pieces, NEW from, NEW stored, NEW used, NEW len, NEW room,
           Loads(bytes, pieces, from, stored, used, len), HaveRoom(pieces, used, len, room),
           \A j \in pieces : from[j] \in Nat /\ stored[j] \in Nat,
           NEW start \in Nat, NEW size \in Nat, NEW piece \in pieces,
           used[piece] <= start, start + size <= used[piece] + len[piece]
    PROVE  Addressed(bytes, start, size) =
              Copies(from[piece] + (start - used[piece]), stored[piece] + (start - used[piece]), start, size)
<1>1. \A j \in pieces : used[j] \in Nat /\ len[j] \in Nat /\ room[j] \in Nat /\ len[j] <= room[j]
    BY DEF HaveRoom
<1>2. start + size <= used[piece] + room[piece]
    BY <1>1
<1>3. \A j \in pieces : j # piece => Apart(used[j], len[j], start, size)
    BY <1>2, OthersApart
<1>4. \A j \in pieces : from[j] \in Nat /\ stored[j] \in Nat /\ used[j] \in Nat /\ len[j] \in Nat
    BY <1>1
<1>5. size \in 0..size
    OBVIOUS
<1> QED BY <1>3, <1>4, <1>5, OnePiece

\* and what lies behind it is not loaded.
LEMMA UnstoredPart ==
    ASSUME NEW bytes, NEW pieces, NEW from, NEW stored, NEW used, NEW len, NEW room,
           Loads(bytes, pieces, from, stored, used, len), HaveRoom(pieces, used, len, room),
           NEW start \in Nat, NEW size \in Nat, NEW piece \in pieces,
           used[piece] + len[piece] <= start, start + size <= used[piece] + room[piece]
    PROVE  Addressed(bytes, start, size) = {}
<1>1. \A j \in pieces : used[j] \in Nat /\ len[j] \in Nat
    BY DEF HaveRoom
<1>2. used[piece] <= start
    BY <1>1
<1>3. \A j \in pieces : Apart(used[j], len[j], start, size)
    <2> TAKE j \in pieces
    <2>1. CASE j = piece
        BY <2>1 DEF Apart
    <2>2. CASE j # piece
        BY <1>2, <2>2, OthersApart
    <2> QED BY <2>1, <2>2
<1> QED BY <1>1, <1>3, NoPiece

\* A PE section is loaded as far as it is stored and not padding.
PeStored(sh) == IF sh.virtualSize # 0 /\ sh.virtualSize < sh.rawSize THEN sh.virtualSize ELSE sh.rawSize

PeBytes(f) ==
    UNION {Copies(sh.rawPointer, f.base + sh.rva, f.base + sh.rva, PeStored(sh)) :
              sh \in {f.sections[k] : k \in DOMAIN f.sections}}

LEMMA PeLoads ==
    ASSUME NEW f, PeNumbers(f), PeConventions(f), NEW k \in DOMAIN f.sections,
           f.base + f.sections[k].rva <= MaxAddress
    PROVE  LoadsRight(PeBytes(f), PeSection(f, k).extent)
<1> DEFINE pieces == DOMAIN f.sections
           from   == [j \in pieces |-> f.sections[j].rawPointer]
           used   == [j \in pieces |-> f.base + f.sections[j].rva]
           len    == [j \in pieces |-> PeStored(f.sections[j])]
           size   == VirtualSize(f.sections[k])
           sh     == f.sections[k]
           va     == f.base + sh.rva
           there  == sh.rawSize > 0 /\ sh.rawPointer > 0
<1>1. Loads(PeBytes(f), pieces, from, used, used, len)
    BY DEF Loads, PeBytes
<1>2. ASSUME NEW j \in pieces
      PROVE  /\ from[j] \in Nat /\ used[j] \in Nat /\ len[j] \in Nat
             /\ f.sections[j].rva \in Nat /\ f.sections[j].rawSize \in Nat /\ f.sections[j].rawPointer \in Nat
             /\ VirtualSize(f.sections[j]) \in Nat /\ VirtualSize(f.sections[j]) \in Addresses
             /\ len[j] <= VirtualSize(f.sections[j])
             /\ len[j] = Lesser(f.sections[j].rawSize, VirtualSize(f.sections[j]))
    <2>1. /\ f.base \in Nat /\ f.sections[j].rva \in Nat /\ f.sections[j].rawPointer \in Nat
          /\ f.sections[j].rawSize \in Nat /\ f.sections[j].virtualSize \in Nat
          /\ f.sections[j].rawSize \in Addresses /\ f.sections[j].virtualSize \in Addresses
        BY DEF PeNumbers, Addresses
    <2> QED BY <2>1 DEF PeStored, VirtualSize, Lesser
<1>3. /\ f.base \in Nat /\ va = used[k] /\ va \in Nat /\ va \in Addresses
      /\ size \in Addresses /\ size \in Nat
    <2>1. f.base \in Nat /\ sh.rva \in Nat /\ va <= MaxAddress /\ va = used[k]
        BY DEF PeNumbers, Addresses
    <2>2. va \in Nat
        BY <2>1
    <2>3. va \in Addresses
        <3> HIDE DEF va
        <3> QED BY <2>1, <2>2, WidthAssumption DEF Addresses
    <2>4. size \in Addresses /\ size \in Nat
        BY <1>2
    <2> QED BY <2>1, <2>2, <2>3, <2>4
<1>4. Addressed(PeBytes(f), va, size) = Copies(sh.rawPointer, va, va, len[k])
    <2>1. \A j \in pieces : j # k => Apart(used[j], len[j], va, size)
        <3> SUFFICES ASSUME NEW j \in pieces, j # k PROVE Apart(used[j], len[j], va, size)
            OBVIOUS
        <3>1. Apart(f.sections[j].rva, VirtualSize(f.sections[j]), sh.rva, size)
            BY DEF PeConventions
        <3>2. /\ f.sections[j].rva \in Nat /\ VirtualSize(f.sections[j]) \in Nat /\ sh.rva \in Nat
              /\ len[j] \in Nat /\ len[j] <= VirtualSize(f.sections[j])
            BY <1>2
        <3>3. used[j] = f.base + f.sections[j].rva
            OBVIOUS
        <3> HIDE DEF used, len, size, sh
        <3> QED BY <1>3, <3>1, <3>2, <3>3 DEF Apart
    <2>2. len[k] \in 0..size /\ va + len[k] = used[k] + len[k] /\ used[k] <= va
        <3>1. len[k] \in Nat /\ len[k] <= size
            BY <1>2
        <3> HIDE DEF len, used, size, va
        <3> QED BY <1>3, <3>1
    <2>3. Addressed(PeBytes(f), va, size) =
              Copies(from[k] + (va - used[k]), used[k] + (va - used[k]), va, len[k])
        <3>1. va \in Nat /\ size \in Nat /\ k \in pieces
            BY <1>3 DEF Addresses
        <3>2. \A j \in pieces : from[j] \in Nat /\ used[j] \in Nat /\ used[j] \in Nat /\ len[j] \in Nat
            BY <1>2
        <3>3. /\ used[k] <= va /\ va + len[k] <= used[k] + len[k] /\ len[k] \in 0..size
              /\ len[k] = size \/ va + len[k] = used[k] + len[k]
            <4> HIDE DEF pieces, from, used, len, size, va
            <4> QED BY <2>2, <3>1, <3>2
        <3> HIDE DEF pieces, from, used, len, size, va
        <3> QED BY <1>1, <2>1, <3>1, <3>2, <3>3, OnePiece, SMTT(60)
    <2>4. from[k] + (va - used[k]) = sh.rawPointer /\ used[k] + (va - used[k]) = va
        <3>1. from[k] = sh.rawPointer /\ from[k] \in Nat
            BY <1>2
        <3> HIDE DEF from, used, va, sh
        <3> QED BY <1>3, <3>1 DEF Addresses
    <2> HIDE DEF pieces, from, used, len, size, va, sh
    <2> QED BY <2>3, <2>4
<1>5. /\ PeSection(f, k).extent["vm"] = AddrRange(va, size)
      /\ PeSection(f, k).extent["file"] = RangeIf(there, sh.rawPointer, sh.rawSize)
      /\ PeSection(f, k).extent["load"] = RangeIf(there, va, Lesser(sh.rawSize, size))
    BY DEF PeSection, Extent
<1>6. CASE there
    <2>1. Lesser(sh.rawSize, size) = len[k] /\ len[k] \in Addresses /\ sh.rawSize \in Addresses
          /\ sh.rawPointer \in Addresses
        <3>1. len[k] = Lesser(sh.rawSize, size)
            BY <1>2
        <3>2. sh.rawSize \in Addresses /\ sh.rawPointer \in Addresses
            BY DEF PeNumbers
        <3> HIDE DEF len, size, sh
        <3> QED BY <1>3, <3>1, <3>2, LesserFits
    <2>2. /\ PeSection(f, k).extent["load"] = AddrRange(va, len[k])
          /\ PeSection(f, k).extent["file"] = AddrRange(sh.rawPointer, sh.rawSize)
        BY <1>5, <1>6, <2>1 DEF RangeIf
    <2>3. AddrRange(va, len[k]) # NoRange /\ AddrRange(va, len[k]).start = va /\ AddrRange(va, len[k]).size = len[k]
        <3> HIDE DEF len, va
        <3> QED BY <1>3, <2>1, RangesAre
    <2>4. AddrRange(va, size).start = va /\ AddrRange(va, size).size = size
        BY DEF AddrRange
    <2>5. AddrRange(sh.rawPointer, sh.rawSize).start = sh.rawPointer
        BY DEF AddrRange
    <2> HIDE DEF len, size, va, sh, there
    <2> QED BY <1>4, <1>5, <2>2, <2>3, <2>4, <2>5 DEF LoadsRight
<1>7. CASE ~there
    <2>1. len[k] = 0
        <3>1. sh.rawSize \in Nat /\ sh.rawPointer \in Nat /\ len[k] = Lesser(sh.rawSize, size)
            BY <1>2
        <3>2. sh.rawSize = 0
            BY <1>7, <3>1 DEF PeConventions
        <3> HIDE DEF len, size, sh
        <3> QED BY <1>3, <3>1, <3>2 DEF Lesser
    <2>2. PeSection(f, k).extent["load"] = NoRange
        BY <1>5, <1>7 DEF RangeIf
    <2>3. AddrRange(va, size).start = va /\ AddrRange(va, size).size = size
        BY DEF AddrRange
    <2> HIDE DEF len, size, va, sh, there
    <2> QED BY <1>4, <1>5, <2>1, <2>2, <2>3, NoCopies DEF LoadsRight
<1> QED BY <1>6, <1>7

MachOBytes(slice) ==
    UNION {Copies(seg.fileoff, seg.vmaddr, seg.vmaddr, Lesser(seg.filesize, seg.vmsize)) :
              seg \in {s \in {slice.segments[k] : k \in DOMAIN slice.segments} : s.name # "__DWARF"}}

LEMMA MachOLoads ==
    ASSUME NEW slice, SliceNumbers(slice), MachOConventions(slice),
           NEW k \in DOMAIN slice.sections, MachOKind(slice.sections[k]) # "Tls"
    PROVE  LoadsRight(MachOBytes(slice), MachOSection(slice, k).extent)
<1> DEFINE pieces == {j \in DOMAIN slice.segments : slice.segments[j].name # "__DWARF"}
           from   == [j \in pieces |-> slice.segments[j].fileoff]
           used   == [j \in pieces |-> slice.segments[j].vmaddr]
           room   == [j \in pieces |-> slice.segments[j].vmsize]
           len    == [j \in pieces |-> Lesser(slice.segments[j].filesize, slice.segments[j].vmsize)]
           sect   == slice.sections[k]
           start  == sect.addr
           size   == sect.size
           extent == MachOSection(slice, k).extent
<1>1. Loads(MachOBytes(slice), pieces, from, used, used, len)
    BY DEF Loads, MachOBytes
<1>2. ASSUME NEW j \in pieces
      PROVE  from[j] \in Nat /\ used[j] \in Nat /\ room[j] \in Nat /\ len[j] \in Nat /\ len[j] <= room[j]
    <2>1. /\ slice.segments[j].vmaddr \in Nat /\ slice.segments[j].vmsize \in Nat
          /\ slice.segments[j].fileoff \in Nat /\ slice.segments[j].filesize \in Nat
        BY DEF SliceNumbers, Addresses
    <2> QED BY <2>1 DEF Lesser
<1>3. HaveRoom(pieces, used, len, room)
    <2>1. \A i, j \in pieces : i # j => Apart(used[i], room[i], used[j], room[j])
        BY DEF MachOConventions
    <2> HIDE DEF pieces, used, len, room
    <2> QED BY <1>2, <2>1 DEF HaveRoom
<1>4. /\ start \in Addresses /\ size \in Addresses /\ start \in Nat /\ size \in Nat
      /\ sect.offset \in Addresses
    BY DEF SliceNumbers, Addresses
<1>5. /\ extent["vm"] = RangeIf(sect.segment # "__DWARF", start, size)
      /\ extent["file"] = RangeIf(Stored(sect), sect.offset, size)
      /\ extent["load"] = RangeIf(sect.segment # "__DWARF" /\ Stored(sect), start, size)
    BY DEF MachOSection, Extent
<1>6. AddrRange(start, size) # NoRange /\ AddrRange(start, size).start = start /\ AddrRange(start, size).size = size
    <2> HIDE DEF start, size
    <2> QED BY <1>4, RangesAre
<1>7. AddrRange(sect.offset, size).start = sect.offset
    BY DEF AddrRange
<1>8. CASE sect.segment = "__DWARF"
    BY <1>5, <1>8 DEF LoadsRight, RangeIf
<1>9. CASE sect.segment # "__DWARF" /\ size = 0
    <2>1. extent["vm"] = AddrRange(start, 0) /\ extent["load"] = NoRange
        BY <1>5, <1>9 DEF RangeIf, Stored
    <2>2. Addressed(MachOBytes(slice), start, 0) = {}
        <3> HIDE DEF pieces, from, used, len, start
        <3> QED BY <1>1, <1>2, <1>4, NothingAddressed
    <2> HIDE DEF start, size
    <2> QED BY <1>6, <1>9, <2>1, <2>2 DEF LoadsRight
<1>10. CASE sect.segment # "__DWARF" /\ size # 0
    <2>1. PICK own \in pieces :
              IF Stored(sect)
              THEN /\ used[own] <= start /\ start + size <= used[own] + len[own]
                   /\ sect.offset = from[own] + (start - used[own])
              ELSE used[own] + len[own] <= start /\ start + size <= used[own] + room[own]
        <3>1. MachOKind(sect) \notin {"Debug", "Tls"}
            BY <1>10 DEF MachOKind
        <3>2. size > 0
            BY <1>4, <1>10
        <3> QED BY <3>1, <3>2 DEF MachOConventions
    <2>2. extent["vm"] = AddrRange(start, size)
        BY <1>5, <1>10 DEF RangeIf
    <2>3. CASE Stored(sect)
        <3>1. extent["load"] = AddrRange(start, size) /\ extent["file"] = AddrRange(sect.offset, size)
            BY <1>5, <1>10, <2>3 DEF RangeIf
        <3>2. Addressed(MachOBytes(slice), start, size) =
                  Copies(from[own] + (start - used[own]), used[own] + (start - used[own]), start, size)
            <4>1. used[own] <= start /\ start + size <= used[own] + len[own]
                BY <2>1, <2>3
            <4>2. \A j \in pieces : from[j] \in Nat /\ used[j] \in Nat
                BY <1>2
            <4> HIDE DEF pieces, from, used, len, room, start, size
            <4> QED BY <1>1, <1>3, <1>4, <4>1, <4>2, StoredPart
        <3>3. used[own] + (start - used[own]) = start
            <4>1. used[own] \in Nat
                BY <1>2
            <4> HIDE DEF pieces, used, start
            <4> QED BY <1>4, <4>1
        <3>4. sect.offset = from[own] + (start - used[own])
            BY <2>1, <2>3
        <3>5. Addressed(MachOBytes(slice), start, size) = Copies(sect.offset, start, start, size)
            <4> HIDE DEF pieces, from, used, start, size, sect
            <4> QED BY <3>2, <3>3, <3>4
        <3> HIDE DEF start, size, sect
        <3> QED BY <1>6, <1>7, <2>2, <3>1, <3>5 DEF LoadsRight
    <2>4. CASE ~Stored(sect)
        <3>1. extent["load"] = NoRange
            BY <1>5, <2>4 DEF RangeIf
        <3>2. Addressed(MachOBytes(slice), start, size) = {}
            <4>1. used[own] + len[own] <= start /\ start + size <= used[own] + room[own]
                BY <2>1, <2>4
            <4> HIDE DEF pieces, from, used, len, room, start, size
            <4> QED BY <1>1, <1>3, <1>4, <4>1, UnstoredPart
        <3> HIDE DEF start, size, sect
        <3> QED BY <1>6, <2>2, <3>1, <3>2 DEF LoadsRight
    <2> QED BY <2>3, <2>4
<1> QED BY <1>8, <1>9, <1>10

ElfBytes(f) ==
    UNION {Copies(ph.offset, ph.paddr, ph.vaddr, ph.filesz) :
              ph \in {f.segments[k] : k \in {k \in DOMAIN f.segments : Loadable(f.segments[k])}}}

\* The segment that the reader takes is the one that the linker meant: no other maps it.
LEMMA ElfLoadRangeIs ==
    ASSUME NEW f, ElfNumbers(f), ElfConventions(f), NEW k \in DOMAIN f.sections,
           "ALLOC" \in f.sections[k].flags, ~Nobits(f.sections[k]), f.sections[k].size > 0,
           NEW own \in DOMAIN f.segments, Loadable(f.segments[own]),
           f.segments[own].vaddr <= f.sections[k].addr,
           f.sections[k].addr + f.sections[k].size <= f.segments[own].vaddr + f.segments[own].filesz
    PROVE  LoadRange(f, f.sections[k]) =
              AddrRange(f.segments[own].paddr + (f.sections[k].addr - f.segments[own].vaddr), f.sections[k].size)
<1> DEFINE sh == f.sections[k]
           mapping == {j \in DOMAIN f.segments : Maps(f.segments[j], sh)}
           first == CHOOSE j \in mapping : \A i \in mapping : j <= i
           start == f.segments[own].paddr + (sh.addr - f.segments[own].vaddr)
<1>1. \A j \in DOMAIN f.segments :
          /\ f.segments[j].vaddr \in Nat /\ f.segments[j].paddr \in Nat
          /\ f.segments[j].filesz \in Nat /\ f.segments[j].memsz \in Nat
    BY DEF ElfNumbers, Addresses
<1>2. sh.addr \in Nat /\ sh.size \in Nat
    BY DEF ElfNumbers, Addresses
<1>3. /\ f.segments[own].filesz <= f.segments[own].memsz
      /\ f.segments[own].vaddr + f.segments[own].memsz <= MaxAddress
      /\ f.segments[own].paddr + f.segments[own].memsz <= MaxAddress
    BY DEF ElfConventions
<1>4. Maps(f.segments[own], sh)
    BY <1>1, <1>2, <1>3 DEF Maps
<1>5. ASSUME NEW j \in mapping PROVE j = own
    <2> SUFFICES ASSUME j # own PROVE FALSE
        OBVIOUS
    <2>1. Loadable(f.segments[j]) /\ f.segments[j].vaddr <= sh.addr
          /\ sh.addr + sh.size <= f.segments[j].vaddr + f.segments[j].memsz
        BY DEF Maps
    <2>2. Apart(f.segments[j].vaddr, f.segments[j].memsz, f.segments[own].vaddr, f.segments[own].memsz)
        BY <2>1 DEF ElfConventions
    <2>3. j \in DOMAIN f.segments
        OBVIOUS
    <2>4. sh.size > 0
        OBVIOUS
    <2>5. sh.addr + sh.size <= f.segments[own].vaddr + f.segments[own].memsz
        BY <1>4 DEF Maps
    <2>6. f.segments[own].vaddr <= sh.addr
        OBVIOUS
    <2> HIDE DEF sh, mapping
    <2> QED BY <1>1, <1>2, <2>1, <2>2, <2>3, <2>4, <2>5, <2>6 DEF Apart
<1>6. mapping = {own}
    BY <1>4, <1>5
<1>7. first = own
    <2>1. own \in Nat
        BY DEF ElfNumbers
    <2> HIDE DEF mapping
    <2> QED BY <1>6, <2>1
<1>8. start <= MaxAddress
    <2>1. f.segments[own].paddr \in Nat /\ f.segments[own].vaddr \in Nat
          /\ f.segments[own].filesz \in Nat /\ f.segments[own].memsz \in Nat
        BY <1>1
    <2>2. sh.addr + sh.size <= f.segments[own].vaddr + f.segments[own].filesz
        OBVIOUS
    <2> HIDE DEF sh
    <2> QED BY <1>2, <1>3, <2>1, <2>2, WidthAssumption
<1>9. LoadRange(f, sh) =
          RangeIf("ALLOC" \in sh.flags /\ ~Nobits(sh) /\ sh.size > 0 /\ mapping # {}
                      /\ f.segments[first].paddr + (sh.addr - f.segments[first].vaddr) <= MaxAddress,
                  f.segments[first].paddr + (sh.addr - f.segments[first].vaddr), sh.size)
    BY DEF LoadRange
<1>10. "ALLOC" \in sh.flags /\ ~Nobits(sh) /\ sh.size > 0 /\ mapping # {}
    BY <1>6
<1> HIDE DEF sh, mapping, first
<1>11. LoadRange(f, sh) = AddrRange(start, sh.size)
    BY <1>7, <1>8, <1>9, <1>10 DEF RangeIf
<1> QED BY <1>11 DEF sh

LEMMA ElfLoads ==
    ASSUME NEW f, ElfNumbers(f), ElfConventions(f),
           NEW k \in DOMAIN f.sections, ElfKind(f.sections[k]) # "Tls"
    PROVE  LoadsRight(ElfBytes(f), ElfSection(f, k).extent)
<1> DEFINE pieces == {j \in DOMAIN f.segments : Loadable(f.segments[j])}
           from   == [j \in pieces |-> f.segments[j].offset]
           stored == [j \in pieces |-> f.segments[j].paddr]
           used   == [j \in pieces |-> f.segments[j].vaddr]
           room   == [j \in pieces |-> f.segments[j].memsz]
           len    == [j \in pieces |-> f.segments[j].filesz]
           sh     == f.sections[k]
           start  == sh.addr
           size   == sh.size
           extent == ElfSection(f, k).extent
<1>1. Loads(ElfBytes(f), pieces, from, stored, used, len)
    BY DEF Loads, ElfBytes
<1>2. ASSUME NEW j \in pieces
      PROVE  /\ from[j] \in Nat /\ stored[j] \in Nat
             /\ used[j] \in Nat /\ room[j] \in Nat /\ len[j] \in Nat /\ len[j] <= room[j]
    <2>1. /\ f.segments[j].vaddr \in Nat /\ f.segments[j].memsz \in Nat /\ f.segments[j].paddr \in Nat
          /\ f.segments[j].offset \in Nat /\ f.segments[j].filesz \in Nat
        BY DEF ElfNumbers, Addresses
    <2> QED BY <2>1 DEF ElfConventions
<1>3. HaveRoom(pieces, used, len, room)
    <2>1. \A i, j \in pieces : i # j => Apart(used[i], room[i], used[j], room[j])
        BY DEF ElfConventions
    <2> HIDE DEF pieces, used, len, room
    <2> QED BY <1>2, <2>1 DEF HaveRoom
<1>4. /\ start \in Addresses /\ size \in Addresses /\ start \in Nat /\ size \in Nat
      /\ sh.offset \in Addresses
    BY DEF ElfNumbers, Addresses
<1>5. /\ extent["vm"] = RangeIf("ALLOC" \in sh.flags, start, size)
      /\ extent["file"] = RangeIf(~Nobits(sh) /\ sh.type # "SHT_NULL", sh.offset, size)
      /\ extent["load"] = LoadRange(f, sh)
    BY DEF ElfSection, Extent
<1>6. AddrRange(start, size) # NoRange /\ AddrRange(start, size).start = start /\ AddrRange(start, size).size = size
    <2> HIDE DEF start, size
    <2> QED BY <1>4, RangesAre
<1>7. AddrRange(sh.offset, size).start = sh.offset
    BY DEF AddrRange
<1>8. CASE "ALLOC" \notin sh.flags
    BY <1>5, <1>8 DEF LoadsRight, RangeIf
<1>9. CASE "ALLOC" \in sh.flags /\ size = 0
    <2>1. extent["vm"] = AddrRange(start, 0)
        BY <1>5, <1>9 DEF RangeIf
    <2>2. extent["load"] = NoRange
        BY <1>5, <1>9 DEF LoadRange, RangeIf
    <2>3. Addressed(ElfBytes(f), start, 0) = {}
        <3> HIDE DEF pieces, from, stored, used, len, start
        <3> QED BY <1>1, <1>2, <1>4, NothingAddressed
    <2> HIDE DEF start, size
    <2> QED BY <1>6, <1>9, <2>1, <2>2, <2>3 DEF LoadsRight
<1>10. CASE "ALLOC" \in sh.flags /\ size # 0
    <2>0. size > 0
        BY <1>4, <1>10
    <2>1. PICK own \in pieces :
              IF Nobits(sh)
              THEN used[own] + len[own] <= start /\ start + size <= used[own] + room[own]
              ELSE /\ used[own] <= start /\ start + size <= used[own] + len[own]
                   /\ sh.offset = from[own] + (start - used[own])
                   /\ sh.type # "SHT_NULL"
        BY <1>10, <2>0 DEF ElfConventions
    <2>2. extent["vm"] = AddrRange(start, size)
        BY <1>5, <1>10 DEF RangeIf
    <2>3. CASE ~Nobits(sh)
        <3>0. used[own] <= start /\ start + size <= used[own] + len[own]
              /\ sh.offset = from[own] + (start - used[own]) /\ sh.type # "SHT_NULL"
            BY <2>1, <2>3
        <3>1. extent["file"] = AddrRange(sh.offset, size)
            BY <1>5, <2>3, <3>0 DEF RangeIf
        <3>2. extent["load"] = AddrRange(stored[own] + (start - used[own]), size)
            <4>1. LoadRange(f, sh) = AddrRange(stored[own] + (start - used[own]), size)
                BY <1>10, <2>0, <2>3, <3>0, ElfLoadRangeIs
            <4> QED BY <1>5, <4>1
        <3>3. Addressed(ElfBytes(f), start, size) =
                  Copies(from[own] + (start - used[own]), stored[own] + (start - used[own]), start, size)
            <4>1. \A j \in pieces : from[j] \in Nat /\ stored[j] \in Nat
                BY <1>2
            <4> HIDE DEF pieces, from, stored, used, len, room, start, size
            <4> QED BY <1>1, <1>3, <1>4, <3>0, <4>1, StoredPart
        <3>4. extent["load"] # NoRange
            <4>1. LoadRange(f, sh) = AddrRange(stored[own] + (start - used[own]), size)
                BY <1>5, <3>2
            <4>2. stored[own] + (start - used[own]) \in Addresses
                <5>1. /\ used[own] \in Nat /\ stored[own] \in Nat /\ len[own] \in Nat /\ room[own] \in Nat
                      /\ len[own] <= room[own]
                    BY <1>2
                <5>2. stored[own] + room[own] <= MaxAddress
                    BY DEF ElfConventions
                <5> HIDE DEF pieces, stored, used, len, room, start, size
                <5> QED BY <1>4, <3>0, <5>1, <5>2, WidthAssumption DEF Addresses
            <4>3. AddrRange(stored[own] + (start - used[own]), size) # NoRange
                <5> HIDE DEF pieces, stored, used, start, size
                <5> QED BY <1>4, <4>2, RangesAre
            <4> HIDE DEF pieces, stored, used, start, size, extent
            <4> QED BY <3>2, <4>3
        <3>5. /\ extent["file"].start = from[own] + (start - used[own])
              /\ extent["load"].start = stored[own] + (start - used[own])
              /\ extent["load"].size = size
            <4>1. sh.offset = from[own] + (start - used[own])
                BY <3>0
            <4>2. /\ AddrRange(stored[own] + (start - used[own]), size).start = stored[own] + (start - used[own])
                  /\ AddrRange(stored[own] + (start - used[own]), size).size = size
                BY DEF AddrRange
            <4> HIDE DEF pieces, from, stored, used, start, size, sh
            <4> QED BY <1>7, <3>1, <3>2, <4>1, <4>2
        <3> HIDE DEF pieces, from, stored, used, start, size, sh
        <3> QED BY <1>6, <2>2, <3>3, <3>4, <3>5 DEF LoadsRight
    <2>4. CASE Nobits(sh)
        <3>1. extent["load"] = NoRange
            BY <1>5, <2>4 DEF LoadRange, RangeIf
        <3>2. Addressed(ElfBytes(f), start, size) = {}
            <4>1. used[own] + len[own] <= start /\ start + size <= used[own] + room[own]
                BY <2>1, <2>4
            <4> HIDE DEF pieces, from, stored, used, len, room, start, size
            <4> QED BY <1>1, <1>3, <1>4, <4>1, UnstoredPart
        <3> HIDE DEF start, size, sh
        <3> QED BY <1>6, <2>2, <3>1, <3>2 DEF LoadsRight
    <2> QED BY <2>3, <2>4
<1> QED BY <1>8, <1>9, <1>10

\* LoadedFromFile, section by section.
LEMMA LoadedSectionBySection ==
    ASSUME \A k \in DOMAIN image.sections :
              image.sections[k].kind # "Tls" => LoadsRight(LoaderBytes, image.sections[k].extent)
    PROVE  LoadedFromFile
BY DEF LoadedFromFile, LoadsRight, Addressed

LEMMA LoadedAsLinked == ImageInv => LoadedFromFile
<1> SUFFICES ASSUME ImageInv, Linked PROVE LoadedFromFile
    BY DEF LoadedFromFile
<1>1. file \in Files /\ file.parses /\ file.linked # None
    BY DEF ImageInv, Linked
<1>2. image.status = "ok"
    BY DEF Linked, Opened
<1>3. CASE Probe("elf") /\ image = ElfImage(file)
    <2>1. ElfNumbers(file) /\ ElfConventions(file)
        BY <1>1, <1>3, NumbersFit, LinkerAssumption DEF Probe
    <2>2. LoaderBytes = ElfBytes(file)
        BY <1>3 DEF LoaderBytes, ElfLoader, ElfBytes
    <2>3. image.sections = [k \in DOMAIN file.sections |-> ElfSection(file, k)]
        BY <1>1, <1>3 DEF ElfImage
    <2>4. ASSUME NEW k \in DOMAIN file.sections, image.sections[k].kind # "Tls"
          PROVE  LoadsRight(LoaderBytes, image.sections[k].extent)
        <3>1. image.sections[k] = ElfSection(file, k)
            BY <2>3
        <3>2. ElfKind(file.sections[k]) # "Tls"
            BY <2>4, <3>1 DEF ElfSection
        <3> QED BY <2>1, <2>2, <3>1, <3>2, ElfLoads
    <2> QED BY <2>3, <2>4, LoadedSectionBySection
<1>4. CASE Probe("pe") /\ image = PeImage(file)
    <2>1. PeNumbers(file) /\ PeConventions(file)
        BY <1>1, <1>4, NumbersFit, LinkerAssumption DEF Probe
    <2>2. LoaderBytes = PeBytes(file)
        BY <1>1, <1>4, NumbersFit DEF LoaderBytes, PeLoader, PeBytes, PeStored
    <2>3. /\ image.sections = [k \in DOMAIN file.sections |-> PeSection(file, k)]
          /\ \A k \in DOMAIN file.sections : ~(file.base + file.sections[k].rva > MaxAddress)
        BY <1>2, <1>4 DEF PeImage, Malformed
    <2>4. ASSUME NEW k \in DOMAIN file.sections PROVE LoadsRight(LoaderBytes, image.sections[k].extent)
        <3>1. image.sections[k] = PeSection(file, k)
            BY <2>3
        <3>2. file.base + file.sections[k].rva <= MaxAddress
            <4>1. file.base \in Nat /\ file.sections[k].rva \in Nat
                BY <2>1 DEF PeNumbers, Addresses
            <4> QED BY <2>3, <4>1, WidthAssumption
        <3> QED BY <2>1, <2>2, <3>1, <3>2, PeLoads
    <2> QED BY <2>3, <2>4, LoadedSectionBySection
<1>5. CASE Probe("macho") /\ image = MachOImage(file, Arch)
    <2> DEFINE slice == SliceOf(file, Arch)
    <2>1. MachONumbers(file)
        BY <1>1, <1>5, NumbersFit
    <2>2. slice # None /\ image.sections = MachOSections(slice)
        BY <1>2, <1>5 DEF MachOImage, Malformed
    <2>3. SliceNumbers(slice)
        BY <2>1, <2>2, SliceHasNumbers
    <2>4. MachOConventions(slice)
        <3>1. PICK s \in DOMAIN file.slices : slice = file.slices[s]
            BY <2>1, <2>2, SliceIsOne
        <3>2. MachOProbe(file)
            BY <1>5 DEF Probe
        <3> HIDE DEF slice
        <3> QED BY <1>1, <3>1, <3>2, LinkerAssumption
    <2>5. LoaderBytes = MachOBytes(slice)
        BY <1>1, <1>5, NumbersFit DEF LoaderBytes, MachOLoader, MachOBytes
    <2> HIDE DEF slice
    <2>6. ASSUME NEW k \in DOMAIN slice.sections, image.sections[k].kind # "Tls"
          PROVE  LoadsRight(LoaderBytes, image.sections[k].extent)
        <3>1. image.sections[k] = MachOSection(slice, k)
            BY <2>2 DEF MachOSections
        <3>2. MachOKind(slice.sections[k]) # "Tls"
            BY <2>6, <3>1 DEF MachOSection
        <3> QED BY <2>3, <2>4, <2>5, <3>1, <3>2, MachOLoads
    <2>7. DOMAIN image.sections = DOMAIN slice.sections
        BY <2>2 DEF MachOSections
    <2> QED BY <2>6, <2>7, LoadedSectionBySection
<1> QED BY <1>3, <1>4, <1>5 DEF ImageInv, Linked

\* Of a file that a linker laid out, whatever the linker put into it, each section's
\* extent says just where a loader, which looks at segments only, brings its bytes from
\* the file: the reader's choice of a segment for an ELF section, its cut of PE padding
\* and its refusals of what is not stored lose no byte and invent none.
THEOREM ContainersLoadedFromFile == Spec => []LoadedFromFile
<1>1. Spec => []ImageInv
    BY ImageInvStarts, ImageInvKept, PTL DEF Spec
<1> QED BY <1>1, LoadedAsLinked, PTL

-----------------------------------------------------------------------------
(* The rules of conformance.rs.                                            *)

Inside(range, length) == range # NoRange => range.start + range.size <= length

\* What the rules say of an image.
SegmentsInside(parsed) ==
    \A k \in DOMAIN parsed.segments : Inside(parsed.segments[k].extent["file"], parsed.fileSize)

SectionsInside(parsed) ==
    \A k \in DOMAIN parsed.sections :
        LET extent == parsed.sections[k].extent
        IN /\ extent["file"] # NoRange => EndOf(extent["file"]) <= parsed.fileSize
           /\ extent["load"] # NoRange => extent["vm"] # NoRange /\ extent["file"] # NoRange

Placed(parsed, symbol) ==
    /\ symbol.section \in DOMAIN parsed.sections
    /\ LET vm == parsed.sections[symbol.section].extent["vm"]
       IN vm # NoRange /\ symbol.kind \notin {"Tls", "Section"} => Within(vm, symbol.address)
    /\ ~(symbol.thumb /\ symbol.address % 2 = 1)

SymbolsPlaced(parsed) == \A symbol \in parsed.symbols : symbol.section # None => Placed(parsed, symbol)

\* What they say of the bytes of a section.
ReadWhole(range, bytes, start, contents) ==
    range # NoRange => bytes.status = "ok" /\ bytes.from = start + range.start /\ bytes.size = contents

LEMMA InsideEnds ==
    ASSUME NEW start \in Addresses, NEW size \in Addresses, NEW length \in Addresses,
           start + size <= length
    PROVE  Inside(AddrRange(start, size), length) /\ EndOf(AddrRange(start, size)) <= length
<1>1. start \in Nat /\ size \in Nat /\ length \in Nat
    BY DEF Addresses
<1>2. AddrRange(start, size).start = start /\ AddrRange(start, size).size = size
    BY DEF AddrRange
<1>3. EndOf(AddrRange(start, size)) = Lesser(start + size, MaxAddress)
    BY <1>2 DEF EndOf
<1> QED BY <1>1, <1>2, <1>3, WidthAssumption DEF Inside, Lesser

\* A range that is there on a condition, and inside of a file if it is there.
LEMMA InsideIf ==
    ASSUME NEW condition \in BOOLEAN, NEW start \in Addresses, NEW size \in Addresses,
           NEW length \in Addresses, condition => start + size <= length
    PROVE  LET range == RangeIf(condition, start, size)
           IN /\ range # NoRange <=> condition
              /\ Inside(range, length) /\ (range # NoRange => EndOf(range) <= length)
<1>1. AddrRange(start, size) # NoRange
    BY RangesAre
<1>2. CASE condition
    BY <1>1, <1>2, InsideEnds DEF RangeIf
<1>3. CASE ~condition
    BY <1>3 DEF RangeIf, Inside
<1> QED BY <1>2, <1>3

\* A whole ELF file: segments and sections inside of it,
LEMMA ElfInside ==
    ASSUME NEW f, ElfNumbers(f), ElfWhole(f), f.parses
    PROVE  SegmentsInside(ElfImage(f)) /\ SectionsInside(ElfImage(f))
<1>0. /\ ElfImage(f).fileSize = f.length /\ f.length \in Addresses
      /\ ElfImage(f).segments = [k \in DOMAIN f.segments |-> ElfSegment(f.segments[k])]
      /\ ElfImage(f).sections = [k \in DOMAIN f.sections |-> ElfSection(f, k)]
    BY DEF ElfImage, ElfNumbers
<1>1. ASSUME NEW k \in DOMAIN f.segments
      PROVE  Inside(ElfSegment(f.segments[k]).extent["file"], f.length)
    <2> DEFINE ph == f.segments[k]
    <2>1. ph.offset \in Addresses /\ ph.filesz \in Addresses
        BY DEF ElfNumbers
    <2>2. ph.filesz > 0 => ph.offset + ph.filesz <= f.length
        BY DEF ElfWhole
    <2>3. ElfSegment(ph).extent["file"] = RangeIf(ph.filesz > 0, ph.offset, ph.filesz)
        BY DEF ElfSegment, Extent
    <2>4. (ph.filesz > 0) \in BOOLEAN
        OBVIOUS
    <2> HIDE DEF ph
    <2>5. Inside(RangeIf(ph.filesz > 0, ph.offset, ph.filesz), f.length)
        BY <1>0, <2>1, <2>2, <2>4, InsideIf
    <2>6. Inside(ElfSegment(ph).extent["file"], f.length)
        BY <2>3, <2>5
    <2> QED BY <2>6 DEF ph
<1>2. ASSUME NEW k \in DOMAIN f.sections
      PROVE  LET extent == ElfSection(f, k).extent
             IN /\ extent["file"] # NoRange => EndOf(extent["file"]) <= f.length
                /\ extent["load"] # NoRange => extent["vm"] # NoRange /\ extent["file"] # NoRange
    <2> DEFINE sh == f.sections[k]
               there == ~Nobits(sh) /\ sh.type # "SHT_NULL"
    <2>1. sh.addr \in Addresses /\ sh.offset \in Addresses /\ sh.size \in Addresses
        BY DEF ElfNumbers
    <2>2. there => sh.offset + sh.size <= f.length
        BY DEF ElfWhole
    <2>3. "ALLOC" \in sh.flags /\ ~Nobits(sh) /\ sh.size > 0 => there
        BY DEF ElfWhole
    <2>4. /\ ElfSection(f, k).extent["vm"] = RangeIf("ALLOC" \in sh.flags, sh.addr, sh.size)
          /\ ElfSection(f, k).extent["file"] = RangeIf(there, sh.offset, sh.size)
          /\ ElfSection(f, k).extent["load"] = LoadRange(f, sh)
        BY DEF ElfSection, Extent
    <2>5. LoadRange(f, sh) # NoRange => "ALLOC" \in sh.flags /\ ~Nobits(sh) /\ sh.size > 0
        BY DEF LoadRange, RangeIf
    <2>6. there \in BOOLEAN
        OBVIOUS
    <2> HIDE DEF sh, there
    <2>7. /\ RangeIf(there, sh.offset, sh.size) # NoRange <=> there
          /\ RangeIf(there, sh.offset, sh.size) # NoRange => EndOf(RangeIf(there, sh.offset, sh.size)) <= f.length
        BY <1>0, <2>1, <2>2, <2>6, InsideIf
    <2>8. "ALLOC" \in sh.flags => RangeIf("ALLOC" \in sh.flags, sh.addr, sh.size) # NoRange
        BY <2>1, RangesAre DEF RangeIf
    <2> QED BY <2>3, <2>4, <2>5, <2>7, <2>8
<1> QED BY <1>0, <1>1, <1>2 DEF SegmentsInside, SectionsInside

\* and symbols where their sections are: labels that are not have lost them, and of
\* functions the Thumb bit is no part of the address.
LEMMA ElfPlaced ==
    ASSUME NEW f, ElfNumbers(f), ElfWhole(f), f.parses
    PROVE  SymbolsPlaced(ElfImage(f))
<1>0. ElfImage(f).sections = [k \in DOMAIN f.sections |-> ElfSection(f, k)] /\ ElfImage(f).symbols = ElfSymbols(f)
    BY DEF ElfImage
<1> SUFFICES ASSUME NEW symbol \in ElfSymbols(f), symbol.section # None PROVE Placed(ElfImage(f), symbol)
    BY <1>0 DEF SymbolsPlaced
<1>1. PICK entries \in {f.symtab, f.dynsym} :
          \E k \in DOMAIN entries : Reported(f, entries[k]) /\ symbol = ElfSymbol(f, k, entries[k])
    BY DEF ElfSymbols
<1>2. PICK k \in DOMAIN entries : Reported(f, entries[k]) /\ symbol = ElfSymbol(f, k, entries[k])
    BY <1>1
<1> DEFINE sym == entries[k]
           thumb == IsThumb(f, sym)
           address == IF thumb THEN sym.value - 1 ELSE sym.value
           index == NamedSection(f, sym)
           sh == f.sections[index]
<1>3. sym.value \in Addresses
    BY DEF ElfNumbers
<1>4. /\ symbol.kind = ElfSymbolKind(sym.type) /\ symbol.address = address /\ symbol.thumb = thumb
      /\ symbol.section = SymbolSection(f, sym, address)
    BY <1>2 DEF ElfSymbol
<1>5. symbol.section = index /\ index # None
    BY <1>4 DEF SymbolSection
<1>6. /\ index \in DOMAIN f.sections
      /\ "ALLOC" \in sh.flags /\ sym.type \notin {"STT_NOTYPE", "STT_TLS", "STT_SECTION"} =>
            /\ sh.addr <= sym.value /\ sym.value <= sh.addr + sh.size
            /\ f.machine = "Arm" /\ ElfSymbolKind(sym.type) = "Function" => sh.addr % 2 = 0
    BY <1>2, <1>5 DEF ElfWhole
<1>7. sh.addr \in Addresses /\ sh.size \in Addresses
    BY <1>6 DEF ElfNumbers
<1> DEFINE vm == ElfSection(f, index).extent["vm"]
<1>8. vm = IF "ALLOC" \in sh.flags THEN AddrRange(sh.addr, sh.size) ELSE NoRange
    BY DEF ElfSection, Extent, RangeIf
<1>9. AddrRange(sh.addr, sh.size) # NoRange
    BY <1>7, RangesAre
<1>10. ~(thumb /\ address % 2 = 1)
    <2>1. thumb => sym.value % 2 = 1 /\ sym.value \in Nat
        BY <1>3 DEF IsThumb, Addresses
    <2> HIDE DEF sym, thumb
    <2> QED BY <2>1
<1>11. vm # NoRange /\ symbol.kind \notin {"Tls", "Section"} => Within(vm, address)
    <2> SUFFICES ASSUME "ALLOC" \in sh.flags, symbol.kind \notin {"Tls", "Section"}
                 PROVE  Within(AddrRange(sh.addr, sh.size), address)
        BY <1>8
    <2>1. CASE sym.type = "STT_NOTYPE"
        BY <1>4, <1>5, <1>6, <1>8, <1>9, <2>1 DEF SymbolSection
    <2>2. CASE sym.type # "STT_NOTYPE"
        <3>1. sym.type \notin {"STT_NOTYPE", "STT_TLS", "STT_SECTION"}
            BY <1>4, <2>2 DEF ElfSymbolKind
        <3>2. /\ sh.addr <= sym.value /\ sym.value <= sh.addr + sh.size
              /\ thumb => sh.addr % 2 = 0 /\ sym.value % 2 = 1
            BY <1>6, <3>1 DEF IsThumb
        <3>3. /\ AddrRange(sh.addr, sh.size).start = sh.addr
              /\ AddrRange(sh.addr, sh.size).size = sh.size
            BY DEF AddrRange
        <3>4. sh.addr \in Nat /\ sh.size \in Nat /\ sym.value \in Nat /\ sym.value <= MaxAddress
            BY <1>3, <1>7, WidthAssumption DEF Addresses
        <3> HIDE DEF sh, sym, thumb
        <3>5. address <= sh.addr + sh.size /\ address <= MaxAddress /\ sh.addr <= address
            BY <3>2, <3>4, WidthAssumption
        <3> QED BY <3>3, <3>4, <3>5, WidthAssumption DEF Within, EndOf, Lesser
    <2> QED BY <2>1, <2>2
<1>12. ElfImage(f).sections[index].extent["vm"] = vm /\ index \in DOMAIN ElfImage(f).sections
    BY <1>0, <1>6
<1> HIDE DEF thumb, address, index, sh, vm
<1> QED BY <1>4, <1>5, <1>10, <1>11, <1>12 DEF Placed

\* What a section holds is read, uncompressed if it is compressed: it is inside of the
\* file, and not refused as larger than what it is made of can be.
LEMMA ElfReads ==
    ASSUME NEW f, ElfNumbers(f), ElfWhole(f), NEW k \in DOMAIN f.sections
    PROVE  ReadWhole(ElfSection(f, k).extent["file"], ElfSectionData(f, k),
                     f.linked.start[ElfArch(f)], f.linked.contents[ElfArch(f)][k])
<1> DEFINE sh == f.sections[k]
           there == ~Nobits(sh) /\ sh.type # "SHT_NULL"
           limit == Lesser(Lesser(sh.size * MaxRatio, MaxAddress) + RatioSlack, MaxAddress)
           size == IF sh.uncompressed = None THEN sh.size ELSE sh.uncompressed
<1>1. ElfSection(f, k).extent["file"] = RangeIf(there, sh.offset, sh.size)
    BY DEF ElfSection, Extent
<1> SUFFICES ASSUME there
             PROVE  ReadWhole(AddrRange(sh.offset, sh.size), ElfSectionData(f, k),
                              f.linked.start[ElfArch(f)], f.linked.contents[ElfArch(f)][k])
    BY <1>1 DEF ReadWhole, RangeIf
<1>2. /\ sh.offset \in Nat /\ sh.size \in Nat /\ f.length \in Nat
      /\ sh.uncompressed # None => sh.uncompressed \in Nat /\ sh.uncompressed <= MaxAddress
    BY WidthAssumption DEF ElfNumbers, Addresses
<1>3. /\ sh.offset + sh.size <= f.length
      /\ sh.uncompressed # None => sh.uncompressed <= sh.size * MaxRatio + RatioSlack
      /\ f.linked.contents[ElfArch(f)][k] = size
      /\ f.linked.start[ElfArch(f)] = 0
    BY DEF ElfWhole
<1>4. sh.uncompressed # None => ~(sh.uncompressed > limit)
    <2>1. sh.size * MaxRatio \in Nat /\ RatioSlack \in Nat
        BY <1>2, LimitAssumption
    <2> DEFINE product == sh.size * MaxRatio
    <2> HIDE DEF product, sh
    <2>2. sh.uncompressed # None => ~(sh.uncompressed > Lesser(Lesser(product, MaxAddress) + RatioSlack, MaxAddress))
        BY <1>2, <1>3, <2>1, WidthAssumption DEF Lesser, product
    <2> QED BY <2>2 DEF product
<1>5. ~(sh.offset + sh.size > f.length)
    <2> HIDE DEF sh
    <2> QED BY <1>2, <1>3
<1>6. ElfSectionData(f, k) = Bytes(sh.offset, size)
    BY <1>4, <1>5 DEF ElfSectionData
<1>7. 0 + sh.offset = sh.offset /\ AddrRange(sh.offset, sh.size).start = sh.offset
    BY <1>2 DEF AddrRange
<1> HIDE DEF sh, size
<1> QED BY <1>3, <1>6, <1>7 DEF ReadWhole, Bytes

\* A whole PE file.
LEMMA PeConforms ==
    ASSUME NEW f, PeNumbers(f), PeWhole(f), PeImage(f).status = "ok"
    PROVE  SegmentsInside(PeImage(f)) /\ SectionsInside(PeImage(f)) /\ SymbolsPlaced(PeImage(f))
<1>0. /\ PeImage(f).fileSize = f.length /\ PeImage(f).segments = PeSegments(f) /\ PeImage(f).symbols = {}
      /\ PeImage(f).sections = [k \in DOMAIN f.sections |-> PeSection(f, k)]
      /\ f.length \in Addresses /\ f.sizeOfHeaders \in Addresses
      /\ \A k \in DOMAIN f.sections : ~(f.base + f.sections[k].rva > MaxAddress)
    BY DEF PeImage, Malformed, PeNumbers
<1>1. \A k \in DOMAIN PeSegments(f) : Inside(PeSegments(f)[k].extent["file"], f.length)
    <2>1. Inside(AddrRange(0, f.sizeOfHeaders), f.length)
        <3>1. 0 \in Addresses /\ 0 + f.sizeOfHeaders <= f.length
            BY <1>0, WidthAssumption DEF PeWhole, Addresses
        <3> QED BY <1>0, <3>1, InsideEnds
    <2>2. Inside(NoRange, f.length)
        BY DEF Inside
    <2>3. \A vm, stored, load : PeSegment(vm, stored, load).extent["file"] = stored
        BY DEF PeSegment, Extent
    <2> QED BY <2>1, <2>2, <2>3 DEF PeSegments
<1>2. ASSUME NEW k \in DOMAIN f.sections
      PROVE  LET extent == PeSection(f, k).extent
             IN /\ extent["file"] # NoRange => EndOf(extent["file"]) <= f.length
                /\ extent["load"] # NoRange => extent["vm"] # NoRange /\ extent["file"] # NoRange
    <2> DEFINE sh == f.sections[k]
               va == f.base + sh.rva
               stored == sh.rawSize > 0 /\ sh.rawPointer > 0
    <2>1. /\ sh.rawPointer \in Addresses /\ sh.rawSize \in Addresses
          /\ f.base \in Addresses /\ sh.rva \in Addresses /\ VirtualSize(sh) \in Addresses
        BY DEF PeNumbers, VirtualSize
    <2>2. sh.rawPointer + sh.rawSize <= f.length /\ ~(va > MaxAddress)
        BY <1>0 DEF PeWhole
    <2>3. /\ PeSection(f, k).extent["vm"] = AddrRange(va, VirtualSize(sh))
          /\ PeSection(f, k).extent["file"] = RangeIf(stored, sh.rawPointer, sh.rawSize)
          /\ PeSection(f, k).extent["load"] = RangeIf(stored, va, Lesser(sh.rawSize, VirtualSize(sh)))
        BY DEF PeSection, Extent
    <2>4. stored \in BOOLEAN
        OBVIOUS
    <2> HIDE DEF sh, stored
    <2>5. va \in Addresses
        BY <2>1, <2>2, WidthAssumption DEF Addresses
    <2>6. /\ RangeIf(stored, sh.rawPointer, sh.rawSize) # NoRange <=> stored
          /\ RangeIf(stored, sh.rawPointer, sh.rawSize) # NoRange
                => EndOf(RangeIf(stored, sh.rawPointer, sh.rawSize)) <= f.length
        BY <1>0, <2>1, <2>2, <2>4, InsideIf
    <2>7. AddrRange(va, VirtualSize(sh)) # NoRange
        BY <2>1, <2>5, RangesAre
    <2>8. RangeIf(stored, va, Lesser(sh.rawSize, VirtualSize(sh))) # NoRange => stored
        BY DEF RangeIf
    <2> HIDE DEF va
    <2> QED BY <2>3, <2>6, <2>7, <2>8
<1> QED BY <1>0, <1>1, <1>2 DEF SegmentsInside, SectionsInside, SymbolsPlaced

LEMMA PeReads ==
    ASSUME NEW f, PeNumbers(f), PeWhole(f), NEW k \in DOMAIN f.sections
    PROVE  ReadWhole(PeSection(f, k).extent["file"], PeSectionData(f, k),
                     f.linked.start[f.machine], f.linked.contents[f.machine][k])
<1> DEFINE sh == f.sections[k]
           stored == sh.rawSize > 0 /\ sh.rawPointer > 0
           range == AddrRange(sh.rawPointer, sh.rawSize)
<1>1. PeSection(f, k).extent["file"] = RangeIf(stored, sh.rawPointer, sh.rawSize)
    BY DEF PeSection, Extent
<1> SUFFICES ASSUME stored, PeSection(f, k).extent["file"] = range
             PROVE  ReadWhole(range, PeSectionData(f, k), f.linked.start[f.machine], f.linked.contents[f.machine][k])
    BY <1>1 DEF ReadWhole, RangeIf
<1>2. /\ sh.rawPointer \in Addresses /\ sh.rawSize \in Addresses /\ f.length \in Addresses
      /\ sh.rawPointer + sh.rawSize <= f.length
      /\ f.linked.contents[f.machine][k] = sh.rawSize /\ f.linked.start[f.machine] = 0
    BY DEF PeNumbers, PeWhole
<1>3. range # NoRange /\ range.start = sh.rawPointer /\ range.size = sh.rawSize
    <2> HIDE DEF sh
    <2> QED BY <1>2, RangesAre
<1>4. ~(sh.rawPointer + sh.rawSize > Lesser(f.length, MaxAddress)) /\ 0 + sh.rawPointer = sh.rawPointer
    <2> HIDE DEF sh
    <2> QED BY <1>2, WidthAssumption DEF Addresses, Lesser
<1> HIDE DEF sh, range
<1>5. PeSectionData(f, k) = Bytes(sh.rawPointer, sh.rawSize)
    BY <1>3, <1>4 DEF PeSectionData
<1> QED BY <1>2, <1>3, <1>4, <1>5 DEF ReadWhole, Bytes

\* A whole Mach-O file, thin or not: what is stored is inside of the slice, and symbols are
\* where their sections are, or in none.
LEMMA MachOConforms ==
    ASSUME NEW f, NEW arch, MachONumbers(f), f.parses, SliceOf(f, arch) # None,
           MachOWhole(f, SliceOf(f, arch))
    PROVE  /\ SegmentsInside(MachOImage(f, arch)) /\ SectionsInside(MachOImage(f, arch))
           /\ SymbolsPlaced(MachOImage(f, arch))
<1> DEFINE slice == SliceOf(f, arch)
           size == MachOImage(f, arch).fileSize
<1>1. SliceNumbers(slice) /\ f.length \in Addresses
    BY SliceHasNumbers
<1>2. /\ size = IF slice.offset # 0 THEN slice.length ELSE f.length
      /\ MachOImage(f, arch).segments = [k \in DOMAIN slice.segments |-> MachOSegment(slice.segments[k])]
      /\ MachOImage(f, arch).sections = [k \in DOMAIN slice.sections |-> MachOSection(slice, k)]
      /\ MachOImage(f, arch).symbols = MachOSymbols(slice)
    BY DEF MachOImage, MachOSections
<1>3. size \in Addresses /\ slice.length <= size
    <2>1. /\ slice.offset \in Addresses /\ slice.length \in Addresses
          /\ slice.offset + slice.length <= f.length
        BY <1>1 DEF SliceNumbers, MachOWhole
    <2> HIDE DEF slice, size
    <2> QED BY <1>1, <1>2, <2>1 DEF Addresses
<1>4. MachOWhole(f, slice)
    OBVIOUS
<1> HIDE DEF slice, size
<1>5. ASSUME NEW k \in DOMAIN slice.segments
      PROVE  Inside(MachOSegment(slice.segments[k]).extent["file"], size)
    <2> DEFINE seg == slice.segments[k]
    <2>1. seg.fileoff \in Addresses /\ seg.filesize \in Addresses /\ slice.length \in Addresses
        BY <1>1 DEF SliceNumbers
    <2>2. seg.filesize > 0 => seg.fileoff + seg.filesize <= slice.length
        BY <1>4 DEF MachOWhole
    <2>3. MachOSegment(seg).extent["file"] = RangeIf(seg.filesize > 0, seg.fileoff, seg.filesize)
        BY DEF MachOSegment, Extent
    <2>4. (seg.filesize > 0) \in BOOLEAN
        OBVIOUS
    <2> HIDE DEF seg
    <2>5. seg.filesize > 0 => seg.fileoff + seg.filesize <= size
        BY <1>3, <2>1, <2>2 DEF Addresses
    <2>6. Inside(RangeIf(seg.filesize > 0, seg.fileoff, seg.filesize), size)
        BY <1>3, <2>1, <2>4, <2>5, InsideIf
    <2>7. Inside(MachOSegment(seg).extent["file"], size)
        BY <2>3, <2>6
    <2> QED BY <2>7 DEF seg
<1>6. ASSUME NEW k \in DOMAIN slice.sections
      PROVE  LET extent == MachOSection(slice, k).extent
             IN /\ extent["file"] # NoRange => EndOf(extent["file"]) <= size
                /\ extent["load"] # NoRange => extent["vm"] # NoRange /\ extent["file"] # NoRange
    <2> DEFINE sect == slice.sections[k]
               mapped == sect.segment # "__DWARF"
    <2>1. /\ sect.addr \in Addresses /\ sect.size \in Addresses /\ sect.offset \in Addresses
          /\ slice.length \in Addresses
        BY <1>1 DEF SliceNumbers
    <2>2. Stored(sect) => sect.offset + sect.size <= slice.length
        BY <1>4 DEF MachOWhole
    <2>3. /\ MachOSection(slice, k).extent["vm"] = RangeIf(mapped, sect.addr, sect.size)
          /\ MachOSection(slice, k).extent["file"] = RangeIf(Stored(sect), sect.offset, sect.size)
          /\ MachOSection(slice, k).extent["load"] = RangeIf(mapped /\ Stored(sect), sect.addr, sect.size)
        BY DEF MachOSection, Extent
    <2>4. Stored(sect) \in BOOLEAN
        BY DEF Stored
    <2> HIDE DEF sect, mapped
    <2>5. Stored(sect) => sect.offset + sect.size <= size
        BY <1>3, <2>1, <2>2 DEF Addresses
    <2>6. /\ RangeIf(Stored(sect), sect.offset, sect.size) # NoRange <=> Stored(sect)
          /\ RangeIf(Stored(sect), sect.offset, sect.size) # NoRange
                => EndOf(RangeIf(Stored(sect), sect.offset, sect.size)) <= size
        BY <1>3, <2>1, <2>4, <2>5, InsideIf
    <2>7. mapped => RangeIf(mapped, sect.addr, sect.size) # NoRange
        BY <2>1, RangesAre DEF RangeIf
    <2>8. RangeIf(mapped /\ Stored(sect), sect.addr, sect.size) # NoRange => mapped /\ Stored(sect)
        BY DEF RangeIf
    <2> QED BY <2>3, <2>6, <2>7, <2>8
<1>7. ASSUME NEW symbol \in MachOSymbols(slice), symbol.section # None
      PROVE  Placed(MachOImage(f, arch), symbol)
    <2>1. PICK k \in DOMAIN slice.symtab :
              /\ slice.symtab[k].stab = None /\ slice.symtab[k].type \in {"N_SECT", "N_ABS"}
              /\ symbol = MachOSymbol(slice, k)
        BY DEF MachOSymbols
    <2> DEFINE nlist == slice.symtab[k]
    <2>2. symbol.address = nlist.value /\ symbol.thumb = FALSE /\ symbol.section = NListSection(slice, nlist)
        BY <2>1 DEF MachOSymbol
    <2> DEFINE vm == MachOSection(slice, nlist.sect).extent["vm"]
    <2>3. /\ symbol.section = nlist.sect /\ nlist.type # "N_ABS"
          /\ nlist.sect \in DOMAIN slice.sections /\ vm # NoRange => Within(vm, nlist.value)
        BY <1>7, <2>2 DEF NListSection
    <2>4. nlist.sect \in DOMAIN slice.sections
        BY <1>4, <2>1, <2>3 DEF MachOWhole
    <2>5. MachOImage(f, arch).sections[nlist.sect].extent["vm"] = vm
          /\ nlist.sect \in DOMAIN MachOImage(f, arch).sections
        BY <1>2, <2>4
    <2> HIDE DEF nlist, vm
    <2> QED BY <2>2, <2>3, <2>4, <2>5 DEF Placed
<1> QED BY <1>2, <1>5, <1>6, <1>7 DEF SegmentsInside, SectionsInside, SymbolsPlaced, size

\* A section's bytes are its slice's.
LEMMA MachOReads ==
    ASSUME NEW f, NEW arch, NEW slice, slice = SliceOf(f, arch), SliceNumbers(slice), f.length \in Addresses,
           MachOWhole(f, slice), NEW k \in DOMAIN slice.sections
    PROVE  ReadWhole(MachOSection(slice, k).extent["file"], MachOSectionData(f, arch, k),
                     f.linked.start[slice.arch], f.linked.contents[slice.arch][k])
<1> DEFINE sect == slice.sections[k]
           range == AddrRange(sect.offset, sect.size)
<1>1. MachOSection(slice, k).extent["file"] = RangeIf(Stored(sect), sect.offset, sect.size)
    BY DEF MachOSection, Extent
<1> SUFFICES ASSUME Stored(sect), MachOSection(slice, k).extent["file"] = range
             PROVE  ReadWhole(range, MachOSectionData(f, arch, k), f.linked.start[slice.arch],
                              f.linked.contents[slice.arch][k])
    BY <1>1 DEF ReadWhole, RangeIf
<1>2. /\ sect.offset \in Addresses /\ sect.size \in Addresses
      /\ slice.offset \in Addresses /\ slice.length \in Addresses
    BY DEF SliceNumbers
<1>3. /\ sect.offset + sect.size <= slice.length /\ slice.offset + slice.length <= f.length
      /\ f.linked.contents[slice.arch][k] = sect.size /\ f.linked.start[slice.arch] = slice.offset
    BY DEF MachOWhole
<1>4. range # NoRange /\ range.start = sect.offset /\ range.size = sect.size
    <2> HIDE DEF sect
    <2> QED BY <1>2, RangesAre
<1>5. ~(slice.offset + sect.offset + sect.size > Lesser(f.length, MaxAddress))
    <2> HIDE DEF sect
    <2> QED BY <1>2, <1>3, WidthAssumption DEF Addresses, Lesser
<1> HIDE DEF sect, range
<1>6. MachOSectionData(f, arch, k) = Bytes(slice.offset + sect.offset, sect.size)
    BY <1>4, <1>5 DEF MachOSectionData
<1> QED BY <1>3, <1>4, <1>6 DEF ReadWhole, Bytes

\* What was read last is what the open file's section holds.
ReadInv ==
    read # None => /\ Opened /\ read.section \in DOMAIN image.sections
                   /\ read.bytes = SectionData(read.section)

LEMMA ReadInvKept == ReadInv /\ [Next]_vars => ReadInv'
<1> SUFFICES ASSUME ReadInv, [Next]_vars PROVE ReadInv'
    OBVIOUS
<1>1. file' = file /\ wanted' = wanted
    BY DEF Next, OpenElf, OpenPe, OpenMachO, OpenImage, Unrecognised, ReadSection, Refusal, vars
<1>2. \A index : SectionData(index)' = SectionData(index)
    <2>1. (\A format : Probe(format)' = Probe(format)) /\ Arch' = Arch
        BY <1>1 DEF Probe, ElfProbe, PeProbe, MachOProbe, Arch
    <2> QED BY <1>1, <2>1 DEF SectionData
<1>3. CASE image' = image /\ read' = read
    BY <1>2, <1>3 DEF ReadInv, Opened
<1>4. CASE image = None /\ read' = read
    BY <1>4 DEF ReadInv, Opened
<1>5. ASSUME NEW index \in DOMAIN image.sections, ReadSection(index) PROVE ReadInv'
    BY <1>2, <1>5 DEF ReadInv, ReadSection, Opened
<1> QED BY <1>3, <1>4, <1>5
        DEF Next, OpenElf, OpenPe, OpenMachO, OpenImage, Unrecognised, Refusal, vars

LEMMA ConformsAsWhole == ImageInv /\ ReadInv => Conforms
<1> SUFFICES ASSUME ImageInv, ReadInv, Linked PROVE Conforms
    BY DEF Conforms
<1>1. file \in Files /\ file.parses /\ file.linked # None /\ image.status = "ok"
    BY DEF ImageInv, Linked, Opened
<1> DEFINE start == file.linked.start[image.arch]
           contents == file.linked.contents[image.arch]
<1> SUFFICES /\ SegmentsInside(image) /\ SectionsInside(image) /\ SymbolsPlaced(image)
             /\ read # None => ReadWhole(image.sections[read.section].extent["file"], read.bytes,
                                         start, contents[read.section])
    BY DEF Conforms, SegmentsInside, SectionsInside, SymbolsPlaced, Placed, Inside, ReadWhole
<1>2. read # None => read.section \in DOMAIN image.sections /\ read.bytes = SectionData(read.section)
    BY DEF ReadInv
<1>3. CASE Probe("elf") /\ image = ElfImage(file)
    <2>1. ElfNumbers(file) /\ ElfWhole(file)
        BY <1>1, <1>3, NumbersFit, LinkerAssumption DEF Probe
    <2>2. image.sections = [k \in DOMAIN file.sections |-> ElfSection(file, k)] /\ image.arch = ElfArch(file)
        BY <1>1, <1>3 DEF ElfImage
    <2>3. \A k : SectionData(k) = ElfSectionData(file, k)
        BY <1>3 DEF SectionData
    <2>4. \A k \in DOMAIN file.sections :
              ReadWhole(ElfSection(file, k).extent["file"], ElfSectionData(file, k),
                        file.linked.start[ElfArch(file)], file.linked.contents[ElfArch(file)][k])
        BY <2>1, ElfReads
    <2>5. read # None => ReadWhole(image.sections[read.section].extent["file"], read.bytes,
                                   start, contents[read.section])
        BY <1>2, <2>2, <2>3, <2>4
    <2> QED BY <1>1, <1>3, <2>1, <2>5, ElfInside, ElfPlaced
<1>4. CASE Probe("pe") /\ image = PeImage(file)
    <2>1. PeNumbers(file) /\ PeWhole(file)
        BY <1>1, <1>4, NumbersFit, LinkerAssumption DEF Probe
    <2>2. image.sections = [k \in DOMAIN file.sections |-> PeSection(file, k)] /\ image.arch = file.machine
        BY <1>1, <1>4 DEF PeImage, Malformed
    <2>3. \A k : SectionData(k) = PeSectionData(file, k)
        BY <1>1, <1>4, NumbersFit DEF SectionData
    <2>4. \A k \in DOMAIN file.sections :
              ReadWhole(PeSection(file, k).extent["file"], PeSectionData(file, k),
                        file.linked.start[file.machine], file.linked.contents[file.machine][k])
        BY <2>1, PeReads
    <2>5. read # None => ReadWhole(image.sections[read.section].extent["file"], read.bytes,
                                   start, contents[read.section])
        BY <1>2, <2>2, <2>3, <2>4
    <2> QED BY <1>1, <1>4, <2>1, <2>5, PeConforms
<1>5. CASE Probe("macho") /\ image = MachOImage(file, Arch)
    <2> DEFINE slice == SliceOf(file, Arch)
    <2>1. MachONumbers(file)
        BY <1>1, <1>5, NumbersFit
    <2>2. slice # None /\ image.sections = [k \in DOMAIN slice.sections |-> MachOSection(slice, k)]
          /\ image.arch = slice.arch
        BY <1>1, <1>5 DEF MachOImage, MachOSections, Malformed
    <2>3. SliceNumbers(slice) /\ file.length \in Addresses
        BY <2>1, <2>2, SliceHasNumbers
    <2>4. MachOWhole(file, slice)
        <3>1. PICK s \in DOMAIN file.slices : slice = file.slices[s]
            BY <2>1, <2>2, SliceIsOne
        <3>2. MachOProbe(file)
            BY <1>5 DEF Probe
        <3> HIDE DEF slice
        <3> QED BY <1>1, <3>1, <3>2, LinkerAssumption
    <2>5. \A k : SectionData(k) = MachOSectionData(file, Arch, k)
        BY <1>1, <1>5, NumbersFit DEF SectionData
    <2>6. \A k \in DOMAIN slice.sections :
              ReadWhole(MachOSection(slice, k).extent["file"], MachOSectionData(file, Arch, k),
                        file.linked.start[slice.arch], file.linked.contents[slice.arch][k])
        BY <2>3, <2>4, MachOReads
    <2>7. SegmentsInside(image) /\ SectionsInside(image) /\ SymbolsPlaced(image)
        BY <1>1, <1>5, <2>1, <2>2, <2>4, MachOConforms
    <2> HIDE DEF slice
    <2>8. read # None => ReadWhole(image.sections[read.section].extent["file"], read.bytes,
                                   start, contents[read.section])
        BY <1>2, <2>2, <2>5, <2>6
    <2> QED BY <2>7, <2>8
<1> QED BY <1>3, <1>4, <1>5 DEF ImageInv, Linked

\* Every image of a file that a linker wrote whole keeps the rules that conformance.rs
\* states for containers, of which the lenses and the debug readers make use: ranges are
\* inside of the file, or of the slice that is read; what is stored for loading has
\* addresses and a place in the file; symbols are in sections, at addresses of theirs;
\* and the bytes of a section are all of its own.
THEOREM ContainersConform == Spec => []Conforms
<1>1. Spec => []ImageInv
    BY ImageInvStarts, ImageInvKept, PTL DEF Spec
<1>2. Init => ReadInv
    BY DEF Init, ReadInv
<1>3. Spec => []ReadInv
    BY <1>2, ReadInvKept, PTL DEF Spec
<1> QED BY <1>1, <1>3, ConformsAsWhole, PTL

-----------------------------------------------------------------------------
(* The symbols of a PDB.                                                   *)
Procedures == Records("procedure")

Record(r) == pdb.modules[r[1]][r[2]]

\* The procedure records that have been read.
Read == {r \in Procedures : stage = "modules" => r[1] < module \/ (r[1] = module /\ r[2] < at)}

\* The publics that have been read, if they are in the image.
Published ==
    {k \in Publics : /\ Address(pdb.globals[k].place) # None
                     /\ stage # "modules" /\ (stage = "globals" => k < at)}

NotAfter(r, s) == r[1] < s[1] \/ (r[1] = s[1] /\ r[2] <= s[2])

\* The symbol of a public, and of a place that has none.
GlobalSymbol(k) ==
    Symbol(pdb.globals[k].name, pdb.globals[k].place, Length(pdb.globals[k].place),
           pdb.globals[k].function, TRUE, 0, k)

StaticSymbol(place) ==
    Symbol(Procedure(place).name, place, Procedure(place).length, TRUE,
           Procedure(place).global, procedures[place][1], procedures[place][2])

Statics == {p \in DOMAIN procedures \ covered : Address(p) # None}

-----------------------------------------------------------------------------
TypeInv ==
    /\ pdb \in Pdbs
    /\ stage \in {"modules", "globals", "symbols", "failed"}
    /\ module \in Nat \ {0} /\ at \in Nat \ {0}

\* Each place keeps the first of its records that was read.
FirstInv ==
    /\ DOMAIN procedures = {Record(r).place : r \in Read}
    /\ \A place \in DOMAIN procedures :
          /\ procedures[place] \in Read /\ Record(procedures[place]).place = place
          /\ \A r \in Read : Record(r).place = place => NotAfter(procedures[place], r)

AnswerInv ==
    /\ covered = {pdb.globals[k].place : k \in Published}
    /\ symbols = {GlobalSymbol(k) : k \in Published}
                 \cup {StaticSymbol(p) : p \in {q \in Statics : stage = "symbols"}}

SymbolInv == TypeInv /\ (stage # "failed" => FirstInv /\ AnswerInv)

-----------------------------------------------------------------------------
LEMMA PdbFacts ==
    ASSUME pdb \in Pdbs
    PROVE  /\ Len(pdb.modules) \in Nat /\ DOMAIN pdb.modules = 1..Len(pdb.modules)
           /\ \A m \in DOMAIN pdb.modules :
                 pdb.modules[m] # None =>
                   /\ Len(pdb.modules[m]) \in Nat /\ DOMAIN pdb.modules[m] = 1..Len(pdb.modules[m])
           /\ Len(pdb.globals) \in Nat /\ DOMAIN pdb.globals = 1..Len(pdb.globals)
  BY PdbAssumption DEF IsStream

LEMMA RecordFacts ==
    ASSUME pdb \in Pdbs
    PROVE  /\ \A r \in Procedures :
                 /\ r = <<r[1], r[2]>> /\ r[1] \in DOMAIN pdb.modules
                 /\ pdb.modules[r[1]] # None /\ r[2] \in DOMAIN pdb.modules[r[1]]
                 /\ Record(r).is = "procedure"
                 /\ r[1] \in Nat /\ r[2] \in Nat
           /\ \A m \in DOMAIN pdb.modules :
                 pdb.modules[m] # None =>
                    \A k \in DOMAIN pdb.modules[m] :
                       pdb.modules[m][k].is = "procedure" => <<m, k>> \in Procedures
  <1>1. ASSUME NEW r \in Procedures
        PROVE  /\ r = <<r[1], r[2]>> /\ r[1] \in DOMAIN pdb.modules
               /\ pdb.modules[r[1]] # None /\ r[2] \in DOMAIN pdb.modules[r[1]]
               /\ Record(r).is = "procedure"
    <2>1. PICK m \in DOMAIN pdb.modules : pdb.modules[m] # None /\ r \in {m} \X DOMAIN pdb.modules[m]
      BY DEF Procedures, Records
    <2>2. r[1] = m /\ r = <<r[1], r[2]>> /\ r[2] \in DOMAIN pdb.modules[m]
      BY <2>1
    <2>3. QED
      BY <2>1, <2>2 DEF Procedures, Records, Record
  <1>2. \A r \in Procedures : r[1] \in Nat /\ r[2] \in Nat
    BY <1>1, PdbFacts
  <1>3. ASSUME NEW m \in DOMAIN pdb.modules, pdb.modules[m] # None,
               NEW k \in DOMAIN pdb.modules[m], pdb.modules[m][k].is = "procedure"
        PROVE  <<m, k>> \in Procedures
    <2>1. <<m, k>> \in {m} \X DOMAIN pdb.modules[m] /\ <<m, k>>[1] = m /\ <<m, k>>[2] = k
      OBVIOUS
    <2>2. QED
      BY <1>3, <2>1 DEF Procedures, Records
  <1>4. QED
    BY <1>1, <1>2, <1>3

\* What depends on the file only.
LEMMA FileFixed ==
    ASSUME pdb' = pdb
    PROVE  /\ Procedures' = Procedures /\ Publics' = Publics
           /\ \A r : Record(r)' = Record(r)
           /\ \A p : Address(p)' = Address(p)
  BY DEF Procedures, Records, Publics, Record, Address

\* What depends on the procedures read, too.
LEMMA SymbolsFixed ==
    ASSUME pdb' = pdb, procedures' = procedures
    PROVE  /\ \A k : GlobalSymbol(k)' = GlobalSymbol(k)
           /\ \A p : StaticSymbol(p)' = StaticSymbol(p)
  <1>1. \A p : Address(p)' = Address(p)
    BY FileFixed
  <1>2. \A p : Procedure(p)' = Procedure(p) /\ Length(p)' = Length(p)
    BY DEF Procedure, Length
  <1>3. QED
    BY <1>1, <1>2 DEF GlobalSymbol, StaticSymbol, Symbol

LEMMA FirstStays ==
    ASSUME FirstInv, pdb' = pdb, procedures' = procedures, Read' = Read
    PROVE  FirstInv'
  BY FileFixed DEF FirstInv, NotAfter

-----------------------------------------------------------------------------
LEMMA SymbolInvStarts == ASSUME SymbolInit PROVE SymbolInv
  <1>1. TypeInv
    BY DEF SymbolInit, TypeInv
  <1>2. Read = {}
    BY <1>1, RecordFacts, PdbFacts DEF SymbolInit, Read, TypeInv
  <1>3. Published = {} /\ DOMAIN procedures = {}
    BY DEF SymbolInit, Published
  <1>4. FirstInv /\ AnswerInv
    BY <1>2, <1>3 DEF SymbolInit, FirstInv, AnswerInv
  <1>5. QED
    BY <1>1, <1>4 DEF SymbolInv

LEMMA SkipModuleKeeps == ASSUME SymbolInv, SkipModule PROVE SymbolInv'
  <1>1. /\ stage = "modules" /\ stage' = stage /\ pdb' = pdb /\ module' = module + 1 /\ at' = 1
        /\ procedures' = procedures /\ covered' = covered /\ symbols' = symbols
        /\ pdb \in Pdbs /\ module \in Nat \ {0} /\ at \in Nat \ {0}
    BY DEF SkipModule, ReadingModules, SymbolInv, TypeInv
  <1>2. ASSUME NEW r \in Procedures
        PROVE  (r[1] < module' \/ (r[1] = module' /\ r[2] < at')) <=> (r[1] < module \/ (r[1] = module /\ r[2] < at))
    <2>1. r[1] \in Nat /\ r[2] \in Nat /\ r[2] >= 1
      BY <1>1, RecordFacts, PdbFacts
    <2>2. r[1] = module => r[2] < at
      <3>1. ASSUME r[1] = module PROVE r[2] < at
        <4>1. pdb.modules[module] # None /\ at > Len(pdb.modules[module])
          BY <1>1, <3>1, RecordFacts DEF SkipModule
        <4>2. Len(pdb.modules[module]) \in Nat /\ r[2] <= Len(pdb.modules[module])
          BY <1>1, <3>1, RecordFacts, PdbFacts
        <4>3. QED
          BY <1>1, <2>1, <4>1, <4>2
      <3>2. QED
        BY <3>1
    <2>3. QED
      BY <1>1, <2>1, <2>2
  <1>3. Read' = Read
    BY <1>1, <1>2, FileFixed DEF Read
  <1>4. FirstInv'
    BY <1>1, <1>3, FirstStays DEF SymbolInv
  <1>5. Published' = Published /\ Published = {}
    BY <1>1, FileFixed DEF Published
  <1>6. AnswerInv'
    BY <1>1, <1>5 DEF SymbolInv, AnswerInv
  <1>7. QED
    BY <1>1, <1>4, <1>6 DEF SymbolInv, TypeInv

LEMMA ReadModuleKeeps == ASSUME SymbolInv, ReadModule PROVE SymbolInv'
  <1> DEFINE new    == <<module, at>>
             record == pdb.modules[module][at]
  <1>1. /\ stage = "modules" /\ stage' = stage /\ pdb' = pdb /\ module' = module /\ at' = at + 1
        /\ covered' = covered /\ symbols' = symbols
        /\ pdb \in Pdbs /\ module \in Nat \ {0} /\ at \in Nat \ {0}
        /\ module \in DOMAIN pdb.modules /\ pdb.modules[module] # None
        /\ at <= Len(pdb.modules[module])
    BY DEF ReadModule, ReadingModules, SymbolInv, TypeInv
  <1>2. at \in DOMAIN pdb.modules[module]
    BY <1>1, PdbFacts
  <1>3. /\ new[1] = module /\ new[2] = at /\ Record(new) = record
    BY DEF Record
  <1>4. /\ \A r \in Procedures : r[1] \in Nat /\ r[2] \in Nat /\ (r = new <=> r[1] = module /\ r[2] = at)
        /\ record.is = "procedure" <=> new \in Procedures
    BY <1>1, <1>2, <1>3, RecordFacts
  <1>5. procedures' = IF record.is # "procedure" \/ record.place \in DOMAIN procedures
                      THEN procedures
                      ELSE [place \in DOMAIN procedures \cup {record.place} |->
                               IF place = record.place THEN new ELSE procedures[place]]
    BY DEF ReadModule
  <1>6. FirstInv
    BY <1>1 DEF SymbolInv
  <1> HIDE DEF new, record
  <1>7. Read' = IF record.is = "procedure" THEN Read \cup {new} ELSE Read
    <2>1. ASSUME NEW r \in Procedures
          PROVE  (r[1] < module \/ (r[1] = module /\ r[2] < at + 1))
                   <=> (r[1] < module \/ (r[1] = module /\ r[2] < at)) \/ r = new
      BY <1>1, <1>4
    <2>2. Read' = {r \in Procedures : r \in Read \/ r = new}
      BY <1>1, <2>1, FileFixed DEF Read
    <2>3. QED
      BY <1>4, <2>2 DEF Read
  <1>8. \A r \in Read : NotAfter(r, new) /\ r # new
    BY <1>1, <1>3, <1>4 DEF Read, NotAfter
  <1>9. \A r : Record(r)' = Record(r)
    BY <1>1, FileFixed
  <1>10. FirstInv'
    <2>1. CASE record.is # "procedure"
      BY <1>1, <1>5, <1>6, <1>7, <2>1, FirstStays
    <2>2. CASE record.is = "procedure" /\ record.place \in DOMAIN procedures
      <3>1. procedures' = procedures /\ Read' = Read \cup {new}
        BY <1>5, <1>7, <2>2
      <3>2. DOMAIN procedures = {Record(r).place : r \in Read \cup {new}}
        BY <1>3, <1>6, <2>2 DEF FirstInv
      <3>3. ASSUME NEW place \in DOMAIN procedures
            PROVE  /\ procedures[place] \in Read' /\ Record(procedures[place]).place = place
                   /\ \A r \in Read' : Record(r).place = place => NotAfter(procedures[place], r)
        <4>1. /\ procedures[place] \in Read /\ Record(procedures[place]).place = place
              /\ \A r \in Read : Record(r).place = place => NotAfter(procedures[place], r)
          BY <1>6 DEF FirstInv
        <4>2. QED
          BY <1>8, <3>1, <4>1
      <3>4. QED
        BY <1>9, <3>1, <3>2, <3>3 DEF FirstInv, NotAfter
    <2>3. CASE record.is = "procedure" /\ record.place \notin DOMAIN procedures
      <3>1. /\ Read' = Read \cup {new} /\ DOMAIN procedures' = DOMAIN procedures \cup {record.place}
            /\ procedures'[record.place] = new
            /\ \A place \in DOMAIN procedures : procedures'[place] = procedures[place]
        BY <1>5, <1>7, <2>3
      <3>2. DOMAIN procedures' = {Record(r).place : r \in Read'}
        BY <1>3, <1>6, <3>1 DEF FirstInv
      <3>3. ASSUME NEW place \in DOMAIN procedures'
            PROVE  /\ procedures'[place] \in Read' /\ Record(procedures'[place]).place = place
                   /\ \A r \in Read' : Record(r).place = place => NotAfter(procedures'[place], r)
        <4>1. CASE place = record.place
          <5>1. \A r \in Read : Record(r).place # place
            BY <1>6, <2>3, <4>1 DEF FirstInv
          <5>2. NotAfter(new, new)
            BY <1>1, <1>3 DEF NotAfter
          <5>3. QED
            BY <1>3, <3>1, <4>1, <5>1, <5>2
        <4>2. CASE place \in DOMAIN procedures
          <5>1. /\ procedures[place] \in Read /\ Record(procedures[place]).place = place
                /\ \A r \in Read : Record(r).place = place => NotAfter(procedures[place], r)
            BY <1>6, <4>2 DEF FirstInv
          <5>2. QED
            BY <1>8, <3>1, <4>2, <5>1
        <4>3. QED
          BY <3>1, <4>1, <4>2
      <3>4. QED
        BY <1>9, <3>2, <3>3 DEF FirstInv, NotAfter
    <2>4. QED
      BY <2>1, <2>2, <2>3
  <1>11. Published' = {} /\ Published = {}
    BY <1>1 DEF Published
  <1>12. AnswerInv'
    BY <1>1, <1>11 DEF SymbolInv, AnswerInv
  <1>13. QED
    BY <1>1, <1>10, <1>12 DEF SymbolInv, TypeInv

LEMMA ModulesReadKeeps == ASSUME SymbolInv, ModulesRead PROVE SymbolInv'
  <1>1. /\ stage = "modules" /\ stage' = "globals" /\ pdb' = pdb /\ module' = module /\ at' = 1
        /\ procedures' = procedures /\ covered' = covered /\ symbols' = symbols
        /\ pdb \in Pdbs /\ module \in Nat \ {0} /\ module \notin DOMAIN pdb.modules
    BY DEF ModulesRead, SymbolInv, TypeInv
  <1>2. \A r \in Procedures : r[1] < module
    BY <1>1, RecordFacts, PdbFacts
  <1>3. Read' = Read
    BY <1>1, <1>2, FileFixed DEF Read
  <1>4. FirstInv'
    BY <1>1, <1>3, FirstStays DEF SymbolInv
  <1>5. Published = {} /\ Published' = {}
    <2>1. \A k \in Publics : k \in Nat /\ k >= 1
      BY <1>1, PdbFacts DEF Publics
    <2>2. QED
      BY <1>1, <2>1, FileFixed DEF Published
  <1>6. AnswerInv'
    BY <1>1, <1>5 DEF SymbolInv, AnswerInv
  <1>7. QED
    BY <1>1, <1>4, <1>6 DEF SymbolInv, TypeInv

LEMMA ReadGlobalKeeps == ASSUME SymbolInv, ReadGlobal PROVE SymbolInv'
  <1> DEFINE record == pdb.globals[at]
             Public     == record.is = "public" /\ Address(record.place) # None
  <1>1. /\ stage = "globals" /\ stage' = stage /\ pdb' = pdb /\ module' = module /\ at' = at + 1
        /\ procedures' = procedures /\ at \in DOMAIN pdb.globals
        /\ pdb \in Pdbs /\ module \in Nat \ {0} /\ at \in Nat \ {0}
    BY DEF ReadGlobal, SymbolInv, TypeInv
  <1>2. IF Public THEN covered' = covered \cup {record.place} /\ symbols' = symbols \cup {GlobalSymbol(at)}
        ELSE covered' = covered /\ symbols' = symbols
    BY DEF ReadGlobal, GlobalSymbol
  <1>3. Read' = Read
    BY <1>1, FileFixed DEF Read
  <1>4. FirstInv'
    BY <1>1, <1>3, FirstStays DEF SymbolInv
  <1>5. Published' = IF Public THEN Published \cup {at} ELSE Published
    <2>1. \A k \in Publics : k \in Nat /\ (k < at + 1 <=> k < at \/ k = at)
      BY <1>1, PdbFacts DEF Publics
    <2>2. Published' = {k \in Publics : Address(pdb.globals[k].place) # None /\ k < at + 1}
      BY <1>1, FileFixed DEF Published
    <2>3. Published = {k \in Publics : Address(pdb.globals[k].place) # None /\ k < at}
      BY <1>1 DEF Published
    <2>4. at \in Publics <=> record.is = "public"
      BY <1>1 DEF Publics
    <2> HIDE DEF record
    <2>5. QED
      BY <2>1, <2>2, <2>3, <2>4 DEF record
  <1>6. \A k : GlobalSymbol(k)' = GlobalSymbol(k)
    BY <1>1, SymbolsFixed
  <1>7. covered = {pdb.globals[k].place : k \in Published} /\ symbols = {GlobalSymbol(k) : k \in Published}
    BY <1>1 DEF SymbolInv, AnswerInv
  <1> HIDE DEF Public
  <1>8. covered' = {pdb.globals[k].place : k \in Published'}
    BY <1>2, <1>5, <1>7
  <1>9. symbols' = {GlobalSymbol(k) : k \in Published'}
    BY <1>2, <1>5, <1>7
  <1>10. AnswerInv'
    BY <1>1, <1>6, <1>8, <1>9 DEF AnswerInv
  <1>11. QED
    BY <1>1, <1>4, <1>10 DEF SymbolInv, TypeInv

LEMMA NameStaticsKeeps == ASSUME SymbolInv, NameStatics PROVE SymbolInv'
  <1>1. /\ stage = "globals" /\ stage' = "symbols" /\ pdb' = pdb /\ module' = module /\ at' = at
        /\ procedures' = procedures /\ covered' = covered /\ at \notin DOMAIN pdb.globals
        /\ pdb \in Pdbs /\ module \in Nat \ {0} /\ at \in Nat \ {0}
        /\ symbols' = symbols \cup {StaticSymbol(p) : p \in Statics}
    BY DEF NameStatics, SymbolInv, TypeInv, StaticSymbol, Statics
  <1>2. Read' = Read
    BY <1>1, FileFixed DEF Read
  <1>3. FirstInv'
    BY <1>1, <1>2, FirstStays DEF SymbolInv
  <1>4. Published' = Published
    <2>1. \A k \in Publics : k < at
      BY <1>1, PdbFacts DEF Publics
    <2>2. QED
      BY <1>1, <2>1, FileFixed DEF Published
  <1>5. Statics' = Statics
    BY <1>1, FileFixed DEF Statics
  <1>6. covered = {pdb.globals[k].place : k \in Published} /\ symbols = {GlobalSymbol(k) : k \in Published}
    BY <1>1 DEF SymbolInv, AnswerInv
  <1>7. AnswerInv'
    BY <1>1, <1>4, <1>5, <1>6, SymbolsFixed DEF AnswerInv
  <1>8. QED
    BY <1>1, <1>3, <1>7 DEF SymbolInv, TypeInv

LEMMA SymbolInvKept ==
    ASSUME SymbolInv, [SymbolStep \/ SymbolsDone]_symbolVars
    PROVE  SymbolInv'
  <1>1. CASE ReadingFails
    BY <1>1 DEF ReadingFails, SymbolInv, TypeInv
  <1>2. CASE UNCHANGED symbolVars
    <2>1. /\ pdb' = pdb /\ stage' = stage /\ module' = module /\ at' = at
          /\ procedures' = procedures /\ covered' = covered /\ symbols' = symbols
      BY <1>2 DEF symbolVars
    <2>2. Read' = Read /\ Published' = Published /\ Statics' = Statics
      BY <2>1, FileFixed DEF Read, Published, Statics
    <2>3. FirstInv => FirstInv'
      BY <2>1, <2>2, FirstStays
    <2>4. AnswerInv => AnswerInv'
      BY <2>1, <2>2, SymbolsFixed DEF AnswerInv
    <2>5. QED
      BY <2>1, <2>3, <2>4 DEF SymbolInv, TypeInv
  <1>3. QED
    BY <1>1, <1>2, SkipModuleKeeps, ReadModuleKeeps, ModulesReadKeeps, ReadGlobalKeeps, NameStaticsKeeps
       DEF SymbolStep, SymbolsDone

-----------------------------------------------------------------------------
LEMMA SymbolFields ==
    /\ \A k : /\ GlobalSymbol(k).place = pdb.globals[k].place /\ GlobalSymbol(k).stream = 0
              /\ GlobalSymbol(k).address = Address(pdb.globals[k].place) /\ GlobalSymbol(k).at = k
              /\ GlobalSymbol(k).size = Length(pdb.globals[k].place)
    /\ \A p : /\ StaticSymbol(p).place = p /\ StaticSymbol(p).stream = procedures[p][1]
              /\ StaticSymbol(p).address = Address(p)
              /\ StaticSymbol(p).size = Procedure(p).length
  BY DEF GlobalSymbol, StaticSymbol, Symbol

LEMMA AllNamed == ASSUME SymbolInv, stage = "symbols" PROVE EveryCodeNamed
  <1>1. /\ pdb \in Pdbs /\ FirstInv /\ AnswerInv
        /\ Read = Procedures
        /\ Published = {k \in Publics : Address(pdb.globals[k].place) # None}
    BY DEF SymbolInv, TypeInv, Read, Published
  <1>2. ProcedurePlaces = DOMAIN procedures
    BY <1>1 DEF ProcedurePlaces, FirstInv, Procedures, Record
  <1>3. \A p \in DOMAIN procedures : /\ procedures[p] \in Procedures /\ procedures[p][1] # 0
                                     /\ Procedure(p) = Record(procedures[p])
                                     /\ Procedure(p).place = p
    <2>1. \A p \in DOMAIN procedures : procedures[p] \in Procedures /\ Record(procedures[p]).place = p
      BY <1>1 DEF FirstInv
    <2>2. \A r \in Procedures : r[1] # 0
      BY <1>1, RecordFacts, PdbFacts
    <2>3. \A p : Procedure(p) = Record(procedures[p])
      BY DEF Procedure, Record
    <2>4. QED
      BY <2>1, <2>2, <2>3
  <1>4. /\ \A s \in symbols : s.stream = 0 <=> \E k \in Published : s = GlobalSymbol(k)
        /\ \A s \in symbols : s.stream # 0 <=> \E p \in Statics : s = StaticSymbol(p)
        /\ \A k \in Published : GlobalSymbol(k) \in symbols
        /\ \A p \in Statics : StaticSymbol(p) \in symbols
    <2>1. symbols = {GlobalSymbol(k) : k \in Published} \cup {StaticSymbol(p) : p \in Statics}
      BY <1>1 DEF AnswerInv
    <2>2. \A p \in Statics : StaticSymbol(p).stream # 0
      BY <1>3, SymbolFields DEF Statics
    <2>3. QED
      BY <2>1, <2>2, SymbolFields
  <1>5. {s.at : s \in {s \in symbols : s.stream = 0}}
           = {k \in Publics : Address(pdb.globals[k].place) # None}
    <2>1. ASSUME NEW k \in Published PROVE k \in {s.at : s \in {s \in symbols : s.stream = 0}}
      BY <1>4, SymbolFields
    <2>2. ASSUME NEW s \in symbols, s.stream = 0 PROVE s.at \in Published
      BY <1>4, <2>2, SymbolFields
    <2>3. QED
      BY <1>1, <2>1, <2>2
  <1>6. {s.place : s \in {s \in symbols : s.stream # 0}}
           = {p \in ProcedurePlaces : Address(p) # None} \ {pdb.globals[k].place : k \in Publics}
    <2>1. ASSUME NEW p PROVE p \in Statics <=> /\ p \in ProcedurePlaces /\ Address(p) # None
                                               /\ p \notin {pdb.globals[k].place : k \in Publics}
      <3>1. covered = {pdb.globals[k].place : k \in Published}
        BY <1>1 DEF AnswerInv
      <3>2. Address(p) # None => (p \in covered <=> p \in {pdb.globals[k].place : k \in Publics})
        BY <1>1, <3>1
      <3>3. QED
        BY <1>2, <3>2 DEF Statics
    <2>2. ASSUME NEW p \in Statics PROVE p \in {s.place : s \in {s \in symbols : s.stream # 0}}
      BY <1>4, SymbolFields
    <2>3. ASSUME NEW s \in symbols, s.stream # 0 PROVE s.place \in Statics
      BY <1>4, <2>3, SymbolFields
    <2>4. QED
      BY <2>1, <2>2, <2>3
  <1>7. \A s, t \in symbols : s.stream # 0 /\ t.stream # 0 /\ s.place = t.place => s = t
    BY <1>4, SymbolFields
  <1>8. ASSUME NEW s \in symbols
        PROVE  /\ s.address = Address(s.place) /\ s.address # None
               /\ s.size = Length(s.place)
    <2>1. CASE s.stream = 0
      BY <1>1, <1>4, <2>1, SymbolFields
    <2>2. CASE s.stream # 0
      <3>1. PICK p \in Statics : s = StaticSymbol(p)
        BY <1>4, <2>2
      <3>2. p \in DOMAIN procedures /\ Address(p) # None
        BY DEF Statics
      <3>3. QED
        BY <3>1, <3>2, SymbolFields DEF Length
    <2>3. QED
      BY <2>1, <2>2
  <1>9. ASSUME NEW s \in symbols, s.place \in ProcedurePlaces
        PROVE  \E first \in Records("procedure") :
                  /\ pdb.modules[first[1]][first[2]].place = s.place
                  /\ pdb.modules[first[1]][first[2]].length = s.size
                  /\ \A r \in Records("procedure") :
                        pdb.modules[r[1]][r[2]].place = s.place =>
                            first[1] < r[1] \/ (first[1] = r[1] /\ first[2] <= r[2])
    <2> DEFINE first == procedures[s.place]
    <2>1. /\ first \in Procedures /\ Record(first).place = s.place
          /\ \A r \in Procedures : Record(r).place = s.place => NotAfter(first, r)
      BY <1>1, <1>2, <1>9 DEF FirstInv
    <2>2. Record(first).length = s.size
      BY <1>2, <1>3, <1>8, <1>9 DEF Length
    <2> HIDE DEF first
    <2>3. QED
      BY <2>1, <2>2 DEF Procedures, Record, NotAfter
  <1>10. \A s \in symbols : s.place \notin ProcedurePlaces => s.size = 0
    BY <1>2, <1>8 DEF Length
  <1>11. QED
    BY <1>5, <1>6, <1>7, <1>8, <1>9, <1>10 DEF EveryCodeNamed

(* However the records of a PDB are spread over its streams, and however    *)
(* often the linker folded functions into one, each place of the image that *)
(* has a name is named, once if it has no public, and with the size of the  *)
(* first procedure record there (PdbReader::symbols).                       *)
THEOREM PdbNamesAllCode == SymbolSpec => []EveryCodeNamed
  <1>1. SymbolInit => SymbolInv
    BY SymbolInvStarts
  <1>2. SymbolInv /\ [SymbolStep \/ SymbolsDone]_symbolVars => SymbolInv'
    BY SymbolInvKept
  <1>3. SymbolInv => EveryCodeNamed
    BY AllNamed DEF EveryCodeNamed
  <1>4. QED
    BY <1>1, <1>2, <1>3, PTL DEF SymbolSpec

-----------------------------------------------------------------------------
(* Types in a PDB.                                                         *)
LEMMA RecordShape ==
    ASSUME pdb \in Pdbs
    PROVE  /\ Len(pdb.types) \in Nat /\ DOMAIN pdb.types = 1..Len(pdb.types)
           /\ None \notin DOMAIN pdb.types /\ pdb.addressSize \in Addresses
           /\ pdb.addressSize \in Nat
<1>1. Len(pdb.types) \in Nat /\ DOMAIN pdb.types = 1..Len(pdb.types) /\ pdb.addressSize \in Addresses
    BY RecordAssumption
<1>2. None \notin Nat
    BY RecordAssumption
<1>3. pdb.addressSize \in Nat
    BY <1>1, WidthAssumption DEF Addresses
<1> QED BY <1>1, <1>2, <1>3

\* What is found with so many steps left, from what is found with fewer.
FieldsFrom(left, within, list) ==
    IF left = 0 \/ ~Is(Data(list), {"fields"}) THEN <<>>
    ELSE IF Data(list).next \notin DOMAIN pdb.types THEN Data(list).fields
    ELSE Data(list).fields \o within[left - 1][Data(list).next]

SizeFrom(left, within, index) ==
    LET type  == Data(index)
        inner == IF left = 0 THEN None ELSE OfType(within[left - 1], type.of)
    IN IF type = None THEN None
       ELSE IF type.is = "pointer" THEN pdb.addressSize
       ELSE IF type.is \in {"primitive", "array"} THEN type.bytes
       ELSE IF type.is \in {"class", "union"}
       THEN IF Complete(type) = None THEN None ELSE Complete(type).bytes
       ELSE IF type.is \in {"enum", "modifier", "bitfield"} THEN inner ELSE None

AlignFrom(left, within, index) ==
    LET type == Data(index)
        inner(of, steps) == IF left < steps THEN None ELSE OfType(within[left - steps], of)
        fieldAlign(field) ==
            IF field.is \in {"member", "base"} THEN inner(field.type, 2)
            ELSE IF field.is \in {"virtual", "vfptr"} THEN pdb.addressSize ELSE 1
        aligns == {fieldAlign(field) : field \in Range(FieldsOf(Complete(type)))}
    IN IF type = None THEN None
       ELSE IF type.is = "pointer" THEN pdb.addressSize
       ELSE IF type.is = "primitive"
       THEN IF type.bytes = None THEN None ELSE Max({1, Min({type.bytes, 16})})
       ELSE IF type.is \in {"enum", "modifier", "array"} THEN inner(type.of, 1)
       ELSE IF type.is \notin {"class", "union"} \/ Complete(type) = None THEN None
       ELSE IF Complete(type).list = None \/ None \in aligns THEN None
       ELSE Max(aligns \cup {1})

EmptyFrom(left, within, index) ==
    LET type == Data(index)
        inner(of) == left > 0 /\ of \in DOMAIN pdb.types /\ within[left - 1][of]
    IN \/ Is(type, {"modifier"}) /\ inner(type.of)
       \/ /\ Is(type, {"class"}) /\ Complete(type) # None
          /\ \A field \in Range(FieldsOf(Complete(type))) :
                /\ field.is \notin {"member", "vfptr", "virtual"}
                /\ field.is = "base" => inner(field.type)

LEMMA FieldsWithinIs ==
    ASSUME pdb \in Pdbs
    PROVE  \A left \in 0..MaxLists : \A i \in DOMAIN pdb.types :
              FieldsWithin[left][i] = FieldsFrom(left, FieldsWithin, i)
<1> DEFINE step(left, g) == [i \in DOMAIN pdb.types |-> FieldsFrom(left, g, i)]
<1> DEFINE Solves(m, g) == g = [left \in 0..m |-> step(left, g)]
<1>1. MaxLists \in Nat
    BY RecordAssumption
<1>2. ASSUME NEW left \in Nat, NEW g, NEW h, \A k \in 0..(left - 1) : g[k] = h[k]
      PROVE  step(left, g) = step(left, h)
    <2>1. left # 0 => g[left - 1] = h[left - 1]
        BY <1>2
    <2>2. \A i : FieldsFrom(left, g, i) = FieldsFrom(left, h, i)
        BY <2>1 DEF FieldsFrom
    <2> QED BY <2>2
<1>3. ASSUME NEW m \in Nat, NEW g, Solves(m, g) PROVE \E h : Solves(m + 1, h)
    <2> DEFINE h == [left \in 0..(m + 1) |-> IF left = m + 1 THEN step(m + 1, g) ELSE g[left]]
    <2>1. \A left \in 0..m : h[left] = g[left]
        <3> HIDE DEF step, Solves
        <3> QED OBVIOUS
    <2>2. h[m + 1] = step(m + 1, g)
        <3> HIDE DEF step, Solves
        <3> QED OBVIOUS
    <2>3. \A left \in 0..m : g[left] = step(left, g)
        <3> HIDE DEF step
        <3> QED BY <1>3
    <2>4. ASSUME NEW left \in 0..(m + 1) PROVE h[left] = step(left, h)
        <3>1. left \in Nat /\ \A k \in 0..(left - 1) : g[k] = h[k]
            <4>1. left \in Nat /\ \A k \in 0..(left - 1) : k \in 0..m
                OBVIOUS
            <4> HIDE DEF h, step, Solves
            <4> QED BY <2>1, <4>1
        <3>2. step(left, g) = step(left, h)
            <4> HIDE DEF h, step, Solves
            <4> QED BY <1>2, <3>1
        <3> HIDE DEF h, step, Solves
        <3>3. left = m + 1 \/ left \in 0..m
            OBVIOUS
        <3> QED BY <2>1, <2>2, <2>3, <3>2, <3>3
    <2>5. Solves(m + 1, h)
        <3>1. h = [left \in 0..(m + 1) |-> h[left]]
            <4> HIDE DEF step, Solves
            <4> QED OBVIOUS
        <3> HIDE DEF h, step
        <3> QED BY <2>4, <3>1
    <2> HIDE DEF h, Solves
    <2> QED BY <2>5
<1>4. \E g : Solves(MaxLists, g)
    <2> DEFINE P == {m \in Nat : \E g : Solves(m, g)}
    <2>1. 0 \in P
        <3> DEFINE g == [left \in 0..0 |-> step(0, <<>>)]
        <3>1. step(0, <<>>) = step(0, g)
            <4> HIDE DEF g, step, Solves
            <4> QED BY <1>2
        <3>2. Solves(0, g)
            <4>1. g = [left \in 0..0 |-> step(left, g)]
                <5>1. \A left \in 0..0 : left = 0
                    OBVIOUS
                <5>2. g = [left \in 0..0 |-> g[left]] /\ g[0] = step(0, <<>>)
                    <6> HIDE DEF step, Solves
                    <6> QED OBVIOUS
                <5> HIDE DEF g, step, Solves
                <5> QED BY <3>1, <5>1, <5>2
            <4> QED BY <4>1
        <3> HIDE DEF g, Solves
        <3> QED BY <3>2
    <2>2. \A m \in 1..MaxLists : m - 1 \in P => m \in P
        <3> SUFFICES ASSUME NEW m \in 1..MaxLists, NEW g, m - 1 \in Nat, Solves(m - 1, g) PROVE \E h : Solves(m, h)
            <4> HIDE DEF Solves
            <4> QED BY <1>1
        <3>1. \E h : Solves((m - 1) + 1, h)
            <4> HIDE DEF Solves
            <4> QED BY <1>3
        <3>2. (m - 1) + 1 = m
            OBVIOUS
        <3> HIDE DEF Solves
        <3> QED BY <3>1, <3>2
    <2>3. MaxLists \in 0..MaxLists
        BY <1>1
    <2>4. MaxLists \in P
        <3> HIDE DEF P
        <3> QED BY <1>1, <2>1, <2>2, <2>3, CountingUp
    <2> HIDE DEF Solves
    <2> QED BY <2>4
<1>5. Solves(MaxLists, FieldsWithin)
    <2>1. FieldsWithin = CHOOSE g : Solves(MaxLists, g)
        BY Zenon DEF FieldsWithin, FieldsFrom
    <2> HIDE DEF Solves
    <2> QED BY <1>4, <2>1
<1>6. \A left \in 0..MaxLists : FieldsWithin[left] = step(left, FieldsWithin)
    <2> HIDE DEF step
    <2> QED BY <1>5
<1> HIDE DEF Solves
<1> QED BY <1>6

LEMMA SizeWithinIs ==
    ASSUME pdb \in Pdbs
    PROVE  \A left \in 0..MaxDepth : \A i \in DOMAIN pdb.types :
              SizeWithin[left][i] = SizeFrom(left, SizeWithin, i)
<1> DEFINE step(left, g) == [i \in DOMAIN pdb.types |-> SizeFrom(left, g, i)]
<1> DEFINE Solves(m, g) == g = [left \in 0..m |-> step(left, g)]
<1>1. MaxDepth \in Nat
    BY RecordAssumption
<1>2. ASSUME NEW left \in Nat, NEW g, NEW h, \A k \in 0..(left - 1) : g[k] = h[k]
      PROVE  step(left, g) = step(left, h)
    <2>1. left # 0 => g[left - 1] = h[left - 1]
        BY <1>2
    <2>2. \A i : SizeFrom(left, g, i) = SizeFrom(left, h, i)
        BY <2>1 DEF SizeFrom
    <2> QED BY <2>2
<1>3. ASSUME NEW m \in Nat, NEW g, Solves(m, g) PROVE \E h : Solves(m + 1, h)
    <2> DEFINE h == [left \in 0..(m + 1) |-> IF left = m + 1 THEN step(m + 1, g) ELSE g[left]]
    <2>1. \A left \in 0..m : h[left] = g[left]
        <3> HIDE DEF step, Solves
        <3> QED OBVIOUS
    <2>2. h[m + 1] = step(m + 1, g)
        <3> HIDE DEF step, Solves
        <3> QED OBVIOUS
    <2>3. \A left \in 0..m : g[left] = step(left, g)
        <3> HIDE DEF step
        <3> QED BY <1>3
    <2>4. ASSUME NEW left \in 0..(m + 1) PROVE h[left] = step(left, h)
        <3>1. left \in Nat /\ \A k \in 0..(left - 1) : g[k] = h[k]
            <4>1. left \in Nat /\ \A k \in 0..(left - 1) : k \in 0..m
                OBVIOUS
            <4> HIDE DEF h, step, Solves
            <4> QED BY <2>1, <4>1
        <3>2. step(left, g) = step(left, h)
            <4> HIDE DEF h, step, Solves
            <4> QED BY <1>2, <3>1
        <3> HIDE DEF h, step, Solves
        <3>3. left = m + 1 \/ left \in 0..m
            OBVIOUS
        <3> QED BY <2>1, <2>2, <2>3, <3>2, <3>3
    <2>5. Solves(m + 1, h)
        <3>1. h = [left \in 0..(m + 1) |-> h[left]]
            <4> HIDE DEF step, Solves
            <4> QED OBVIOUS
        <3> HIDE DEF h, step
        <3> QED BY <2>4, <3>1
    <2> HIDE DEF h, Solves
    <2> QED BY <2>5
<1>4. \E g : Solves(MaxDepth, g)
    <2> DEFINE P == {m \in Nat : \E g : Solves(m, g)}
    <2>1. 0 \in P
        <3> DEFINE g == [left \in 0..0 |-> step(0, <<>>)]
        <3>1. step(0, <<>>) = step(0, g)
            <4> HIDE DEF g, step, Solves
            <4> QED BY <1>2
        <3>2. Solves(0, g)
            <4>1. g = [left \in 0..0 |-> step(left, g)]
                <5>1. \A left \in 0..0 : left = 0
                    OBVIOUS
                <5>2. g = [left \in 0..0 |-> g[left]] /\ g[0] = step(0, <<>>)
                    <6> HIDE DEF step, Solves
                    <6> QED OBVIOUS
                <5> HIDE DEF g, step, Solves
                <5> QED BY <3>1, <5>1, <5>2
            <4> QED BY <4>1
        <3> HIDE DEF g, Solves
        <3> QED BY <3>2
    <2>2. \A m \in 1..MaxDepth : m - 1 \in P => m \in P
        <3> SUFFICES ASSUME NEW m \in 1..MaxDepth, NEW g, m - 1 \in Nat, Solves(m - 1, g) PROVE \E h : Solves(m, h)
            <4> HIDE DEF Solves
            <4> QED BY <1>1
        <3>1. \E h : Solves((m - 1) + 1, h)
            <4> HIDE DEF Solves
            <4> QED BY <1>3
        <3>2. (m - 1) + 1 = m
            OBVIOUS
        <3> HIDE DEF Solves
        <3> QED BY <3>1, <3>2
    <2>3. MaxDepth \in 0..MaxDepth
        BY <1>1
    <2>4. MaxDepth \in P
        <3> HIDE DEF P
        <3> QED BY <1>1, <2>1, <2>2, <2>3, CountingUp
    <2> HIDE DEF Solves
    <2> QED BY <2>4
<1>5. Solves(MaxDepth, SizeWithin)
    <2>1. SizeWithin = CHOOSE g : Solves(MaxDepth, g)
        BY Zenon DEF SizeWithin, SizeFrom
    <2> HIDE DEF Solves
    <2> QED BY <1>4, <2>1
<1>6. \A left \in 0..MaxDepth : SizeWithin[left] = step(left, SizeWithin)
    <2> HIDE DEF step
    <2> QED BY <1>5
<1> HIDE DEF Solves
<1> QED BY <1>6

LEMMA AlignWithinIs ==
    ASSUME pdb \in Pdbs
    PROVE  \A left \in 0..MaxDepth : \A i \in DOMAIN pdb.types :
              AlignWithin[left][i] = AlignFrom(left, AlignWithin, i)
<1> DEFINE step(left, g) == [i \in DOMAIN pdb.types |-> AlignFrom(left, g, i)]
<1> DEFINE Solves(m, g) == g = [left \in 0..m |-> step(left, g)]
<1>1. MaxDepth \in Nat
    BY RecordAssumption
<1>2. ASSUME NEW left \in Nat, NEW g, NEW h, \A k \in 0..(left - 1) : g[k] = h[k]
      PROVE  step(left, g) = step(left, h)
    <2>1. \A steps \in {1, 2} : ~(left < steps) => g[left - steps] = h[left - steps]
        BY <1>2
    <2> DEFINE inner(f, of, steps) == IF left < steps THEN None ELSE OfType(f[left - steps], of)
    <2>2. \A of : inner(g, of, 1) = inner(h, of, 1) /\ inner(g, of, 2) = inner(h, of, 2)
        BY <2>1
    <2> DEFINE fieldAlign(f, field) ==
            IF field.is \in {"member", "base"} THEN inner(f, field.type, 2)
            ELSE IF field.is \in {"virtual", "vfptr"} THEN pdb.addressSize ELSE 1
    <2> DEFINE aligns(f, i) == {fieldAlign(f, field) : field \in Range(FieldsOf(Complete(Data(i))))}
    <2>3. \A i : aligns(g, i) = aligns(h, i)
        <3>1. \A field : fieldAlign(g, field) = fieldAlign(h, field)
            <4> HIDE DEF inner
            <4> QED BY <2>2
        <3> HIDE DEF fieldAlign
        <3> QED BY <3>1
    <2> DEFINE from(f, i) ==
            LET type == Data(i)
            IN IF type = None THEN None
               ELSE IF type.is = "pointer" THEN pdb.addressSize
               ELSE IF type.is = "primitive"
               THEN IF type.bytes = None THEN None ELSE Max({1, Min({type.bytes, 16})})
               ELSE IF type.is \in {"enum", "modifier", "array"} THEN inner(f, type.of, 1)
               ELSE IF type.is \notin {"class", "union"} \/ Complete(type) = None THEN None
               ELSE IF Complete(type).list = None \/ None \in aligns(f, i) THEN None
               ELSE Max(aligns(f, i) \cup {1})
    <2>4. \A f, i : AlignFrom(left, f, i) = from(f, i)
        BY Zenon DEF AlignFrom
    <2>5. \A i : from(g, i) = from(h, i)
        <3> HIDE DEF inner, aligns
        <3> QED BY <2>2, <2>3
    <2> HIDE DEF from
    <2> QED BY <2>4, <2>5
<1>3. ASSUME NEW m \in Nat, NEW g, Solves(m, g) PROVE \E h : Solves(m + 1, h)
    <2> DEFINE h == [left \in 0..(m + 1) |-> IF left = m + 1 THEN step(m + 1, g) ELSE g[left]]
    <2>1. \A left \in 0..m : h[left] = g[left]
        <3> HIDE DEF step, Solves
        <3> QED OBVIOUS
    <2>2. h[m + 1] = step(m + 1, g)
        <3> HIDE DEF step, Solves
        <3> QED OBVIOUS
    <2>3. \A left \in 0..m : g[left] = step(left, g)
        <3> HIDE DEF step
        <3> QED BY <1>3
    <2>4. ASSUME NEW left \in 0..(m + 1) PROVE h[left] = step(left, h)
        <3>1. left \in Nat /\ \A k \in 0..(left - 1) : g[k] = h[k]
            <4>1. left \in Nat /\ \A k \in 0..(left - 1) : k \in 0..m
                OBVIOUS
            <4> HIDE DEF h, step, Solves
            <4> QED BY <2>1, <4>1
        <3>2. step(left, g) = step(left, h)
            <4> HIDE DEF h, step, Solves
            <4> QED BY <1>2, <3>1
        <3> HIDE DEF h, step, Solves
        <3>3. left = m + 1 \/ left \in 0..m
            OBVIOUS
        <3> QED BY <2>1, <2>2, <2>3, <3>2, <3>3
    <2>5. Solves(m + 1, h)
        <3>1. h = [left \in 0..(m + 1) |-> h[left]]
            <4> HIDE DEF step, Solves
            <4> QED OBVIOUS
        <3> HIDE DEF h, step
        <3> QED BY <2>4, <3>1
    <2> HIDE DEF h, Solves
    <2> QED BY <2>5
<1>4. \E g : Solves(MaxDepth, g)
    <2> DEFINE P == {m \in Nat : \E g : Solves(m, g)}
    <2>1. 0 \in P
        <3> DEFINE g == [left \in 0..0 |-> step(0, <<>>)]
        <3>1. step(0, <<>>) = step(0, g)
            <4> HIDE DEF g, step, Solves
            <4> QED BY <1>2
        <3>2. Solves(0, g)
            <4>1. g = [left \in 0..0 |-> step(left, g)]
                <5>1. \A left \in 0..0 : left = 0
                    OBVIOUS
                <5>2. g = [left \in 0..0 |-> g[left]] /\ g[0] = step(0, <<>>)
                    <6> HIDE DEF step, Solves
                    <6> QED OBVIOUS
                <5> HIDE DEF g, step, Solves
                <5> QED BY <3>1, <5>1, <5>2
            <4> QED BY <4>1
        <3> HIDE DEF g, Solves
        <3> QED BY <3>2
    <2>2. \A m \in 1..MaxDepth : m - 1 \in P => m \in P
        <3> SUFFICES ASSUME NEW m \in 1..MaxDepth, NEW g, m - 1 \in Nat, Solves(m - 1, g) PROVE \E h : Solves(m, h)
            <4> HIDE DEF Solves
            <4> QED BY <1>1
        <3>1. \E h : Solves((m - 1) + 1, h)
            <4> HIDE DEF Solves
            <4> QED BY <1>3
        <3>2. (m - 1) + 1 = m
            OBVIOUS
        <3> HIDE DEF Solves
        <3> QED BY <3>1, <3>2
    <2>3. MaxDepth \in 0..MaxDepth
        BY <1>1
    <2>4. MaxDepth \in P
        <3> HIDE DEF P
        <3> QED BY <1>1, <2>1, <2>2, <2>3, CountingUp
    <2> HIDE DEF Solves
    <2> QED BY <2>4
<1>5. Solves(MaxDepth, AlignWithin)
    <2>1. AlignWithin = CHOOSE g : Solves(MaxDepth, g)
        BY Zenon DEF AlignWithin, AlignFrom
    <2> HIDE DEF Solves
    <2> QED BY <1>4, <2>1
<1>6. \A left \in 0..MaxDepth : AlignWithin[left] = step(left, AlignWithin)
    <2> HIDE DEF step
    <2> QED BY <1>5
<1> HIDE DEF Solves
<1> QED BY <1>6

LEMMA EmptyWithinIs ==
    ASSUME pdb \in Pdbs
    PROVE  \A left \in 0..MaxDepth : \A i \in DOMAIN pdb.types :
              EmptyWithin[left][i] = EmptyFrom(left, EmptyWithin, i)
<1> DEFINE step(left, g) == [i \in DOMAIN pdb.types |-> EmptyFrom(left, g, i)]
<1> DEFINE Solves(m, g) == g = [left \in 0..m |-> step(left, g)]
<1>1. MaxDepth \in Nat
    BY RecordAssumption
<1>2. ASSUME NEW left \in Nat, NEW g, NEW h, \A k \in 0..(left - 1) : g[k] = h[k]
      PROVE  step(left, g) = step(left, h)
    <2>1. left # 0 => g[left - 1] = h[left - 1]
        BY <1>2
    <2>2. \A i : EmptyFrom(left, g, i) = EmptyFrom(left, h, i)
        BY <2>1 DEF EmptyFrom
    <2> QED BY <2>2
<1>3. ASSUME NEW m \in Nat, NEW g, Solves(m, g) PROVE \E h : Solves(m + 1, h)
    <2> DEFINE h == [left \in 0..(m + 1) |-> IF left = m + 1 THEN step(m + 1, g) ELSE g[left]]
    <2>1. \A left \in 0..m : h[left] = g[left]
        <3> HIDE DEF step, Solves
        <3> QED OBVIOUS
    <2>2. h[m + 1] = step(m + 1, g)
        <3> HIDE DEF step, Solves
        <3> QED OBVIOUS
    <2>3. \A left \in 0..m : g[left] = step(left, g)
        <3> HIDE DEF step
        <3> QED BY <1>3
    <2>4. ASSUME NEW left \in 0..(m + 1) PROVE h[left] = step(left, h)
        <3>1. left \in Nat /\ \A k \in 0..(left - 1) : g[k] = h[k]
            <4>1. left \in Nat /\ \A k \in 0..(left - 1) : k \in 0..m
                OBVIOUS
            <4> HIDE DEF h, step, Solves
            <4> QED BY <2>1, <4>1
        <3>2. step(left, g) = step(left, h)
            <4> HIDE DEF h, step, Solves
            <4> QED BY <1>2, <3>1
        <3> HIDE DEF h, step, Solves
        <3>3. left = m + 1 \/ left \in 0..m
            OBVIOUS
        <3> QED BY <2>1, <2>2, <2>3, <3>2, <3>3
    <2>5. Solves(m + 1, h)
        <3>1. h = [left \in 0..(m + 1) |-> h[left]]
            <4> HIDE DEF step, Solves
            <4> QED OBVIOUS
        <3> HIDE DEF h, step
        <3> QED BY <2>4, <3>1
    <2> HIDE DEF h, Solves
    <2> QED BY <2>5
<1>4. \E g : Solves(MaxDepth, g)
    <2> DEFINE P == {m \in Nat : \E g : Solves(m, g)}
    <2>1. 0 \in P
        <3> DEFINE g == [left \in 0..0 |-> step(0, <<>>)]
        <3>1. step(0, <<>>) = step(0, g)
            <4> HIDE DEF g, step, Solves
            <4> QED BY <1>2
        <3>2. Solves(0, g)
            <4>1. g = [left \in 0..0 |-> step(left, g)]
                <5>1. \A left \in 0..0 : left = 0
                    OBVIOUS
                <5>2. g = [left \in 0..0 |-> g[left]] /\ g[0] = step(0, <<>>)
                    <6> HIDE DEF step, Solves
                    <6> QED OBVIOUS
                <5> HIDE DEF g, step, Solves
                <5> QED BY <3>1, <5>1, <5>2
            <4> QED BY <4>1
        <3> HIDE DEF g, Solves
        <3> QED BY <3>2
    <2>2. \A m \in 1..MaxDepth : m - 1 \in P => m \in P
        <3> SUFFICES ASSUME NEW m \in 1..MaxDepth, NEW g, m - 1 \in Nat, Solves(m - 1, g) PROVE \E h : Solves(m, h)
            <4> HIDE DEF Solves
            <4> QED BY <1>1
        <3>1. \E h : Solves((m - 1) + 1, h)
            <4> HIDE DEF Solves
            <4> QED BY <1>3
        <3>2. (m - 1) + 1 = m
            OBVIOUS
        <3> HIDE DEF Solves
        <3> QED BY <3>1, <3>2
    <2>3. MaxDepth \in 0..MaxDepth
        BY <1>1
    <2>4. MaxDepth \in P
        <3> HIDE DEF P
        <3> QED BY <1>1, <2>1, <2>2, <2>3, CountingUp
    <2> HIDE DEF Solves
    <2> QED BY <2>4
<1>5. Solves(MaxDepth, EmptyWithin)
    <2>1. EmptyWithin = CHOOSE g : Solves(MaxDepth, g)
        BY Zenon DEF EmptyWithin, EmptyFrom
    <2> HIDE DEF Solves
    <2> QED BY <1>4, <2>1
<1>6. \A left \in 0..MaxDepth : EmptyWithin[left] = step(left, EmptyWithin)
    <2> HIDE DEF step
    <2> QED BY <1>5
<1> HIDE DEF Solves
<1> QED BY <1>6

LEMMA LargestIs ==
    ASSUME NEW n \in Nat, NEW S, S \subseteq 0..n, S # {}
    PROVE  Max(S) \in S /\ \A y \in S : Max(S) >= y
BY GreatestNat DEF Max

\* Of the types that there are, what is written fits.
LEMMA TypeIs ==
    ASSUME Written, NEW i \in Types
    PROVE  /\ i \in DOMAIN pdb.types /\ Data(i) # None /\ Data(i).is \in TypeKinds
           /\ Fact(i) = Data(i).fact /\ FactFits(Fact(i)) /\ TypeWritten(i)
BY DEF Written, TypeWritten, Types, Fact, Is

LEMMA FactsFit ==
    ASSUME Written, MaxDepth \in Nat, None \notin Nat
    PROVE  \A i : FactFits(Fact(i))
<1>1. FactFits(Unknown)
    BY DEF FactFits, Unknown
<1>2. \A i : i \notin Types => Fact(i) = Unknown
    BY DEF Fact
<1> QED BY <1>1, <1>2, TypeIs

LEMMA FieldsRead ==
    ASSUME pdb \in Pdbs, Written, NEW type,
           type.list = None \/ (type.list \in DOMAIN pdb.types /\ Is(Data(type.list), {"fields"}))
    PROVE  FieldsOf(type) = AllFields(type)
<1> DEFINE Agree(left) ==
        \A list \in DOMAIN pdb.types : Is(Data(list), {"fields"}) /\ Data(list).pieces <= left =>
            FieldsWithin[left][list] = Data(list).all
<1> DEFINE P == {left \in Nat : Agree(left)}
<1>0. MaxLists \in Nat /\ None \notin DOMAIN pdb.types
    BY RecordAssumption, RecordShape
<1>1. \A list \in DOMAIN pdb.types : Is(Data(list), {"fields"}) => ListWritten(list)
    BY DEF Written
<1>2. 0 \in P
    <2>1. Agree(0)
        <3> SUFFICES ASSUME NEW list \in DOMAIN pdb.types, Is(Data(list), {"fields"}), Data(list).pieces <= 0
                     PROVE  FALSE
            OBVIOUS
        <3>1. Data(list).pieces \in 1..MaxLists
            BY <1>1 DEF ListWritten
        <3> QED BY <1>0, <3>1
    <2> HIDE DEF Agree
    <2> QED BY <2>1
<1>3. \A left \in 1..MaxLists : left - 1 \in P => left \in P
    <2> SUFFICES ASSUME NEW left \in 1..MaxLists, left - 1 \in Nat, Agree(left - 1),
                        NEW list \in DOMAIN pdb.types, Is(Data(list), {"fields"}), Data(list).pieces <= left
                 PROVE  FieldsWithin[left][list] = Data(list).all
        <3>1. \A left \in 1..MaxLists : left \in Nat
            BY <1>0
        <3> QED BY <3>1
    <2> DEFINE next == Data(list).next
    <2>1. left \in 0..MaxLists /\ left # 0
        BY <1>0
    <2>2. FieldsWithin[left][list] = FieldsFrom(left, FieldsWithin, list)
        <3> HIDE DEF Agree
        <3> QED BY <2>1, FieldsWithinIs
    <2>3. FieldsFrom(left, FieldsWithin, list) =
              IF next \notin DOMAIN pdb.types THEN Data(list).fields
              ELSE Data(list).fields \o FieldsWithin[left - 1][next]
        <3> HIDE DEF Agree
        <3> QED BY <2>1 DEF FieldsFrom
    <2>4. ListWritten(list)
        BY <1>1
    <2>5. CASE next = None /\ Data(list).all = Data(list).fields
        <3> HIDE DEF Agree
        <3> QED BY <1>0, <2>2, <2>3, <2>5
    <2>6. CASE /\ next \in DOMAIN pdb.types /\ Is(Data(next), {"fields"})
               /\ Data(next).pieces < Data(list).pieces
               /\ Data(list).all = Data(list).fields \o Data(next).all
        <3>1. Data(next).pieces \in 1..MaxLists /\ Data(list).pieces \in 1..MaxLists
            BY <1>1, <2>4, <2>6 DEF ListWritten
        <3>2. Data(next).pieces <= left - 1
            <4> DEFINE p == Data(next).pieces
            <4> DEFINE q == Data(list).pieces
            <4>1. p \in Nat /\ q \in Nat /\ p < q /\ q <= left /\ left \in Nat
                BY <1>0, <2>6, <3>1
            <4> HIDE DEF p, q
            <4>2. p <= left - 1
                BY <4>1
            <4> QED BY <4>2 DEF p
        <3>3. FieldsWithin[left - 1][next] = Data(next).all
            BY <2>6, <3>2
        <3> HIDE DEF Agree
        <3> QED BY <2>2, <2>3, <2>6, <3>3
    <2> QED BY <2>4, <2>5, <2>6 DEF ListWritten
<1>4. \A left \in 0..MaxLists : left \in P
    <2> HIDE DEF P
    <2> QED BY <1>0, <1>2, <1>3, CountingUp
<1>5. CASE type.list = None
    BY <1>0, <1>5 DEF FieldsOf, AllFields
<1>6. CASE type.list # None
    <2>1. type.list \in DOMAIN pdb.types /\ Is(Data(type.list), {"fields"})
        BY <1>6
    <2>2. MaxLists \in 0..MaxLists
        BY <1>0
    <2>3. Data(type.list).pieces \in 1..MaxLists
        BY <1>1, <2>1 DEF ListWritten
    <2>4. Data(type.list).pieces <= MaxLists
        BY <1>0, <2>3
    <2>5. Agree(MaxLists)
        BY <1>4, <2>2
    <2>6. FieldsWithin[MaxLists][type.list] = Data(type.list).all
        BY <2>1, <2>4, <2>5
    <2> HIDE DEF P, Agree
    <2> QED BY <1>6, <2>1, <2>6 DEF FieldsOf, AllFields
<1> QED BY <1>5, <1>6

\* A name leads to its first definition.
LEMMA DefinitionIs ==
    ASSUME pdb \in Pdbs, NEW name, NEW d, Named(name, d)
    PROVE  Definition(name) = Data(d)
<1> DEFINE named == {i \in Aggregates(FALSE) : Data(i).name = name}
<1>1. d \in named /\ \A y \in named : d <= y
    BY DEF Named
<1>2. named \subseteq Nat
    BY RecordShape DEF Aggregates
<1>3. Definition(name) = IF named = {} THEN None ELSE Data(Min(named))
    BY Zenon DEF Definition
<1> HIDE DEF named
<1> DEFINE m == Min(named)
<1>4. m \in named /\ \A y \in named : m <= y
    BY <1>1 DEF Min
<1> HIDE DEF m
<1>6. m \in Nat /\ d \in Nat /\ m <= d /\ d <= m
    BY <1>1, <1>2, <1>4
<1>7. m = d
    BY <1>6
<1>5. Min(named) = d
    BY <1>7 DEF m
<1> QED BY <1>1, <1>3, <1>5

LEMMA NotDefined ==
    ASSUME NEW name, \A d \in Aggregates(FALSE) : Data(d).name # name
    PROVE  Definition(name) = None
BY DEF Definition

LEMMA SomeDefined ==
    ASSUME pdb \in Pdbs, NEW name, NEW d \in Aggregates(FALSE), Data(d).name = name
    PROVE  \E first : Named(name, first)
<1> DEFINE named == {i \in Aggregates(FALSE) : Data(i).name = name}
<1>1. named \subseteq Nat /\ named # {}
    BY RecordShape DEF Aggregates
<1>2. \E first \in named : \A y \in named : first <= y
    <2> HIDE DEF named
    <2> QED BY <1>1, LeastNat
<1> QED BY <1>2 DEF Named

\* A definition, as itself or as what a forward reference means.
Means(i, d) ==
    /\ d \in Aggregates(FALSE) /\ d \in Types /\ Complete(Data(i)) = Data(d) /\ Data(d) # None
    /\ Fact(i) = Fact(d) /\ Data(i).is = Data(d).is /\ DefinitionWritten(d)

LEMMA DefinitionsWritten ==
    ASSUME Written, NEW d \in Aggregates(FALSE)
    PROVE  d \in Types /\ Data(d) # None /\ DefinitionWritten(d) /\ ~Data(d).forward
<1>1. Data(d) # None /\ Data(d).is \in {"class", "union"} /\ Data(d).forward = FALSE /\ d \in DOMAIN pdb.types
    BY DEF Aggregates, Is
<1>2. d \in Types
    BY <1>1 DEF Types, Is, TypeKinds
<1>3. TypeWritten(d)
    BY <1>2, TypeIs
<1>4. d \notin Aggregates(TRUE)
    BY <1>1 DEF Aggregates
<1> QED BY <1>1, <1>2, <1>3, <1>4 DEF TypeWritten

LEMMA AggregateMeans ==
    ASSUME pdb \in Pdbs, Written, NEW i \in Types, Data(i).is \in {"class", "union"}
    PROVE  \/ \E d : Means(i, d)
           \/ Complete(Data(i)) = None /\ Fact(i) = Unknown
<1>1. TypeWritten(i)
    BY TypeIs
<1>2. CASE i \in Aggregates(FALSE)
    <2>1. Complete(Data(i)) = Data(i)
        BY <1>2, DefinitionsWritten DEF Complete
    <2>2. Means(i, i)
        BY <1>2, <2>1, DefinitionsWritten DEF Means
    <2> QED BY <2>2
<1>3. CASE i \in Aggregates(TRUE) /\ ForwardWritten(i)
    <2>1. Complete(Data(i)) = Definition(Data(i).name)
        BY <1>3 DEF Aggregates, Complete
    <2>2. CASE \E d \in Aggregates(FALSE) : Named(Data(i).name, d) /\ Fact(i) = Fact(d) /\ Data(i).is = Data(d).is
        <3>1. PICK d \in Aggregates(FALSE) : Named(Data(i).name, d) /\ Fact(i) = Fact(d) /\ Data(i).is = Data(d).is
            BY <2>2
        <3>2. Definition(Data(i).name) = Data(d)
            BY <3>1, DefinitionIs
        <3>3. Means(i, d)
            BY <2>1, <3>1, <3>2, DefinitionsWritten DEF Means
        <3> QED BY <3>3
    <2>3. CASE (\A d \in Aggregates(FALSE) : Data(d).name # Data(i).name) /\ Fact(i) = Unknown
        BY <2>1, <2>3, NotDefined
    <2> QED BY <1>3, <2>2, <2>3 DEF ForwardWritten
<1> QED BY <1>1, <1>2, <1>3 DEF TypeWritten

-----------------------------------------------------------------------------
(* Sizes.                                                                  *)

\* What is found of a fact is nothing if there is nothing to find, and what there is once
\* near enough.
Agrees(found, fact, near) == (fact = None => found = None) /\ (fact # None /\ near => found = fact)

SizesAgree(left) ==
    \A i \in Types : Agrees(SizeWithin[left][i], Fact(i).size, Fact(i).steps <= left)

InnerSize(left, of) == IF left = 0 THEN None ELSE OfType(SizeWithin[left - 1], of)

\* Nothing is found of what is no type.
LEMMA NoTypeNoSize ==
    ASSUME pdb \in Pdbs, NEW left \in 0..MaxDepth, NEW i \in DOMAIN pdb.types, i \notin Types
    PROVE  SizeWithin[left][i] = None
<1>1. SizeWithin[left][i] = SizeFrom(left, SizeWithin, i)
    BY SizeWithinIs
<1>2. Data(i) = None \/ Data(i).is \notin TypeKinds
    BY DEF Types, Is
<1>3. SizeFrom(left, SizeWithin, i) = None
    BY <1>2 DEF SizeFrom, TypeKinds
<1> QED BY <1>1, <1>3

LEMMA InnerSizeAgrees ==
    ASSUME pdb \in Pdbs, Written, NEW left \in 0..MaxDepth, left # 0 => SizesAgree(left - 1), NEW of
    PROVE  Agrees(InnerSize(left, of), Fact(of).size, Fact(of).steps < left)
<1>0. MaxDepth \in Nat /\ None \notin Nat
    BY RecordAssumption
<1>1. FactFits(Fact(of))
    BY <1>0, FactsFit
<1>2. Fact(of).steps \in Nat /\ left \in Nat
    BY <1>0, <1>1 DEF FactFits
<1>3. CASE left = 0
    BY <1>2, <1>3 DEF Agrees, InnerSize
<1>4. CASE left # 0
    <2>1. left - 1 \in 0..MaxDepth
        BY <1>0, <1>4
    <2>2. CASE of \in Types
        <3>1. InnerSize(left, of) = SizeWithin[left - 1][of]
            BY <1>4, <2>2 DEF InnerSize, OfType, Types
        <3>2. Agrees(SizeWithin[left - 1][of], Fact(of).size, Fact(of).steps <= left - 1)
            BY <1>4, <2>2 DEF SizesAgree
        <3>3. Fact(of).steps < left => Fact(of).steps <= left - 1
            <4> DEFINE s == Fact(of).steps
            <4>1. s \in Nat
                BY <1>2
            <4> HIDE DEF s
            <4>2. s < left => s <= left - 1
                BY <1>2, <4>1
            <4> QED BY <4>2 DEF s
        <3> QED BY <3>1, <3>2, <3>3 DEF Agrees
    <2>3. CASE of \notin Types
        <3>1. Fact(of) = Unknown
            BY <2>3 DEF Fact
        <3>2. InnerSize(left, of) = None
            BY <1>4, <2>1, <2>3, NoTypeNoSize DEF InnerSize, OfType
        <3> QED BY <3>1, <3>2 DEF Agrees, Unknown
    <2> QED BY <2>2, <2>3
<1> QED BY <1>3, <1>4

LEMMA SizeAgrees ==
    ASSUME pdb \in Pdbs, Written, NEW left \in 0..MaxDepth, left # 0 => SizesAgree(left - 1)
    PROVE  SizesAgree(left)
<1> SUFFICES ASSUME NEW i \in Types
             PROVE  Agrees(SizeWithin[left][i], Fact(i).size, Fact(i).steps <= left)
    BY DEF SizesAgree
<1> DEFINE type == Data(i)
<1>0. MaxDepth \in Nat /\ None \notin Nat
    BY RecordAssumption
<1>1. /\ i \in DOMAIN pdb.types /\ type # None /\ TypeWritten(i)
    BY TypeIs
<1>2. SizeWithin[left][i] = SizeFrom(left, SizeWithin, i)
    BY <1>1, SizeWithinIs
<1>3. CASE type.is = "primitive" /\ PrimitiveWritten(i)
    <2>1. SizeFrom(left, SizeWithin, i) = type.bytes
        BY <1>1, <1>3 DEF SizeFrom
    <2> QED BY <1>2, <1>3, <2>1 DEF PrimitiveWritten, Agrees
<1>4. CASE type.is = "pointer" /\ PointerWritten(i)
    <2>1. SizeFrom(left, SizeWithin, i) = pdb.addressSize
        BY <1>1, <1>4 DEF SizeFrom
    <2> QED BY <1>2, <1>4, <2>1 DEF PointerWritten, Agrees
<1>5. CASE type.is \in {"modifier", "enum", "array", "bitfield"} /\ DerivedWritten(i)
    <2>1. CASE type.is = "array"
        <3>1. SizeFrom(left, SizeWithin, i) = type.bytes
            BY <1>1, <2>1 DEF SizeFrom
        <3> QED BY <1>2, <1>5, <2>1, <3>1 DEF DerivedWritten, Agrees
    <2>2. CASE type.is # "array"
        <3>1. type.is \in {"modifier", "enum", "bitfield"}
            BY <1>5, <2>2
        <3>2. SizeFrom(left, SizeWithin, i) = InnerSize(left, type.of)
            BY <1>1, <3>1 DEF SizeFrom, InnerSize
        <3>3. Fact(i).size = Fact(type.of).size
            BY <1>5, <2>2 DEF DerivedWritten
        <3>4. Fact(i).size # None => Fact(type.of).steps < Fact(i).steps
            BY <1>5, <2>2 DEF DerivedWritten
        <3>5. Agrees(InnerSize(left, type.of), Fact(type.of).size, Fact(type.of).steps < left)
            BY InnerSizeAgrees
        <3>6. Fact(i).size # None /\ Fact(i).steps <= left => Fact(type.of).steps < left
            <4> DEFINE s == Fact(i).steps
            <4> DEFINE t == Fact(type.of).steps
            <4>1. FactFits(Fact(i)) /\ FactFits(Fact(type.of))
                BY <1>0, FactsFit
            <4>2. s \in Nat /\ t \in Nat /\ left \in Nat
                BY <1>0, <4>1 DEF FactFits
            <4>3. Fact(i).size # None => t < s
                BY <3>4
            <4> HIDE DEF s, t
            <4>4. Fact(i).size # None /\ s <= left => t < left
                BY <4>2, <4>3
            <4> QED BY <4>4 DEF s, t
        <3> QED BY <1>2, <3>2, <3>3, <3>5, <3>6 DEF Agrees
    <2> QED BY <2>1, <2>2
<1>6. CASE type.is \in {"class", "union"}
    <2>1. SizeFrom(left, SizeWithin, i) = IF Complete(type) = None THEN None ELSE Complete(type).bytes
        BY <1>1, <1>6 DEF SizeFrom
    <2>2. CASE \E d : Means(i, d)
        <3>1. PICK d : Means(i, d)
            BY <2>2
        <3>2. SizeFrom(left, SizeWithin, i) = Data(d).bytes /\ Data(d).bytes # None /\ Fact(i).size = Data(d).bytes
            BY <2>1, <3>1 DEF Means, DefinitionWritten
        <3> QED BY <1>2, <3>2 DEF Agrees
    <2>3. CASE Complete(type) = None /\ Fact(i) = Unknown
        BY <1>2, <2>1, <2>3 DEF Agrees, Unknown
    <2> QED BY <1>6, <2>2, <2>3, AggregateMeans
<1>7. i \in Aggregates(FALSE) \cup Aggregates(TRUE) => type.is \in {"class", "union"}
    BY DEF Aggregates, Is
<1> QED BY <1>1, <1>3, <1>4, <1>5, <1>6, <1>7 DEF TypeWritten

LEMMA SizesRead ==
    ASSUME pdb \in Pdbs, Written
    PROVE  \A i : TypeSize(i) = Fact(i).size
<1>0. MaxDepth \in Nat /\ None \notin Nat
    BY RecordAssumption
<1> DEFINE P == {left \in Nat : SizesAgree(left)}
<1>1. 0 \in P
    BY <1>0, SizeAgrees
<1>2. \A left \in 1..MaxDepth : left - 1 \in P => left \in P
    BY <1>0, SizeAgrees
<1>3. \A left \in 0..MaxDepth : left \in P
    <2> HIDE DEF P
    <2> QED BY <1>0, <1>1, <1>2, CountingUp
<1>4. SizesAgree(MaxDepth) /\ MaxDepth \in 0..MaxDepth
    BY <1>0, <1>3
<1>5. ASSUME NEW i \in Types PROVE TypeSize(i) = Fact(i).size
    <2>1. i \in DOMAIN pdb.types /\ FactFits(Fact(i))
        BY TypeIs
    <2>2. Fact(i).steps <= MaxDepth
        BY <1>0, <2>1 DEF FactFits
    <2> QED BY <1>4, <2>1, <2>2 DEF SizesAgree, Agrees, TypeSize, OfType
<1>6. ASSUME NEW i, i \notin Types PROVE TypeSize(i) = Fact(i).size
    <2>1. Fact(i).size = None
        BY <1>6 DEF Fact, Unknown
    <2> QED BY <1>4, <1>6, <2>1, NoTypeNoSize DEF TypeSize, OfType
<1> QED BY <1>5, <1>6

-----------------------------------------------------------------------------
(* Alignments.                                                             *)

\* There is an alignment than which none is larger.
LEMMA SomeBound ==
    ASSUME NEW n \in Nat, NEW f, \A k \in 1..n : f[k] \in Nat
    PROVE  \E b \in Nat : \A k \in 1..n : f[k] <= b
<1> DEFINE P == {m \in Nat : \E b \in Nat : \A k \in 1..n : k <= m => f[k] <= b}
<1>1. 0 \in P
    OBVIOUS
<1>2. \A m \in 1..n : m - 1 \in P => m \in P
    <2> SUFFICES ASSUME NEW m \in 1..n, m - 1 \in P PROVE m \in P
        OBVIOUS
    <2>1. PICK b \in Nat : \A k \in 1..n : k <= m - 1 => f[k] <= b
        OBVIOUS
    <2>2. f[m] \in Nat
        OBVIOUS
    <2>3. PICK c \in Nat : b <= c /\ f[m] <= c
        <3>1. CASE b <= f[m]
            BY <2>2, <3>1
        <3>2. CASE f[m] <= b
            BY <2>2, <3>2
        <3> QED BY <2>2, <3>1, <3>2
    <2>4. \A k \in 1..n : k <= m => f[k] <= c
        <3> SUFFICES ASSUME NEW k \in 1..n, k <= m PROVE f[k] <= c
            OBVIOUS
        <3>1. CASE k = m
            BY <2>3, <3>1
        <3>2. CASE k # m
            <4>1. k <= m - 1
                BY <3>2
            <4>2. f[k] \in Nat /\ f[k] <= b
                BY <2>1, <4>1
            <4> QED BY <2>3, <4>2
        <3> QED BY <3>1, <3>2
    <2> QED BY <2>4
<1>3. \A m \in 0..n : m \in P
    <2> HIDE DEF P
    <2> QED BY <1>1, <1>2, CountingUp
<1>4. n \in P
    <2>1. n \in 0..n
        OBVIOUS
    <2> HIDE DEF P
    <2> QED BY <1>3, <2>1
<1> QED BY <1>4

LEMMA AlignsBounded ==
    ASSUME pdb \in Pdbs, Written
    PROVE  \E b \in Nat : b >= 1 /\ \A i : Fact(i).align \in Nat /\ Fact(i).align <= b
<1>0. MaxDepth \in Nat /\ None \notin Nat
    BY RecordAssumption
<1>1. \A i : Fact(i).align \in Nat
    BY <1>0, FactsFit DEF FactFits
<1> DEFINE f == [i \in DOMAIN pdb.types |-> Fact(i).align]
<1>2. Len(pdb.types) \in Nat /\ DOMAIN pdb.types = 1..Len(pdb.types)
    BY RecordShape
<1>3. \A k \in 1..Len(pdb.types) : f[k] = Fact(k).align
    BY <1>2
<1> HIDE DEF f
<1> DEFINE n == Len(pdb.types)
<1>7. n \in Nat /\ \A k \in 1..n : f[k] \in Nat
    BY <1>1, <1>2, <1>3
<1>8. \E b \in Nat : \A k \in 1..n : f[k] <= b
    <2> HIDE DEF n
    <2> QED BY <1>7, SomeBound
<1>4. PICK b \in Nat : \A k \in 1..Len(pdb.types) : f[k] <= b
    BY <1>8
<1>5. \A i : Fact(i).align <= b + 1
    <2> SUFFICES ASSUME NEW i PROVE Fact(i).align <= b + 1
        OBVIOUS
    <2>1. CASE i \in 1..Len(pdb.types)
        <3> DEFINE a == Fact(i).align
        <3>1. a \in Nat /\ a <= b
            BY <1>1, <1>3, <1>4, <2>1
        <3> HIDE DEF a
        <3>2. a <= b + 1
            BY <3>1
        <3> QED BY <3>2 DEF a
    <2>2. CASE i \notin 1..Len(pdb.types)
        <3>1. i \notin Types
            BY <1>2, <2>2 DEF Types
        <3>2. Fact(i).align = 1
            BY <3>1 DEF Fact, Unknown
        <3> QED BY <3>2
    <2> QED BY <2>1, <2>2
<1>6. b + 1 \in Nat /\ b + 1 >= 1
    OBVIOUS
<1> QED BY <1>1, <1>5, <1>6

\* What is found of an alignment is nothing if it is hidden, and otherwise, once near enough,
\* no more than it is, and just that if nothing raised it.
Bounds(found, fact, near) ==
    /\ fact.hidden => found = None
    /\ found # None => found \in Nat /\ found <= fact.align /\ (~fact.raised => found = fact.align)
    /\ ~fact.hidden /\ near => found # None

AlignsAgree(left) ==
    \A i \in Types : Bounds(AlignWithin[left][i], Fact(i), Fact(i).steps <= left)

InnerAlign(left, of, steps) == IF left < steps THEN None ELSE OfType(AlignWithin[left - steps], of)

LEMMA NoTypeNoAlign ==
    ASSUME pdb \in Pdbs, NEW left \in 0..MaxDepth, NEW i \in DOMAIN pdb.types, i \notin Types
    PROVE  AlignWithin[left][i] = None
<1>1. AlignWithin[left][i] = AlignFrom(left, AlignWithin, i)
    BY AlignWithinIs
<1>2. Data(i) = None \/ Data(i).is \notin TypeKinds
    BY DEF Types, Is
<1>3. AlignFrom(left, AlignWithin, i) = None
    BY <1>2 DEF AlignFrom, TypeKinds
<1> QED BY <1>1, <1>3

LEMMA UnknownBounds == \A near : Bounds(None, Unknown, near)
BY DEF Bounds, Unknown

LEMMA InnerAlignAgrees ==
    ASSUME pdb \in Pdbs, Written, NEW left \in 0..MaxDepth, \A k \in 0..(left - 1) : AlignsAgree(k),
           NEW of, NEW steps \in {1, 2}
    PROVE  Bounds(InnerAlign(left, of, steps), Fact(of), Fact(of).steps + steps <= left)
<1>0. MaxDepth \in Nat /\ None \notin Nat
    BY RecordAssumption
<1>1. FactFits(Fact(of))
    BY <1>0, FactsFit
<1>2. Fact(of).steps \in Nat /\ left \in Nat
    BY <1>0, <1>1 DEF FactFits
<1>3. CASE left < steps
    <2>1. InnerAlign(left, of, steps) = None
        BY <1>3 DEF InnerAlign
    <2>2. ~(Fact(of).steps + steps <= left)
        <3> DEFINE s == Fact(of).steps
        <3>1. s \in Nat
            BY <1>2
        <3> HIDE DEF s
        <3>2. ~(s + steps <= left)
            BY <1>2, <1>3, <3>1
        <3> QED BY <3>2 DEF s
    <2> QED BY <2>1, <2>2 DEF Bounds
<1>4. CASE ~(left < steps)
    <2>1. left - steps \in 0..MaxDepth /\ left - steps \in 0..(left - 1)
        BY <1>0, <1>4
    <2>2. CASE of \in Types
        <3>1. InnerAlign(left, of, steps) = AlignWithin[left - steps][of]
            BY <1>4, <2>2 DEF InnerAlign, OfType, Types
        <3>2. Bounds(AlignWithin[left - steps][of], Fact(of), Fact(of).steps <= left - steps)
            BY <2>1, <2>2 DEF AlignsAgree
        <3>3. Fact(of).steps + steps <= left <=> Fact(of).steps <= left - steps
            <4> DEFINE s == Fact(of).steps
            <4>1. s \in Nat
                BY <1>2
            <4> HIDE DEF s
            <4>2. s + steps <= left <=> s <= left - steps
                BY <1>2, <4>1
            <4> QED BY <4>2 DEF s
        <3> QED BY <3>1, <3>2, <3>3
    <2>3. CASE of \notin Types
        <3>1. Fact(of) = Unknown
            BY <2>3 DEF Fact
        <3>2. InnerAlign(left, of, steps) = None
            BY <1>4, <2>1, <2>3, NoTypeNoAlign DEF InnerAlign, OfType
        <3> QED BY <3>1, <3>2, UnknownBounds
    <2> QED BY <2>2, <2>3
<1> QED BY <1>3, <1>4

\* The alignment of a field as it is found.
FoundAlign(left, field) ==
    IF field.is \in {"member", "base"} THEN InnerAlign(left, field.type, 2)
    ELSE IF field.is \in {"virtual", "vfptr"} THEN pdb.addressSize ELSE 1

LEMMA FieldAlignAgrees ==
    ASSUME pdb \in Pdbs, Written, NEW left \in 0..MaxDepth, \A k \in 0..(left - 1) : AlignsAgree(k),
           NEW d, DefinitionWritten(d), NEW field \in Fields(Data(d)),
           NEW b \in Nat, b >= 1, \A i : Fact(i).align \in Nat /\ Fact(i).align <= b
    PROVE  /\ FieldAlign(field) \in 0..(b + pdb.addressSize)
           /\ FoundAlign(left, field) # None =>
                 /\ FoundAlign(left, field) \in Nat /\ FoundAlign(left, field) <= FieldAlign(field)
                 /\ ~Fact(d).raised => FoundAlign(left, field) = FieldAlign(field)
           /\ field.is \in {"member", "base"} \/ FoundAlign(left, field) # None
<1>0. None \notin Nat /\ pdb.addressSize \in Nat
    BY RecordAssumption, RecordShape
<1> DEFINE align == Fact(field.type).align
<1>1. align \in Nat /\ align <= b
    OBVIOUS
<1>2. CASE field.is \in {"member", "base"}
    <2>1. field \in Parts(Data(d))
        BY <1>2 DEF Parts
    <2>2. ~Fact(d).raised => ~Fact(field.type).raised
        BY <2>1 DEF DefinitionWritten
    <2>3. Bounds(InnerAlign(left, field.type, 2), Fact(field.type), Fact(field.type).steps + 2 <= left)
        BY InnerAlignAgrees
    <2>4. FieldAlign(field) = align /\ FoundAlign(left, field) = InnerAlign(left, field.type, 2)
        BY <1>2 DEF FieldAlign, FoundAlign
    <2>5. align \in 0..(b + pdb.addressSize)
        <3> HIDE DEF align
        <3> QED BY <1>0, <1>1
    <2> QED BY <1>2, <2>2, <2>3, <2>4, <2>5 DEF Bounds
<1>3. CASE field.is = "virtual"
    <2> DEFINE S == {pdb.addressSize, align}
    <2>1. FieldAlign(field) = Max(S) /\ FoundAlign(left, field) = pdb.addressSize
        BY <1>3 DEF FieldAlign, FoundAlign
    <2>2. ~Fact(d).raised => ~(align > pdb.addressSize)
        BY <1>3 DEF DefinitionWritten
    <2> HIDE DEF align
    <2>3. S \subseteq 0..(b + pdb.addressSize) /\ S # {} /\ b + pdb.addressSize \in Nat
        BY <1>0, <1>1
    <2> DEFINE m == Max(S)
    <2>4. m \in S /\ \A y \in S : m >= y
        <3> HIDE DEF S
        <3> QED BY <2>3, LargestIs
    <2> HIDE DEF m
    <2>5. m \in 0..(b + pdb.addressSize) /\ pdb.addressSize <= m /\ (~(align > pdb.addressSize) => m = pdb.addressSize)
        BY <1>0, <1>1, <2>4
    <2> HIDE DEF S
    <2> QED BY <1>0, <2>1, <2>2, <2>5 DEF m
<1>4. CASE field.is = "vfptr"
    <2>1. FieldAlign(field) = pdb.addressSize /\ FoundAlign(left, field) = pdb.addressSize
        BY <1>4 DEF FieldAlign, FoundAlign
    <2>2. pdb.addressSize \in 0..(b + pdb.addressSize)
        BY <1>0
    <2> QED BY <1>0, <2>1, <2>2
<1>5. CASE field.is \notin {"member", "base", "virtual", "vfptr"}
    <2>1. FieldAlign(field) = 1 /\ FoundAlign(left, field) = 1
        BY <1>5 DEF FieldAlign, FoundAlign
    <2>2. 1 \in 0..(b + pdb.addressSize)
        BY <1>0
    <2> QED BY <1>0, <2>1, <2>2
<1> QED BY <1>2, <1>3, <1>4, <1>5

LEMMA AlignOfAggregate ==
    ASSUME pdb \in Pdbs, Written, NEW left \in 0..MaxDepth, \A k \in 0..(left - 1) : AlignsAgree(k),
           NEW i \in Types, Data(i).is \in {"class", "union"}, NEW d, Means(i, d)
    PROVE  Bounds(AlignWithin[left][i], Fact(i), Fact(i).steps <= left)
<1> DEFINE fields == Fields(Data(d))
<1> DEFINE found == {FoundAlign(left, field) : field \in fields}
<1> DEFINE real == {FieldAlign(field) : field \in fields}
<1>0. None \notin Nat /\ pdb.addressSize \in Nat /\ MaxDepth \in Nat
    BY RecordAssumption, RecordShape
<1>1. i \in DOMAIN pdb.types /\ Data(i) # None
    BY TypeIs
<1>2. /\ Complete(Data(i)) = Data(d) /\ Data(d) # None /\ Fact(i) = Fact(d) /\ DefinitionWritten(d)
    BY DEF Means
<1>3. FieldsOf(Data(d)) = AllFields(Data(d))
    BY <1>2, FieldsRead DEF DefinitionWritten
<1>4. AlignWithin[left][i] = AlignFrom(left, AlignWithin, i)
    BY <1>1, AlignWithinIs
<1>5. AlignFrom(left, AlignWithin, i) =
          IF Data(d).list = None \/ None \in found THEN None ELSE Max(found \cup {1})
    BY <1>1, <1>2, <1>3 DEF AlignFrom, FoundAlign, InnerAlign, Fields
<1>6. Fact(d).align = Max(real \cup {1})
    BY <1>2 DEF DefinitionWritten
<1>7. PICK b \in Nat : b >= 1 /\ \A j : Fact(j).align \in Nat /\ Fact(j).align <= b
    BY AlignsBounded
<1>8. \A field \in fields :
          /\ FieldAlign(field) \in 0..(b + pdb.addressSize)
          /\ FoundAlign(left, field) # None =>
                /\ FoundAlign(left, field) \in Nat /\ FoundAlign(left, field) <= FieldAlign(field)
                /\ ~Fact(d).raised => FoundAlign(left, field) = FieldAlign(field)
          /\ field.is \in {"member", "base"} \/ FoundAlign(left, field) # None
    BY <1>2, <1>7, FieldAlignAgrees
<1>9. Fact(d).hidden => AlignWithin[left][i] = None
    <2> SUFFICES ASSUME Fact(d).hidden, Data(d).list # None PROVE None \in found
        BY <1>4, <1>5
    <2>1. PICK field \in Parts(Data(d)) : Fact(field.type).hidden
        BY <1>2 DEF DefinitionWritten
    <2>2. field \in fields /\ field.is \in {"member", "base"}
        BY DEF Parts
    <2>3. Bounds(InnerAlign(left, field.type, 2), Fact(field.type), Fact(field.type).steps + 2 <= left)
        BY InnerAlignAgrees
    <2>4. FoundAlign(left, field) = None
        BY <2>1, <2>2, <2>3 DEF FoundAlign, Bounds
    <2> QED BY <2>2, <2>4
<1>10. ~Fact(d).hidden /\ Fact(d).steps <= left => Data(d).list # None /\ None \notin found
    <2> SUFFICES ASSUME ~Fact(d).hidden, Fact(d).steps <= left,
                        NEW field \in fields, FoundAlign(left, field) = None
                 PROVE  FALSE
        BY <1>2 DEF DefinitionWritten
    <2>1. field \in Parts(Data(d)) /\ field.is \in {"member", "base"}
        BY <1>8 DEF Parts
    <2>2. ~Fact(field.type).hidden /\ Fact(field.type).steps + 2 <= Fact(d).steps
        BY <1>2, <2>1 DEF DefinitionWritten, Told
    <2>3. Bounds(InnerAlign(left, field.type, 2), Fact(field.type), Fact(field.type).steps + 2 <= left)
        BY InnerAlignAgrees
    <2>4. Fact(field.type).steps + 2 <= left
        <3> DEFINE s == Fact(d).steps
        <3> DEFINE t == Fact(field.type).steps
        <3>1. FactFits(Fact(d)) /\ FactFits(Fact(field.type))
            BY <1>0, FactsFit
        <3>2. s \in Nat /\ t \in Nat /\ left \in Nat
            BY <1>0, <3>1 DEF FactFits
        <3>3. t + 2 <= s /\ s <= left
            BY <2>2
        <3> HIDE DEF s, t
        <3>4. t + 2 <= left
            BY <3>2, <3>3
        <3> QED BY <3>4 DEF t
    <2>5. FoundAlign(left, field) # None
        BY <2>1, <2>2, <2>3, <2>4 DEF FoundAlign, Bounds
    <2> QED BY <2>5
<1>11. ASSUME None \notin found
       PROVE  /\ Max(found \cup {1}) \in Nat /\ Max(found \cup {1}) <= Fact(d).align
              /\ ~Fact(d).raised => Max(found \cup {1}) = Fact(d).align
    <2> DEFINE n == b + pdb.addressSize
    <2> DEFINE S == found \cup {1}
    <2> DEFINE R == real \cup {1}
    <2>1. n \in Nat /\ 1 \in 0..n
        BY <1>0, <1>7
    <2>2. \A field \in fields : FoundAlign(left, field) # None
        BY <1>11
    <2>3. \A field \in fields : FoundAlign(left, field) \in 0..n
        <3> SUFFICES ASSUME NEW field \in fields PROVE FoundAlign(left, field) \in 0..n
            OBVIOUS
        <3> DEFINE x == FoundAlign(left, field)
        <3> DEFINE y == FieldAlign(field)
        <3>1. y \in 0..n /\ x \in Nat /\ x <= y
            BY <1>8, <2>2
        <3> HIDE DEF x, y, n
        <3>2. x \in 0..n
            BY <2>1, <3>1
        <3> QED BY <3>2 DEF x
    <2>4. S \subseteq 0..n /\ R \subseteq 0..n /\ S # {} /\ R # {}
        <3> HIDE DEF n
        <3>1. \A field \in fields : FieldAlign(field) \in 0..n
            BY <1>8 DEF n
        <3> HIDE DEF fields
        <3> QED BY <2>1, <2>3, <3>1
    <2> DEFINE s == Max(S)
    <2> DEFINE r == Max(R)
    <2>5. s \in S /\ r \in R /\ \A y \in R : r >= y
        <3> HIDE DEF n, S, R
        <3> QED BY <2>1, <2>4, LargestIs
    <2>6. s \in Nat /\ r \in Nat
        <3> HIDE DEF n, S, R, s, r
        <3> QED BY <2>1, <2>4, <2>5
    <2>7. \E y \in R : s <= y
        <3>1. CASE s = 1
            <4>1. 1 \in R /\ s <= 1
                BY <3>1
            <4> QED BY <4>1
        <3>2. CASE s \in found
            <4>1. PICK field \in fields : s = FoundAlign(left, field)
                <5> HIDE DEF s, fields
                <5> QED BY <3>2
            <4>2. s <= FieldAlign(field) /\ FieldAlign(field) \in R
                <5> HIDE DEF s
                <5> QED BY <1>8, <2>2, <4>1
            <4> QED BY <4>2
        <3> HIDE DEF s
        <3> QED BY <2>5, <3>1, <3>2
    <2>8. s <= r
        <3>1. PICK y \in R : s <= y
            BY <2>7
        <3>2. y \in Nat /\ r >= y
            <4> HIDE DEF n, S, R, s, r
            <4> QED BY <2>1, <2>4, <2>5
        <3> HIDE DEF s, r, R, S
        <3> QED BY <2>6, <3>1, <3>2
    <2>9. ~Fact(d).raised => s = r
        <3> SUFFICES ASSUME ~Fact(d).raised PROVE S = R
            OBVIOUS
        <3>1. \A field \in fields : FoundAlign(left, field) = FieldAlign(field)
            BY <1>8, <2>2
        <3> HIDE DEF fields
        <3> QED BY <3>1
    <2> HIDE DEF found, real, s, r
    <2>10. s = Max(found \cup {1}) /\ r = Fact(d).align
        BY <1>6 DEF s, r
    <2> QED BY <2>6, <2>8, <2>9, <2>10
<1> HIDE DEF found, real, fields
<1> QED BY <1>0, <1>2, <1>4, <1>5, <1>9, <1>10, <1>11 DEF Bounds

LEMMA AlignAgrees ==
    ASSUME pdb \in Pdbs, Written, NEW left \in 0..MaxDepth, \A k \in 0..(left - 1) : AlignsAgree(k)
    PROVE  AlignsAgree(left)
<1> SUFFICES ASSUME NEW i \in Types
             PROVE  Bounds(AlignWithin[left][i], Fact(i), Fact(i).steps <= left)
    BY DEF AlignsAgree
<1> DEFINE type == Data(i)
<1>0. MaxDepth \in Nat /\ None \notin Nat /\ pdb.addressSize \in Nat
    BY RecordAssumption, RecordShape
<1>1. i \in DOMAIN pdb.types /\ type # None /\ TypeWritten(i)
    BY TypeIs
<1>2. AlignWithin[left][i] = AlignFrom(left, AlignWithin, i)
    BY <1>1, AlignWithinIs
<1>3. CASE type.is = "primitive" /\ PrimitiveWritten(i)
    <2>1. AlignFrom(left, AlignWithin, i) =
              IF type.bytes = None THEN None ELSE Max({1, Min({type.bytes, 16})})
        BY <1>1, <1>3 DEF AlignFrom
    <2>2. CASE type.bytes = None /\ Fact(i).hidden
        BY <1>2, <2>1, <2>2 DEF Bounds
    <2>3. CASE type.bytes \in 1..16 /\ ~Fact(i).hidden /\ Fact(i).align = type.bytes
        <3> DEFINE n == type.bytes
        <3>1. n \in 1..16
            BY <2>3
        <3> HIDE DEF n
        <3>2. Min({n, 16}) = n
            BY <3>1 DEF Min
        <3>3. Max({1, n}) = n
            BY <3>1 DEF Max
        <3>4. Max({1, Min({n, 16})}) = n /\ n \in Nat /\ n <= n /\ n # None
            BY <1>0, <3>1, <3>2, <3>3
        <3>5. AlignFrom(left, AlignWithin, i) = n
            BY <2>1, <3>4 DEF n
        <3>6. ~Fact(i).hidden /\ Fact(i).align = n
            BY <2>3 DEF n
        <3> QED BY <1>2, <3>4, <3>5, <3>6 DEF Bounds
    <2> QED BY <1>3, <2>2, <2>3 DEF PrimitiveWritten
<1>4. CASE type.is = "pointer" /\ PointerWritten(i)
    <2>1. AlignFrom(left, AlignWithin, i) = pdb.addressSize
        BY <1>1, <1>4 DEF AlignFrom
    <2> QED BY <1>0, <1>2, <1>4, <2>1 DEF PointerWritten, Bounds
<1>5. CASE type.is \in {"modifier", "enum", "array", "bitfield"} /\ DerivedWritten(i)
    <2>1. CASE type.is = "bitfield"
        <3>1. AlignFrom(left, AlignWithin, i) = None
            BY <1>1, <2>1 DEF AlignFrom
        <3>2. Fact(i).hidden
            BY <1>5, <2>1 DEF DerivedWritten
        <3> QED BY <1>2, <3>1, <3>2 DEF Bounds
    <2>2. CASE type.is # "bitfield"
        <3>1. type.is \in {"enum", "modifier", "array"}
            BY <1>5, <2>2
        <3>2. AlignFrom(left, AlignWithin, i) = InnerAlign(left, type.of, 1)
            BY <1>1, <3>1 DEF AlignFrom, InnerAlign
        <3>3. AlignedAs(i, type.of)
            BY <1>5, <2>2 DEF DerivedWritten
        <3>4. ~Fact(i).hidden => Fact(type.of).steps < Fact(i).steps
            BY <1>5, <2>2 DEF DerivedWritten, Told
        <3>5. Bounds(InnerAlign(left, type.of, 1), Fact(type.of), Fact(type.of).steps + 1 <= left)
            BY InnerAlignAgrees
        <3>6. ~Fact(i).hidden /\ Fact(i).steps <= left => Fact(type.of).steps + 1 <= left
            <4> DEFINE s == Fact(i).steps
            <4> DEFINE t == Fact(type.of).steps
            <4>1. FactFits(Fact(i)) /\ FactFits(Fact(type.of))
                BY <1>0, FactsFit
            <4>2. s \in Nat /\ t \in Nat /\ left \in Nat
                BY <1>0, <4>1 DEF FactFits
            <4>3. ~Fact(i).hidden => t < s
                BY <3>4
            <4> HIDE DEF s, t
            <4>4. ~Fact(i).hidden /\ s <= left => t + 1 <= left
                BY <4>2, <4>3
            <4> QED BY <4>4 DEF s, t
        <3> QED BY <1>2, <3>2, <3>3, <3>5, <3>6 DEF Bounds, AlignedAs
    <2> QED BY <2>1, <2>2
<1>6. CASE type.is \in {"class", "union"}
    <2>1. CASE \E d : Means(i, d)
        BY <1>6, <2>1, AlignOfAggregate
    <2>2. CASE Complete(type) = None /\ Fact(i) = Unknown
        <3>1. AlignFrom(left, AlignWithin, i) = None
            BY <1>1, <1>6, <2>2 DEF AlignFrom
        <3> QED BY <1>2, <2>2, <3>1, UnknownBounds
    <2> QED BY <1>6, <2>1, <2>2, AggregateMeans
<1>7. i \in Aggregates(FALSE) \cup Aggregates(TRUE) => type.is \in {"class", "union"}
    BY DEF Aggregates, Is
<1> QED BY <1>1, <1>3, <1>4, <1>5, <1>6, <1>7 DEF TypeWritten

LEMMA AlignsRead ==
    ASSUME pdb \in Pdbs, Written
    PROVE  \A i : Bounds(TypeAlign(i), Fact(i), TRUE)
<1>0. MaxDepth \in Nat /\ None \notin Nat
    BY RecordAssumption
<1> DEFINE P == {left \in Nat : \A k \in 0..left : AlignsAgree(k)}
<1>1. 0 \in P
    <2>1. AlignsAgree(0)
        BY <1>0, AlignAgrees
    <2> QED BY <2>1
<1>2. \A left \in 1..MaxDepth : left - 1 \in P => left \in P
    <2> SUFFICES ASSUME NEW left \in 1..MaxDepth, \A k \in 0..(left - 1) : AlignsAgree(k)
                 PROVE  left \in Nat /\ \A k \in 0..left : AlignsAgree(k)
        OBVIOUS
    <2>1. AlignsAgree(left)
        BY <1>0, AlignAgrees
    <2>2. left \in Nat /\ \A k \in 0..left : k = left \/ k \in 0..(left - 1)
        BY <1>0
    <2> QED BY <2>1, <2>2
<1>3. \A left \in 0..MaxDepth : left \in P
    <2> HIDE DEF P
    <2> QED BY <1>0, <1>1, <1>2, CountingUp
<1>4. AlignsAgree(MaxDepth) /\ MaxDepth \in 0..MaxDepth
    BY <1>0, <1>3
<1>5. ASSUME NEW i \in Types PROVE Bounds(TypeAlign(i), Fact(i), TRUE)
    <2>1. i \in DOMAIN pdb.types /\ FactFits(Fact(i))
        BY TypeIs
    <2>2. Fact(i).steps <= MaxDepth
        BY <1>0, <2>1 DEF FactFits
    <2>3. TypeAlign(i) = AlignWithin[MaxDepth][i]
        BY <2>1 DEF TypeAlign, OfType
    <2>4. Bounds(AlignWithin[MaxDepth][i], Fact(i), Fact(i).steps <= MaxDepth)
        BY <1>4 DEF AlignsAgree
    <2> QED BY <2>2, <2>3, <2>4 DEF Bounds
<1>6. ASSUME NEW i, i \notin Types PROVE Bounds(TypeAlign(i), Fact(i), TRUE)
    <2>1. Fact(i) = Unknown
        BY <1>6 DEF Fact
    <2>2. TypeAlign(i) = None
        BY <1>4, <1>6, NoTypeNoAlign DEF TypeAlign, OfType
    <2> QED BY <2>1, <2>2, UnknownBounds
<1> QED BY <1>5, <1>6

-----------------------------------------------------------------------------
(* What is empty.                                                          *)

\* What is found is so, and what is so is found once near enough.
Follows(found, fact, near) == (found => fact) /\ (fact /\ near => found)

EmptiesAgree(left) ==
    \A i \in Types : Follows(EmptyWithin[left][i], Fact(i).empty, Fact(i).steps <= left)

InnerEmpty(left, of) == left > 0 /\ of \in DOMAIN pdb.types /\ EmptyWithin[left - 1][of]

LEMMA NoTypeNotEmpty ==
    ASSUME pdb \in Pdbs, NEW left \in 0..MaxDepth, NEW i \in DOMAIN pdb.types, i \notin Types
    PROVE  ~EmptyWithin[left][i]
<1>1. EmptyWithin[left][i] = EmptyFrom(left, EmptyWithin, i)
    BY EmptyWithinIs
<1>2. Data(i) = None \/ Data(i).is \notin TypeKinds
    BY DEF Types, Is
<1>3. ~EmptyFrom(left, EmptyWithin, i)
    BY <1>2 DEF EmptyFrom, TypeKinds, Is
<1> QED BY <1>1, <1>3

LEMMA InnerEmptyFollows ==
    ASSUME pdb \in Pdbs, Written, NEW left \in 0..MaxDepth, left # 0 => EmptiesAgree(left - 1), NEW of
    PROVE  Follows(InnerEmpty(left, of), Fact(of).empty, Fact(of).steps < left)
<1>0. MaxDepth \in Nat /\ None \notin Nat
    BY RecordAssumption
<1>1. FactFits(Fact(of))
    BY <1>0, FactsFit
<1>2. Fact(of).steps \in Nat /\ left \in Nat
    BY <1>0, <1>1 DEF FactFits
<1>3. CASE left = 0
    <2>1. ~(Fact(of).steps < left) /\ ~(left > 0)
        BY <1>2, <1>3
    <2> QED BY <2>1 DEF Follows, InnerEmpty
<1>4. CASE left # 0
    <2>1. left - 1 \in 0..MaxDepth /\ left > 0
        BY <1>0, <1>4
    <2>2. CASE of \in Types
        <3>1. InnerEmpty(left, of) <=> EmptyWithin[left - 1][of]
            BY <2>1, <2>2 DEF InnerEmpty, Types
        <3>2. Follows(EmptyWithin[left - 1][of], Fact(of).empty, Fact(of).steps <= left - 1)
            BY <1>4, <2>2 DEF EmptiesAgree
        <3>3. Fact(of).steps < left => Fact(of).steps <= left - 1
            <4> DEFINE s == Fact(of).steps
            <4>1. s \in Nat
                BY <1>2
            <4> HIDE DEF s
            <4>2. s < left => s <= left - 1
                BY <1>2, <4>1
            <4> QED BY <4>2 DEF s
        <3> QED BY <3>1, <3>2, <3>3 DEF Follows
    <2>3. CASE of \notin Types
        <3>1. ~Fact(of).empty
            BY <2>3 DEF Fact, Unknown
        <3>2. ~InnerEmpty(left, of)
            BY <2>1, <2>3, NoTypeNotEmpty DEF InnerEmpty
        <3> QED BY <3>1, <3>2 DEF Follows
    <2> QED BY <2>2, <2>3
<1> QED BY <1>3, <1>4

\* Steps that are needed leave enough of those that there are.
LEMMA FewerSteps ==
    ASSUME Written, NEW left \in 0..MaxDepth, NEW i, NEW of, Fact(of).steps < Fact(i).steps, Fact(i).steps <= left
    PROVE  Fact(of).steps < left
<1>0. MaxDepth \in Nat /\ None \notin Nat
    BY RecordAssumption
<1> DEFINE s == Fact(i).steps
<1> DEFINE t == Fact(of).steps
<1>1. FactFits(Fact(i)) /\ FactFits(Fact(of))
    BY <1>0, FactsFit
<1>2. s \in Nat /\ t \in Nat /\ left \in Nat
    BY <1>0, <1>1 DEF FactFits
<1>3. t < s /\ s <= left
    OBVIOUS
<1> HIDE DEF s, t
<1>4. t < left
    BY <1>2, <1>3
<1> QED BY <1>4 DEF t

LEMMA EmptyAgrees ==
    ASSUME pdb \in Pdbs, Written, NEW left \in 0..MaxDepth, left # 0 => EmptiesAgree(left - 1)
    PROVE  EmptiesAgree(left)
<1> SUFFICES ASSUME NEW i \in Types
             PROVE  Follows(EmptyWithin[left][i], Fact(i).empty, Fact(i).steps <= left)
    BY DEF EmptiesAgree
<1> DEFINE type == Data(i)
<1>0. MaxDepth \in Nat /\ None \notin Nat
    BY RecordAssumption
<1>1. /\ i \in DOMAIN pdb.types /\ type # None /\ TypeWritten(i)
    BY TypeIs
<1>2. EmptyWithin[left][i] = EmptyFrom(left, EmptyWithin, i)
    BY <1>1, EmptyWithinIs
<1>3. CASE type.is \in {"primitive", "pointer", "enum", "array", "bitfield", "union"}
    <2>1. ~EmptyFrom(left, EmptyWithin, i)
        BY <1>1, <1>3 DEF EmptyFrom, Is
    <2>2. ~Fact(i).empty
        <3>1. CASE type.is = "union"
            <4>1. (\E d : Means(i, d)) \/ Fact(i) = Unknown
                BY <3>1, AggregateMeans
            <4>2. CASE Fact(i) = Unknown
                BY <4>2 DEF Unknown
            <4>3. CASE \E d : Means(i, d)
                <5>1. PICK d : Means(i, d)
                    BY <4>3
                <5> QED BY <3>1, <5>1 DEF Means, DefinitionWritten
            <4> QED BY <4>1, <4>2, <4>3
        <3>2. CASE type.is # "union"
            <4>1. i \notin Aggregates(FALSE) /\ i \notin Aggregates(TRUE)
                BY <1>3, <3>2 DEF Aggregates, Is
            <4> QED BY <1>1, <1>3, <3>2, <4>1
                    DEF TypeWritten, PrimitiveWritten, PointerWritten, DerivedWritten
        <3> QED BY <3>1, <3>2
    <2> QED BY <1>2, <2>1, <2>2 DEF Follows
<1>4. CASE type.is = "modifier"
    <2>1. i \notin Aggregates(FALSE) /\ i \notin Aggregates(TRUE)
        BY <1>4 DEF Aggregates, Is
    <2>2. DerivedWritten(i)
        BY <1>1, <1>4, <2>1 DEF TypeWritten
    <2>3. EmptyFrom(left, EmptyWithin, i) <=> InnerEmpty(left, type.of)
        BY <1>1, <1>4 DEF EmptyFrom, InnerEmpty, Is
    <2>4. Fact(i).empty <=> Fact(type.of).empty
        BY <1>4, <2>2 DEF DerivedWritten
    <2>5. Fact(i).empty => Fact(type.of).steps < Fact(i).steps
        BY <2>2 DEF DerivedWritten, Told
    <2>6. Follows(InnerEmpty(left, type.of), Fact(type.of).empty, Fact(type.of).steps < left)
        BY InnerEmptyFollows
    <2>7. Fact(i).empty /\ Fact(i).steps <= left => Fact(type.of).steps < left
        BY <2>5, FewerSteps
    <2> QED BY <1>2, <2>3, <2>4, <2>6, <2>7 DEF Follows
<1>5. CASE type.is = "class"
    <2>1. CASE Complete(type) = None /\ Fact(i) = Unknown
        <3>1. ~EmptyFrom(left, EmptyWithin, i)
            BY <1>1, <1>5, <2>1 DEF EmptyFrom, Is
        <3> QED BY <1>2, <2>1, <3>1 DEF Follows, Unknown
    <2>2. CASE \E d : Means(i, d)
        <3>1. PICK d : Means(i, d)
            BY <2>2
        <3> DEFINE fields == Fields(Data(d))
        <3>2. /\ Complete(type) = Data(d) /\ Data(d) # None /\ Fact(i) = Fact(d) /\ DefinitionWritten(d)
              /\ Data(d).is = "class"
            BY <1>5, <3>1 DEF Means
        <3>3. FieldsOf(Data(d)) = AllFields(Data(d))
            BY <3>2, FieldsRead DEF DefinitionWritten
        <3>4. EmptyFrom(left, EmptyWithin, i) <=>
                  \A field \in fields :
                      /\ field.is \notin {"member", "vfptr", "virtual"}
                      /\ field.is = "base" => InnerEmpty(left, field.type)
            BY <1>1, <1>5, <3>2, <3>3 DEF EmptyFrom, InnerEmpty, Is, Fields
        <3>5. Fact(i).empty <=>
                  \A field \in fields :
                      /\ field.is \notin {"member", "vfptr", "virtual"}
                      /\ field.is = "base" => Fact(field.type).empty
            BY <3>2 DEF DefinitionWritten
        <3>6. ASSUME NEW field \in fields, field.is = "base"
              PROVE  /\ InnerEmpty(left, field.type) => Fact(field.type).empty
                     /\ Fact(i).empty /\ Fact(i).steps <= left => InnerEmpty(left, field.type)
            <4>1. Follows(InnerEmpty(left, field.type), Fact(field.type).empty, Fact(field.type).steps < left)
                BY InnerEmptyFollows
            <4>2. Fact(i).empty => Fact(field.type).steps + 2 <= Fact(i).steps
                BY <3>2, <3>6 DEF DefinitionWritten, Told, Parts
            <4>3. Fact(i).empty => Fact(field.type).steps < Fact(i).steps
                <5> DEFINE s == Fact(i).steps
                <5> DEFINE t == Fact(field.type).steps
                <5>1. FactFits(Fact(i)) /\ FactFits(Fact(field.type))
                    BY <1>0, FactsFit
                <5>2. s \in Nat /\ t \in Nat
                    BY <1>0, <5>1 DEF FactFits
                <5>3. Fact(i).empty => t + 2 <= s
                    BY <4>2
                <5> HIDE DEF s, t
                <5>4. Fact(i).empty => t < s
                    BY <5>2, <5>3
                <5> QED BY <5>4 DEF s, t
            <4>4. Fact(i).empty /\ Fact(i).steps <= left => Fact(field.type).steps < left
                BY <4>3, FewerSteps
            <4>5. Fact(i).empty => Fact(field.type).empty
                BY <3>5, <3>6
            <4> QED BY <4>1, <4>4, <4>5 DEF Follows
        <3> HIDE DEF fields
        <3> QED BY <1>2, <3>4, <3>5, <3>6 DEF Follows
    <2> QED BY <1>5, <2>1, <2>2, AggregateMeans
<1> QED BY <1>3, <1>4, <1>5, TypeIs DEF TypeKinds

LEMMA EmptiesRead ==
    ASSUME pdb \in Pdbs, Written
    PROVE  \A i : TypeIsEmpty(i) = Fact(i).empty
<1>0. MaxDepth \in Nat /\ None \notin Nat
    BY RecordAssumption
<1> DEFINE P == {left \in Nat : EmptiesAgree(left)}
<1>1. 0 \in P
    BY <1>0, EmptyAgrees
<1>2. \A left \in 1..MaxDepth : left - 1 \in P => left \in P
    BY <1>0, EmptyAgrees
<1>3. \A left \in 0..MaxDepth : left \in P
    <2> HIDE DEF P
    <2> QED BY <1>0, <1>1, <1>2, CountingUp
<1>4. EmptiesAgree(MaxDepth) /\ MaxDepth \in 0..MaxDepth
    BY <1>0, <1>3
<1>5. ASSUME NEW i PROVE TypeIsEmpty(i) <=> Fact(i).empty
    <2>1. CASE i \in Types
        <3>1. i \in DOMAIN pdb.types /\ FactFits(Fact(i))
            BY <2>1, TypeIs
        <3>2. Fact(i).steps <= MaxDepth
            BY <1>0, <3>1 DEF FactFits
        <3>3. TypeIsEmpty(i) <=> EmptyWithin[MaxDepth][i]
            BY <3>1 DEF TypeIsEmpty
        <3>4. Follows(EmptyWithin[MaxDepth][i], Fact(i).empty, Fact(i).steps <= MaxDepth)
            BY <1>4, <2>1 DEF EmptiesAgree
        <3> QED BY <3>2, <3>3, <3>4 DEF Follows
    <2>2. CASE i \notin Types
        <3>1. ~Fact(i).empty
            BY <2>2 DEF Fact, Unknown
        <3>2. ~TypeIsEmpty(i)
            BY <1>4, <2>2, NoTypeNotEmpty DEF TypeIsEmpty
        <3> QED BY <3>1, <3>2
    <2> QED BY <2>1, <2>2
<1>6. \A i : Fact(i).empty \in BOOLEAN
    BY <1>0, FactsFit DEF FactFits
<1>7. \A i : TypeIsEmpty(i) \in BOOLEAN
    BY DEF TypeIsEmpty
<1> QED BY <1>5, <1>6, <1>7

-----------------------------------------------------------------------------
(* Layouts and variables.                                                  *)
LEMMA VirtualsRead ==
    ASSUME pdb \in Pdbs, Written, NEW i \in Aggregates(FALSE)
    PROVE  /\ FieldsOf(Data(i)) = AllFields(Data(i))
           /\ HasVirtualBases(FieldsOf(Data(i))) = Fact(i).virtual
<1>0. DefinitionWritten(i) /\ \A d \in Aggregates(FALSE) : DefinitionWritten(d)
    BY DefinitionsWritten
<1>1. \A d \in Aggregates(FALSE) : FieldsOf(Data(d)) = AllFields(Data(d))
    BY <1>0, FieldsRead DEF DefinitionWritten
<1>2. ASSUME NEW d \in Aggregates(FALSE) PROVE HasVirtual(FieldsOf(Data(d))) <=> Fact(d).virtual
    <2>1. Fact(d).virtual = \E field \in Fields(Data(d)) : field.is = "virtual"
        BY <1>0 DEF DefinitionWritten
    <2>2. HasVirtual(FieldsOf(Data(d))) <=> \E field \in Fields(Data(d)) : field.is = "virtual"
        BY <1>1 DEF HasVirtual, Fields
    <2> QED BY <2>1, <2>2
<1>3. ASSUME NEW field \in Fields(Data(i)), field.is = "base", Is(Data(field.type), {"class", "union"}),
             Definition(Data(field.type).name) # None,
             HasVirtual(FieldsOf(Definition(Data(field.type).name)))
      PROVE  Fact(i).virtual
    <2> DEFINE of == field.type
    <2>1. Fact(of).virtual => Fact(i).virtual
        BY <1>0, <1>3 DEF DefinitionWritten
    <2>2. of \in DOMAIN pdb.types
        BY <1>3 DEF Is, Data
    <2>3. of \in Types
        BY <1>3, <2>2 DEF Types, Is, TypeKinds
    <2>4. TypeWritten(of)
        BY <2>3, TypeIs
    <2>5. CASE of \in Aggregates(FALSE)
        <3>0. DefinitionWritten(i) /\ field \in Fields(Data(i)) /\ field.is = "base" /\ of \in Aggregates(FALSE)
            BY <1>0, <1>3, <2>5
        <3> HIDE DEF of
        <3>1. Named(Data(of).name, of)
            BY <3>0 DEF DefinitionWritten, of
        <3>4. Definition(Data(of).name) = Data(of)
            BY <3>1, DefinitionIs
        <3>2. HasVirtual(FieldsOf(Data(of)))
            BY <1>3, <3>4 DEF of
        <3>3. Fact(of).virtual
            BY <1>2, <2>5, <3>2
        <3> QED BY <2>1, <3>3
    <2>6. CASE of \in Aggregates(TRUE) /\ ForwardWritten(of)
        <3>1. PICK d \in Aggregates(FALSE) : Named(Data(of).name, d) /\ Fact(of) = Fact(d)
            BY <1>3, <2>6, NotDefined DEF ForwardWritten
        <3>2. Definition(Data(of).name) = Data(d)
            BY <3>1, DefinitionIs
        <3>3. HasVirtual(FieldsOf(Data(d)))
            BY <1>3, <3>2
        <3>4. Fact(of).virtual
            BY <1>2, <3>1, <3>3
        <3> QED BY <2>1, <3>4
    <2> QED BY <1>3, <2>4, <2>5, <2>6 DEF TypeWritten, Is
<1>4. HasVirtualBases(FieldsOf(Data(i))) <=> Fact(i).virtual
    <2>1. Range(FieldsOf(Data(i))) = Fields(Data(i))
        BY <1>1 DEF Fields
    <2>2. HasVirtual(FieldsOf(Data(i))) <=> Fact(i).virtual
        BY <1>2
    <2> QED BY <1>3, <2>1, <2>2 DEF HasVirtualBases
<1>5. MaxDepth \in Nat /\ None \notin Nat
    BY RecordAssumption
<1>6. Fact(i).virtual \in BOOLEAN
    BY <1>5, FactsFit DEF FactFits
<1>7. HasVirtualBases(FieldsOf(Data(i))) \in BOOLEAN
    BY DEF HasVirtualBases
<1> QED BY <1>1, <1>4, <1>6, <1>7

LEMMA WrapIs == \A n \in Addresses : Wrap(n) = n
BY WidthAssumption DEF Addresses, Wrap

LEMMA BitsAre == \A n \in Nat : 8 * n \in Addresses => Bits(n) = 8 * n
<1> SUFFICES ASSUME NEW n \in Nat, 8 * n \in Addresses PROVE Bits(n) = 8 * n
    OBVIOUS
<1>1. n * 8 = 8 * n
    OBVIOUS
<1> QED BY <1>1, WrapIs DEF Bits

\* An entry, and what the compiler knows of it.
EntryAlike(e, r) == e.at = r.at /\ e.what = r.what /\ e.offset = r.offset /\ e.size = r.size

FieldAlike(e, r) ==
    /\ e.empty = r.empty
    /\ IF r.hidden THEN e.align = None
       ELSE IF r.raised THEN e.align # None /\ e.align <= r.align
       ELSE e.align = r.align

LEMMA EntryRead ==
    ASSUME pdb \in Pdbs, Written, NEW field, NEW real, PlacedAt(field, real),
           real.offset \in Addresses \cup {None}, real.size \in Addresses
    PROVE  /\ EntryAlike(LayoutEntry(field, real.at), real)
           /\ LayoutEntry(field, real.at).what = "field" => FieldAlike(LayoutEntry(field, real.at), real)
<1> DEFINE of == field.type
<1> DEFINE entry == LayoutEntry(field, real.at)
<1> DEFINE bytes == Or(Fact(of).size, 0)
<1> DEFINE size == Bits(Or(TypeSize(of), 0))
<1>0. MaxDepth \in Nat /\ None \notin Nat /\ pdb.addressSize \in Nat /\ Addresses \subseteq Nat
    BY RecordAssumption, RecordShape, WidthAssumption DEF Addresses
<1>1. bytes \in Nat /\ TypeSize(of) = Fact(of).size
    <2>1. Fact(of).size \in Nat \cup {None}
        BY <1>0, FactsFit DEF FactFits
    <2> QED BY <2>1, SizesRead DEF Or
<1>2. size = Bits(bytes)
    BY <1>1
<1>3. real.size = 8 * bytes => size = real.size
    <2> HIDE DEF bytes, size
    <2> QED BY <1>1, <1>2, BitsAre
<1>4. CASE field.is = "vfptr" /\ real.what = "vptr" /\ real.offset = 0 /\ real.size = 8 * pdb.addressSize
    <2>1. entry = [at |-> real.at, what |-> "vptr", offset |-> 0, size |-> Bits(pdb.addressSize)]
        BY <1>4 DEF LayoutEntry
    <2>2. Bits(pdb.addressSize) = real.size
        BY <1>0, <1>4, BitsAre
    <2> HIDE DEF entry
    <2>3. EntryAlike(entry, real) /\ entry.what # "field"
        BY <1>4, <2>1, <2>2 DEF EntryAlike
    <2> QED BY <2>3 DEF entry
<1>5. CASE /\ field.is = "base" /\ real.what = "base" /\ field.offset \in Nat
           /\ real.offset = 8 * field.offset /\ real.size = 8 * bytes
    <2>1. entry = [at |-> real.at, what |-> "base", offset |-> Bits(field.offset), size |-> size]
        BY <1>5 DEF LayoutEntry
    <2>2. Bits(field.offset) = real.offset
        <3>1. real.offset \in Nat
            BY <1>5
        <3>2. real.offset \in Addresses
            BY <1>0, <3>1
        <3> QED BY <1>5, <3>2, BitsAre
    <2>3. size = real.size
        BY <1>3, <1>5
    <2> HIDE DEF entry, size
    <2>4. EntryAlike(entry, real) /\ entry.what # "field"
        BY <1>5, <2>1, <2>2, <2>3 DEF EntryAlike
    <2> QED BY <2>4 DEF entry
<1>6. CASE /\ field.is = "virtual" /\ field.direct /\ real.what = "virtual base"
           /\ real.offset = None /\ real.size = 8 * bytes
    <2>1. entry = [at |-> real.at, what |-> "virtual base", offset |-> None, size |-> size]
        BY <1>6 DEF LayoutEntry
    <2>2. size = real.size
        BY <1>3, <1>6
    <2> HIDE DEF entry, size
    <2>3. EntryAlike(entry, real) /\ entry.what # "field"
        BY <1>6, <2>1, <2>2 DEF EntryAlike
    <2> QED BY <2>3 DEF entry
<1>7. CASE /\ field.is = "member" /\ Is(Data(of), {"bitfield"}) /\ real.what = "bitfield"
           /\ field.offset \in Nat /\ Data(of).position \in Nat
           /\ real.offset = 8 * field.offset + Data(of).position /\ real.size = Data(of).length
    <2>1. entry = [at |-> real.at, what |-> "bitfield", offset |-> Wrap(Bits(field.offset) + Data(of).position),
                   size |-> Data(of).length]
        BY <1>7 DEF LayoutEntry
    <2>2. Wrap(Bits(field.offset) + Data(of).position) = real.offset
        <3> DEFINE m == field.offset
        <3> DEFINE n == Data(of).position
        <3> DEFINE offset == real.offset
        <3>1. m \in Nat /\ n \in Nat /\ offset = 8 * m + n /\ offset \in Addresses \cup {None}
            BY <1>7
        <3> HIDE DEF m, n, offset
        <3>2. offset \in Nat
            BY <3>1
        <3>3. offset \in Addresses
            BY <1>0, <3>1, <3>2
        <3>4. 8 * m \in Addresses
            BY <3>1, <3>3, WidthAssumption DEF Addresses
        <3>5. Bits(m) = 8 * m
            BY <3>1, <3>4, BitsAre
        <3>6. Wrap(Bits(m) + n) = offset
            BY <3>1, <3>3, <3>5, WrapIs
        <3> QED BY <3>6 DEF m, n, offset
    <2> HIDE DEF entry
    <2>3. EntryAlike(entry, real) /\ entry.what # "field"
        BY <1>7, <2>1, <2>2 DEF EntryAlike
    <2> QED BY <2>3 DEF entry
<1>8. CASE /\ field.is = "member" /\ ~Is(Data(of), {"bitfield"}) /\ real.what = "field" /\ field.offset \in Nat
           /\ real.offset = 8 * field.offset /\ real.size = 8 * bytes
           /\ real.align = Fact(of).align /\ real.empty = Fact(of).empty
           /\ real.hidden = Fact(of).hidden /\ real.raised = Fact(of).raised
    <2>1. entry = [at |-> real.at, what |-> "field", offset |-> Bits(field.offset), size |-> size,
                   align |-> TypeAlign(of), empty |-> TypeIsEmpty(of)]
        BY <1>8 DEF LayoutEntry
    <2>2. Bits(field.offset) = real.offset
        <3>1. real.offset \in Nat
            BY <1>8
        <3>2. real.offset \in Addresses
            BY <1>0, <3>1
        <3> QED BY <1>8, <3>2, BitsAre
    <2>3. size = real.size
        BY <1>3, <1>8
    <2>4. TypeIsEmpty(of) = real.empty
        BY <1>8, EmptiesRead
    <2>5. Bounds(TypeAlign(of), Fact(of), TRUE)
        BY AlignsRead
    <2> HIDE DEF entry, size
    <2>6. EntryAlike(entry, real)
        BY <1>8, <2>1, <2>2, <2>3 DEF EntryAlike
    <2>7. FieldAlike(entry, real)
        BY <1>8, <2>1, <2>4, <2>5 DEF FieldAlike, Bounds
    <2> QED BY <2>6, <2>7 DEF entry
<1> HIDE DEF size, entry
<1>9. EntryAlike(entry, real) /\ (entry.what = "field" => FieldAlike(entry, real))
    BY <1>4, <1>5, <1>6, <1>7, <1>8 DEF PlacedAt, entry
<1> QED BY <1>9 DEF entry

\* A layout, and what the compiler knows of it.
LayoutAlike(l, real) ==
    /\ l.bytes = real.bytes /\ l.virtualBases = real.virtualBases
    /\ {<<e.at, e.what, e.offset, e.size>> : e \in l.entries}
         = {<<e.at, e.what, e.offset, e.size>> : e \in real.entries}
    /\ \A e \in l.entries : \A r \in real.entries :
          e.what = "field" /\ e.at = r.at => FieldAlike(e, r)

LEMMA LayoutRead ==
    ASSUME pdb \in Pdbs, Written, NEW i \in Aggregates(FALSE)
    PROVE  LayoutAlike(Layout(i), pdb.truth[i])
<1> DEFINE real == pdb.truth[i]
<1> DEFINE fields == AllFields(Data(i))
<1> DEFINE shown == {k \in DOMAIN fields : Shown(fields[k])}
<1>1. LayoutWritten(i) /\ DefinitionWritten(i)
    BY DefinitionsWritten DEF Written
<1>2. /\ FieldsOf(Data(i)) = fields /\ HasVirtualBases(fields) = Fact(i).virtual
    BY VirtualsRead
<1>3. /\ Layout(i).bytes = Data(i).bytes
      /\ Layout(i).virtualBases = Fact(i).virtual
      /\ Layout(i).entries = {LayoutEntry(fields[k], k) : k \in shown}
    BY <1>2 DEF Layout
<1>4. Layout(i).bytes = real.bytes /\ Layout(i).virtualBases = real.virtualBases
    BY <1>1, <1>3 DEF LayoutWritten, DefinitionWritten
<1>5. ASSUME NEW r \in real.entries
      PROVE  /\ r.at \in shown /\ EntryAlike(LayoutEntry(fields[r.at], r.at), r)
             /\ LayoutEntry(fields[r.at], r.at).what = "field" => FieldAlike(LayoutEntry(fields[r.at], r.at), r)
    <2>1. r.at \in shown /\ PlacedAt(fields[r.at], r) /\ r.offset \in Addresses \cup {None} /\ r.size \in Addresses
        BY <1>1 DEF LayoutWritten
    <2> QED BY <2>1, EntryRead
<1>6. \A k \in shown : \E r \in real.entries : r.at = k
    BY <1>1 DEF LayoutWritten
<1>7. \A field, k : LayoutEntry(field, k).at = k
    BY DEF LayoutEntry
<1> HIDE DEF shown, real, fields
<1>8. ASSUME NEW e \in Layout(i).entries PROVE \E r \in real.entries : EntryAlike(e, r)
    <2>1. PICK k \in shown : e = LayoutEntry(fields[k], k)
        BY <1>3
    <2>2. PICK r \in real.entries : r.at = k
        BY <1>6
    <2> QED BY <1>5, <2>1, <2>2
<1>9. ASSUME NEW r \in real.entries PROVE \E e \in Layout(i).entries : EntryAlike(e, r)
    BY <1>3, <1>5
<1>10. ASSUME NEW e \in Layout(i).entries, NEW r \in real.entries, e.what = "field", e.at = r.at
       PROVE  FieldAlike(e, r)
    <2>1. PICK k \in shown : e = LayoutEntry(fields[k], k)
        BY <1>3
    <2>2. k = r.at
        BY <1>7, <1>10, <2>1
    <2> QED BY <1>5, <1>10, <2>1, <2>2
<1>11. {<<e.at, e.what, e.offset, e.size>> : e \in Layout(i).entries}
         = {<<e.at, e.what, e.offset, e.size>> : e \in real.entries}
    BY <1>8, <1>9 DEF EntryAlike
<1> QED BY <1>4, <1>10, <1>11 DEF LayoutAlike, real

LEMMA DeclaredRead ==
    ASSUME pdb \in Pdbs, Written
    PROVE  Declared = pdb.declared
<1>0. DeclarationsWritten
    BY DEF Written
<1>1. ASSUME NEW name \in pdb.declared PROVE name \in Declared
    <2>1. \E i \in Aggregates(TRUE) : Data(i).name = name
        BY <1>0 DEF DeclarationsWritten
    <2>2. Definition(name) = None
        BY <1>0, NotDefined DEF DeclarationsWritten
    <2> QED BY <2>1, <2>2 DEF Declared
<1>2. ASSUME NEW name \in Declared PROVE name \in pdb.declared
    <2>1. PICK i \in Aggregates(TRUE) : Data(i).name = name /\ Definition(name) = None
        BY DEF Declared
    <2>2. ASSUME NEW d \in Aggregates(FALSE), Data(d).name = name PROVE FALSE
        <3>1. PICK first : Named(name, first)
            BY <2>2, SomeDefined
        <3>2. Definition(name) = Data(first) /\ Data(first) # None
            BY <3>1, DefinitionIs, DefinitionsWritten DEF Named
        <3> QED BY <2>1, <3>2
    <2> QED BY <1>0, <2>1, <2>2 DEF DeclarationsWritten
<1> QED BY <1>1, <1>2

LEMMA VariablesRead ==
    ASSUME pdb \in Pdbs, Written
    PROVE  Variables = pdb.truthOfVariables
<1> DEFINE known ==
        {data \in Range(pdb.globals) : data.is = "data" /\ Address(data.place) # None /\ TypeSize(data.type) # None}
<1> DEFINE placed ==
        {data \in Range(pdb.globals) : data.is = "data" /\ pdb.rva[data.place] # None /\ Fact(data.type).size # None}
<1>0. None \notin Addresses
    BY RecordAssumption, WidthAssumption DEF Addresses
<1>1. /\ \A data \in placed : pdb.imageBase + pdb.rva[data.place] \in Addresses
      /\ pdb.truthOfVariables = {[name |-> data.name, address |-> pdb.imageBase + pdb.rva[data.place],
                                  size |-> Fact(data.type).size] : data \in placed}
    BY DEF Written, VariablesWritten
<1>2. Variables = {[name |-> data.name, address |-> Address(data.place), size |-> TypeSize(data.type)] : data \in known}
    BY DEF Variables
<1>3. \A data : TypeSize(data.type) = Fact(data.type).size
    BY SizesRead
<1>4. \A data \in placed : Address(data.place) = pdb.imageBase + pdb.rva[data.place]
    BY <1>1, WrapIs DEF Address
<1>5. known = placed
    <2>1. \A data \in placed : Address(data.place) # None
        <3> HIDE DEF placed
        <3> QED BY <1>0, <1>1, <1>4
    <2>2. \A place : Address(place) # None => pdb.rva[place] # None
        BY DEF Address
    <2>3. \A data \in placed : data \in known
        BY <1>3, <2>1
    <2>4. \A data \in known : data \in placed
        BY <1>3, <2>2
    <2> HIDE DEF known, placed
    <2> QED BY <2>3, <2>4
<1> HIDE DEF known, placed
<1> QED BY <1>1, <1>2, <1>3, <1>4, <1>5

-----------------------------------------------------------------------------
(* What is written stays, for the file does.                               *)
LEMMA SameTypes ==
    ASSUME pdb' = pdb
    PROVE  /\ Types' = Types /\ \A i : Data(i)' = Data(i) /\ Fact(i)' = Fact(i)
           /\ \A forward : Aggregates(forward)' = Aggregates(forward)
           /\ \A type, kinds : Is(type, kinds)' = Is(type, kinds)
           /\ \A type : AllFields(type)' = AllFields(type) /\ Fields(type)' = Fields(type)
                        /\ Parts(type)' = Parts(type)
<1>1. \A i : Data(i)' = Data(i)
    BY DEF Data
<1>2. Types' = Types
    BY <1>1 DEF Types
<1>3. \A i : Fact(i)' = Fact(i)
    BY <1>1, <1>2 DEF Fact
<1>4. \A forward : Aggregates(forward)' = Aggregates(forward)
    BY <1>1 DEF Aggregates
<1>5. \A type : AllFields(type)' = AllFields(type)
    BY <1>1 DEF AllFields
<1>6. \A type : Fields(type)' = Fields(type)
    BY <1>5 DEF Fields
<1>7. \A type : Parts(type)' = Parts(type)
    BY <1>6 DEF Parts
<1> QED BY <1>1, <1>2, <1>3, <1>4, <1>5, <1>6, <1>7 DEF Is

LEMMA SameTypesWritten ==
    ASSUME pdb' = pdb
    PROVE  \A i : TypeWritten(i)' = TypeWritten(i)
<1>1. /\ Types' = Types /\ \A i : Data(i)' = Data(i) /\ Fact(i)' = Fact(i)
      /\ \A forward : Aggregates(forward)' = Aggregates(forward)
      /\ \A type : AllFields(type)' = AllFields(type) /\ Fields(type)' = Fields(type)
                   /\ Parts(type)' = Parts(type)
    BY SameTypes
<1>2. \A i : PrimitiveWritten(i)' = PrimitiveWritten(i) /\ PointerWritten(i)' = PointerWritten(i)
    BY <1>1 DEF PrimitiveWritten, PointerWritten
<1>3. \A i : DerivedWritten(i)' = DerivedWritten(i)
    BY <1>1 DEF DerivedWritten, AlignedAs
<1>4. \A name, i : Named(name, i)' = Named(name, i)
    BY <1>1 DEF Named
<1>5. \A field : FieldAlign(field)' = FieldAlign(field)
    BY <1>1 DEF FieldAlign
<1>6. ASSUME NEW i PROVE DefinitionWritten(i)' = DefinitionWritten(i)
    <2> DEFINE aligns == {FieldAlign(field) : field \in Fields(Data(i))}
    <2>1. aligns' = aligns
        BY <1>1, <1>5
    <2>2. Max(aligns \cup {1})' = Max(aligns \cup {1})
        <3> HIDE DEF aligns
        <3> QED BY <2>1
    <2> QED BY <1>1, <1>4, <2>2 DEF DefinitionWritten
<1>7. \A i : ForwardWritten(i)' = ForwardWritten(i)
    BY <1>1, <1>4 DEF ForwardWritten
<1> QED BY <1>1, <1>2, <1>3, <1>6, <1>7 DEF TypeWritten

LEMMA SameWritten ==
    ASSUME pdb' = pdb
    PROVE  Written' = Written
<1>1. /\ Types' = Types /\ \A i : Data(i)' = Data(i) /\ Fact(i)' = Fact(i)
      /\ \A forward : Aggregates(forward)' = Aggregates(forward)
      /\ \A type : AllFields(type)' = AllFields(type)
    BY SameTypes
<1>2. \A list : ListWritten(list)' = ListWritten(list)
    BY <1>1 DEF ListWritten
<1>3. ASSUME NEW field, NEW real PROVE PlacedAt(field, real)' = PlacedAt(field, real)
    <2> DEFINE type == Data(field.type)
    <2> DEFINE fact == Fact(field.type)
    <2>1. type' = type /\ fact' = fact
        BY <1>1
    <2> HIDE DEF type, fact
    <2>2. Or(fact.size, 0)' = Or(fact.size, 0) /\ Is(type, {"bitfield"})' = Is(type, {"bitfield"})
        BY <2>1 DEF Or, Is
    <2>3. pdb.addressSize' = pdb.addressSize
        OBVIOUS
    <2> DEFINE placed ==
            LET size == 8 * Or(fact.size, 0)
            IN \/ /\ field.is = "vfptr" /\ real.what = "vptr"
                  /\ real.offset = 0 /\ real.size = 8 * pdb.addressSize
               \/ /\ field.is = "base" /\ real.what = "base" /\ field.offset \in Nat
                  /\ real.offset = 8 * field.offset /\ real.size = size
               \/ /\ field.is = "virtual" /\ field.direct /\ real.what = "virtual base"
                  /\ real.offset = None /\ real.size = size
               \/ /\ field.is = "member" /\ Is(type, {"bitfield"}) /\ real.what = "bitfield"
                  /\ field.offset \in Nat /\ type.position \in Nat
                  /\ real.offset = 8 * field.offset + type.position /\ real.size = type.length
               \/ /\ field.is = "member" /\ ~Is(type, {"bitfield"}) /\ real.what = "field" /\ field.offset \in Nat
                  /\ real.offset = 8 * field.offset /\ real.size = size
                  /\ real.align = fact.align /\ real.empty = fact.empty
                  /\ real.hidden = fact.hidden /\ real.raised = fact.raised
    <2>4. placed' = placed
        BY <2>1, <2>2, <2>3
    <2>5. PlacedAt(field, real) = placed
        BY Zenon DEF PlacedAt, type, fact
    <2>6. PlacedAt(field, real)' = placed'
        BY Zenon DEF PlacedAt, type, fact
    <2> HIDE DEF placed
    <2> QED BY <2>4, <2>5, <2>6
<1>4. \A i : LayoutWritten(i)' = LayoutWritten(i)
    BY <1>1, <1>3 DEF LayoutWritten
<1>5. DeclarationsWritten' = DeclarationsWritten
    BY <1>1 DEF DeclarationsWritten
<1>6. VariablesWritten' = VariablesWritten
    BY <1>1 DEF VariablesWritten
<1> QED BY <1>1, <1>2, <1>4, <1>5, <1>6, SameTypesWritten DEF Written

LEMMA PdbKept == [PdbNext]_pdbVars => pdb' = pdb
<1>1. SymbolStep => pdb' = pdb
    BY DEF SymbolStep, SkipModule, ReadModule, ModulesRead, ReadGlobal, NameStatics, ReadingFails
<1>2. OpenPdb \/ FindTypes \/ FindVariables \/ FindUnits \/ Unimplemented => UNCHANGED symbolVars
    BY DEF OpenPdb, FindTypes, FindVariables, FindUnits, Unimplemented, Answer
<1>3. UNCHANGED symbolVars => pdb' = pdb
    BY DEF symbolVars
<1>4. UNCHANGED pdbVars => UNCHANGED symbolVars
    BY DEF pdbVars
<1> QED BY <1>1, <1>2, <1>3, <1>4 DEF PdbNext, FindSymbols, Answered

-----------------------------------------------------------------------------
(* Layouts and variables come back as they were written.                   *)
TypesAlike(found) ==
    LET complete == {l \in found : ~l.declared}
    IN /\ {l.name : l \in found \ complete} = pdb.declared
       /\ {l.type : l \in complete} = DOMAIN pdb.truth
       /\ \A l \in complete : LayoutAlike(l, pdb.truth[l.type])

LEMMA LayoutsAlike ==
    LayoutsReadBack <=> (query = "types" /\ answer # None /\ answer.status = "ok" => TypesAlike(answer.found))
BY Zenon DEF LayoutsReadBack, TypesAlike, LayoutAlike, FieldAlike

LEMMA TypesRead ==
    ASSUME pdb \in Pdbs, Written
    PROVE  TypesAlike({Layout(i) : i \in Aggregates(FALSE)} \cup {Declaration(name) : name \in Declared})
<1> DEFINE layouts == {Layout(i) : i \in Aggregates(FALSE)}
<1> DEFINE declarations == {Declaration(name) : name \in Declared}
<1>1. \A i : Layout(i).type = i /\ Layout(i).declared = FALSE
    BY DEF Layout
<1>2. \A name : Declaration(name).name = name /\ Declaration(name).declared = TRUE
    BY DEF Declaration
<1> DEFINE found == layouts \cup declarations
<1>3. {l \in found : ~l.declared} = layouts
    BY <1>1, <1>2
<1>4. found \ layouts = declarations
    BY <1>1, <1>2
<1>5. {l.name : l \in declarations} = pdb.declared
    BY <1>2, DeclaredRead
<1>6. {l.type : l \in layouts} = DOMAIN pdb.truth
    BY <1>1 DEF Written
<1>7. \A l \in layouts : LayoutAlike(l, pdb.truth[l.type])
    BY <1>1, LayoutRead
<1> HIDE DEF layouts, declarations
<1>8. TypesAlike(found)
    BY <1>3, <1>4, <1>5, <1>6, <1>7 DEF TypesAlike
<1> QED BY <1>8 DEF layouts, declarations

PdbReadInv == pdb \in Pdbs /\ Written /\ LayoutsReadBack /\ VariablesReadBack

LEMMA PdbReadInvStarts == PdbInit /\ Written => PdbReadInv
BY DEF PdbInit, SymbolInit, PdbReadInv, LayoutsReadBack, VariablesReadBack

LEMMA PdbReadInvKept == PdbReadInv /\ [PdbNext]_pdbVars => PdbReadInv'
<1> SUFFICES ASSUME PdbReadInv, [PdbNext]_pdbVars PROVE PdbReadInv'
    OBVIOUS
<1>0. pdb \in Pdbs /\ Written
    BY DEF PdbReadInv
<1>1. pdb' = pdb /\ (pdb \in Pdbs)' /\ Written'
    BY PdbKept, SameWritten DEF PdbReadInv
<1>3. LayoutsReadBack' <=> (query' = "types" /\ answer' # None /\ answer'.status = "ok" => TypesAlike(answer'.found))
    <2>1. LayoutsReadBack' <=>
              (query' = "types" /\ answer' # None /\ answer'.status = "ok" => TypesAlike(answer.found)')
        BY Zenon DEF LayoutsReadBack, TypesAlike, LayoutAlike, FieldAlike
    <2>2. TypesAlike(answer.found)' <=> TypesAlike(answer'.found)
        BY <1>1 DEF TypesAlike
    <2> QED BY <2>1, <2>2
<1>4. CASE query' = query /\ answer' = answer
    <2>1. LayoutsReadBack'
        BY <1>3, <1>4, LayoutsAlike DEF PdbReadInv
    <2>2. VariablesReadBack'
        BY <1>1, <1>4 DEF PdbReadInv, VariablesReadBack
    <2> QED BY <1>1, <2>1, <2>2 DEF PdbReadInv
<1>5. CASE FindTypes
    <2> DEFINE found == {Layout(i) : i \in Aggregates(FALSE)} \cup {Declaration(name) : name \in Declared}
    <2>0. TypesAlike(found)
        BY <1>0, TypesRead
    <2>1. /\ query' = "types"
          /\ \/ answer' = Failure("Malformed")
             \/ answer'.found = found
        BY <1>5 DEF FindTypes, Asked, Answer, Found
    <2> HIDE DEF found
    <2>2. LayoutsReadBack'
        <3>1. Failure("Malformed").status # "ok"
            BY DEF Failure
        <3> QED BY <1>3, <2>0, <2>1, <3>1
    <2>3. VariablesReadBack'
        BY <2>1 DEF VariablesReadBack
    <2> QED BY <1>1, <2>2, <2>3 DEF PdbReadInv
<1>6. CASE FindVariables
    <2>1. query' = "variables" /\ (answer' = Failure("Malformed") \/ answer'.found = Variables)
        BY <1>6 DEF FindVariables, Asked, Answer, Found
    <2>2. VariablesReadBack'
        BY <1>0, <1>1, <2>1, VariablesRead DEF VariablesReadBack, Failure
    <2>3. LayoutsReadBack'
        BY <1>3, <2>1
    <2> QED BY <1>1, <2>2, <2>3 DEF PdbReadInv
<1>7. CASE OpenPdb \/ FindUnits \/ Unimplemented
    <2>1. query' \notin {"types", "variables"}
        BY <1>7 DEF OpenPdb, FindUnits, Unimplemented, Asked, Answer
    <2>2. LayoutsReadBack'
        BY <1>3, <2>1
    <2>3. VariablesReadBack'
        BY <2>1 DEF VariablesReadBack
    <2> QED BY <1>1, <2>2, <2>3 DEF PdbReadInv
<1>8. CASE FindSymbols \/ Answered \/ UNCHANGED pdbVars
    BY <1>4, <1>8 DEF FindSymbols, Answered, pdbVars
<1> QED BY <1>5, <1>6, <1>7, <1>8 DEF PdbNext

(* In whatever type records are as a compiler writes them, every complete   *)
(* aggregate comes back with its members, bases and bit-fields where the    *)
(* compiler put them, through any references, forward or by name, and any   *)
(* continued lists, with as much of the members' alignment as the records   *)
(* tell; what is only declared comes back as that (PdbReader::find_types).  *)
THEOREM PdbReadsLayoutsBack == PdbSpec /\ Written => []LayoutsReadBack
<1>1. PdbReadInv => LayoutsReadBack
    BY DEF PdbReadInv
<1> QED BY <1>1, PdbReadInvStarts, PdbReadInvKept, PTL DEF PdbSpec

(* And the variables that come back are those in the image whose types are  *)
(* complete, at their addresses and as large (PdbReader::variables).        *)
THEOREM PdbReadsVariablesBack == PdbSpec /\ Written => []VariablesReadBack
<1>1. PdbReadInv => VariablesReadBack
    BY DEF PdbReadInv
<1> QED BY <1>1, PdbReadInvStarts, PdbReadInvKept, PTL DEF PdbSpec

(* The reader's symbols, whatever it is asked for.                          *)
THEOREM PdbReaderNamesAllCode == PdbSpec => []EveryCodeNamed
<1>1. PdbInit => SymbolInv
    BY SymbolInvStarts DEF PdbInit
<1>2. SymbolInv /\ [PdbNext]_pdbVars => SymbolInv'
    <2>1. [PdbNext]_pdbVars => [SymbolStep \/ SymbolsDone]_symbolVars
        BY DEF PdbNext, OpenPdb, FindTypes, FindVariables, FindUnits, Unimplemented, FindSymbols, Answered, Answer,
               pdbVars
    <2> QED BY <2>1, SymbolInvKept
<1>3. SymbolInv => EveryCodeNamed
    BY AllNamed DEF EveryCodeNamed
<1> QED BY <1>1, <1>2, <1>3, PTL DEF PdbSpec
=============================================================================
