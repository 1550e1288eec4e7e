------------------------------ MODULE ElfFormat ------------------------------
(***************************************************************************)
(* What the ELF reader makes of a file: headers as they stand in it, of    *)
(* which nothing is trusted but what the parser (external) has checked.    *)
(* Sections and symbols are numbered from 1; entry 0 of either table, the  *)
(* null entry, is left out.                                                *)
(***************************************************************************)
EXTENDS Extents

CONSTANTS MaxRatio, RatioSlack \* MAX_COMPRESSION_RATIO and the bytes always granted

ELF_MAGIC == <<127, 69, 76, 70>>

\* file.begins has the file's first four bytes, or as many as there are.
ElfProbe(file) == file.begins = ELF_MAGIC

\* Numbers in the headers fit their fields, and may be any otherwise.
ElfNumbers(file) ==
    /\ {file.length, file.ehsize, file.phoff, file.phnum, file.phentsize} \subseteq Addresses
    /\ DOMAIN file.segments \subseteq Nat
    /\ \A k \in DOMAIN file.segments :
          LET ph == file.segments[k]
          IN {ph.offset, ph.vaddr, ph.paddr, ph.filesz, ph.memsz} \subseteq Addresses
    /\ \A k \in DOMAIN file.sections :
          LET sh == file.sections[k]
          IN {sh.addr, sh.offset, sh.size} \subseteq Addresses /\ sh.uncompressed \in Addresses \cup {None}
    /\ \A entries \in {file.symtab, file.dynsym} : \A k \in DOMAIN entries :
          {entries[k].value, entries[k].size} \subseteq Addresses

\* Section indices of symbols that are none.
SHN_UNDEF  == 0
SHN_ABS    == -1
SHN_COMMON == -2
SHN_XINDEX == -3

Elf64(file) == file.class = "ELFCLASS64"

ElfAddressSize(file) == IF Elf64(file) THEN 8 ELSE 4

ElfArch(file) ==
    IF file.machine # "Riscv" THEN file.machine ELSE IF Elf64(file) THEN "Other" ELSE "Riscv32"

\* Past the program headers, if there are any, else past the file header.
ElfHeadersSize(file) ==
    LET end == file.phoff + file.phnum * file.phentsize
    IN Max({file.ehsize, IF file.phoff = 0 \/ end > MaxAddress THEN 0 ELSE end})

-----------------------------------------------------------------------------
(* Segments.  What is stored of one lies at its physical address.          *)
Loadable(ph) == ph.type = "PT_LOAD"

ElfSegment(ph) ==
    [name |-> None, accessible |-> Loadable(ph) /\ ph.flags # {},
     extent |-> Extent(RangeIf(Loadable(ph), ph.vaddr, ph.memsz),
                       RangeIf(ph.filesz > 0, ph.offset, ph.filesz),
                       RangeIf(Loadable(ph) /\ ph.filesz > 0, ph.paddr, ph.filesz))]

Nobits(sh) == sh.type = "SHT_NOBITS"

\* The segment maps all of the section's addresses, and neither end overflows.
Maps(ph, sh) ==
    /\ Loadable(ph)
    /\ ph.vaddr <= sh.addr
    /\ ph.vaddr + ph.memsz <= MaxAddress
    /\ sh.addr + sh.size <= ph.vaddr + ph.memsz

\* The addition is not checked.
FaultyLoadRange(file, sh) ==
    LET mapping == {k \in DOMAIN file.segments : Maps(file.segments[k], sh)}
        ph      == file.segments[CHOOSE k \in mapping : \A j \in mapping : k <= j]
    IN RangeIf("ALLOC" \in sh.flags /\ ~Nobits(sh) /\ sh.size > 0 /\ mapping # {},
               ph.paddr + (sh.addr - ph.vaddr), sh.size)

\* The load address follows from the first segment that maps the section.
LoadRange(file, sh) ==
    LET mapping == {k \in DOMAIN file.segments : Maps(file.segments[k], sh)}
        ph      == file.segments[CHOOSE k \in mapping : \A j \in mapping : k <= j]
        start   == ph.paddr + (sh.addr - ph.vaddr)
    IN RangeIf("ALLOC" \in sh.flags /\ ~Nobits(sh) /\ sh.size > 0
                   /\ mapping # {} /\ start <= MaxAddress,
               start, sh.size)

-----------------------------------------------------------------------------
(* Sections.                                                               *)
ElfDebugNames  == {".debug_info", ".zdebug_info", ".debug_line"} \* .debug*, .zdebug*
ElfUnwindNames == {".eh_frame", ".eh_frame_hdr", ".gcc_except_table", ".ARM.exidx"}
SymtabTypes    == {"SHT_SYMTAB", "SHT_DYNSYM", "SHT_STRTAB", "SHT_SYMTAB_SHNDX"}
RelocTypes     == {"SHT_REL", "SHT_RELA", "SHT_RELR"}

\* The name decides before the type, and the type before the flags.
ElfKind(sh) ==
    IF sh.name \in ElfDebugNames THEN "Debug"
    ELSE IF sh.name \in ElfUnwindNames THEN "Unwind"
    ELSE IF sh.type \in SymtabTypes THEN "Symtab"
    ELSE IF sh.type \in RelocTypes THEN "Relocs"
    ELSE IF "ALLOC" \notin sh.flags THEN "Metadata"
    ELSE IF "TLS" \in sh.flags THEN "Tls"
    ELSE IF "EXECINSTR" \in sh.flags THEN "Code"
    ELSE IF "MERGE" \in sh.flags THEN "Literals"
    ELSE IF Nobits(sh) THEN "ZeroInit"
    ELSE IF "WRITE" \in sh.flags THEN "Data"
    ELSE "ReadOnlyData"

\* How linkers lay out a program: segments that are loaded lie apart, their stored bytes
\* first, and a section that takes memory lies in one of them, as far behind its start in
\* memory as in the file.  TLS templates are not at their addresses.
ElfConventions(file) ==
    LET loaded == {k \in DOMAIN file.segments : Loadable(file.segments[k])}
    IN /\ \A k \in loaded :
             LET ph == file.segments[k]
             IN /\ ph.filesz <= ph.memsz
                /\ ph.vaddr + ph.memsz <= MaxAddress /\ ph.paddr + ph.memsz <= MaxAddress
       /\ \A j, k \in loaded :
             j # k => Apart(file.segments[j].vaddr, file.segments[j].memsz,
                            file.segments[k].vaddr, file.segments[k].memsz)
       /\ \A k \in DOMAIN file.sections :
             LET sh == file.sections[k]
             IN "ALLOC" \in sh.flags /\ ElfKind(sh) # "Tls" /\ sh.size > 0 =>
                  \E j \in loaded :
                      LET ph == file.segments[j]
                      IN IF Nobits(sh)
                         THEN ph.vaddr + ph.filesz <= sh.addr /\ sh.addr + sh.size <= ph.vaddr + ph.memsz
                         ELSE /\ ph.vaddr <= sh.addr /\ sh.addr + sh.size <= ph.vaddr + ph.filesz
                              /\ sh.offset = ph.offset + (sh.addr - ph.vaddr)
                              /\ sh.type # "SHT_NULL"

ElfSection(file, index) ==
    LET sh == file.sections[index]
    IN [id |-> index, label |-> sh.name, kind |-> ElfKind(sh),
        extent |-> Extent(RangeIf("ALLOC" \in sh.flags, sh.addr, sh.size),
                          RangeIf(~Nobits(sh) /\ sh.type # "SHT_NULL", sh.offset, sh.size),
                          LoadRange(file, sh))]

-----------------------------------------------------------------------------
(* Symbols: those of the static table, else of the dynamic one.            *)
MappingNames == {"$a", "$t", "$d", "$x"}

ElfSymbolKind(type) ==
    IF type \in {"STT_FUNC", "STT_GNU_IFUNC"} THEN "Function"
    ELSE IF type \in {"STT_OBJECT", "STT_COMMON"} THEN "Object"
    ELSE IF type = "STT_TLS" THEN "Tls"
    ELSE IF type = "STT_SECTION" THEN "Section"
    ELSE IF type = "STT_NOTYPE" THEN "Label"
    ELSE "Unknown"

\* Neither undefined nor a file's name, and named; "" is no name.
Reported(file, sym) ==
    /\ sym.shndx # SHN_UNDEF /\ sym.type # "STT_FILE"
    /\ sym.name # "unreadable"
    /\ sym.name # "" \/ sym.type = "STT_SECTION"
    /\ ~(file.machine \in {"Arm", "Aarch64"} /\ sym.name \in MappingNames)

\* The bit is cleared for code and data alike.
FaultyIsThumb(file, sym) == file.machine = "Arm" /\ sym.value % 2 = 1

\* split_thumb_bit
IsThumb(file, sym) ==
    file.machine = "Arm" /\ ElfSymbolKind(sym.type) = "Function" /\ sym.value % 2 = 1

\* The section that a symbol names; index 0 is the null section.
NamedSection(file, sym) ==
    LET index == IF sym.shndx = SHN_XINDEX THEN sym.xindex
                 ELSE IF sym.shndx < 0 THEN None ELSE sym.shndx
    IN IF index # None /\ index <= Len(file.sections) THEN index ELSE None

\* Linkers attach what they define outside of all sections to any of them: a label
\* that does not lie in its section has none.
SymbolSection(file, sym, address) ==
    LET index == NamedSection(file, sym)
        vm    == IF index # None /\ index \in DOMAIN file.sections
                 THEN ElfSection(file, index).extent["vm"] ELSE NoRange
    IN IF sym.type = "STT_NOTYPE" /\ vm # NoRange /\ ~Within(vm, address) THEN None ELSE index

ElfSymbol(file, index, sym) ==
    LET address == IF IsThumb(file, sym) THEN sym.value - 1 ELSE sym.value
    IN [id |-> index, name |-> sym.name, kind |-> ElfSymbolKind(sym.type),
        address |-> address, size |-> sym.size,
        section |-> SymbolSection(file, sym, address), thumb |-> IsThumb(file, sym)]

ElfSymbols(file) ==
    LET entries == IF file.symtab = <<>> THEN file.dynsym ELSE file.symtab
    IN {ElfSymbol(file, k, entries[k]) : k \in {k \in DOMAIN entries : Reported(file, entries[k])}}

-----------------------------------------------------------------------------
ElfLocations(file) ==
    (IF \E k \in DOMAIN file.sections : file.sections[k].name \in {".debug_info", ".zdebug_info"}
     THEN <<"Embedded">> ELSE <<>>)
    \o (IF file.debuglink THEN <<"DebugLink">> ELSE <<>>)
    \o (IF file.buildId # None THEN <<"BuildId">> ELSE <<>>)

ElfImage(file) ==
    IF ~file.parses THEN Malformed
    ELSE [status |-> "ok", id |-> file.buildId, arch |-> ElfArch(file),
          addressSize |-> ElfAddressSize(file),
          headersSize |-> ElfHeadersSize(file), fileSize |-> file.length,
          segments |-> [k \in DOMAIN file.segments |-> ElfSegment(file.segments[k])],
          sections |-> [k \in DOMAIN file.sections |-> ElfSection(file, k)],
          symbols |-> ElfSymbols(file), locations |-> ElfLocations(file)]

\* A linked file is whole: what is stored is in it, the sections that symbols name are there
\* and, if they take memory, have the addresses of all but labels, those with code for Arm
\* begin at even ones, and what is compressed has not shrunk too far.
ElfWhole(file) ==
    /\ \A k \in DOMAIN file.segments :
          LET ph == file.segments[k] IN ph.filesz > 0 => ph.offset + ph.filesz <= file.length
    /\ \A k \in DOMAIN file.sections :
          LET sh == file.sections[k]
          IN /\ ~Nobits(sh) /\ sh.type # "SHT_NULL" => sh.offset + sh.size <= file.length
             /\ "ALLOC" \in sh.flags /\ ~Nobits(sh) /\ sh.size > 0 => sh.type # "SHT_NULL"
             /\ sh.uncompressed # None => sh.uncompressed <= sh.size * MaxRatio + RatioSlack
             /\ ~Nobits(sh) => file.linked.contents[ElfArch(file)][k]
                                 = IF sh.uncompressed = None THEN sh.size ELSE sh.uncompressed
    /\ \A entries \in {file.symtab, file.dynsym} : \A k \in DOMAIN entries :
          LET sym   == entries[k]
              index == NamedSection(file, sym)
          IN Reported(file, sym) /\ index # None =>
               /\ index \in DOMAIN file.sections
               /\ LET sh == file.sections[index]
                  IN "ALLOC" \in sh.flags /\ sym.type \notin {"STT_NOTYPE", "STT_TLS", "STT_SECTION"} =>
                        /\ sh.addr <= sym.value /\ sym.value <= sh.addr + sh.size
                        /\ file.machine = "Arm" /\ ElfSymbolKind(sym.type) = "Function" => sh.addr % 2 = 0
    /\ file.linked.start[ElfArch(file)] = 0

\* Compressed data is read only if it can be what it says it is.
ElfSectionData(file, index) ==
    LET sh == file.sections[index]
    IN IF Nobits(sh) THEN Bytes(sh.offset, 0)
       ELSE IF sh.offset + sh.size > file.length THEN Refused("Malformed")
       ELSE IF sh.uncompressed = None THEN Bytes(sh.offset, sh.size)
       ELSE IF sh.uncompressed > Lesser(Lesser(sh.size * MaxRatio, MaxAddress) + RatioSlack, MaxAddress)
       THEN Refused("LimitExceeded")
       ELSE Bytes(sh.offset, sh.uncompressed)
=============================================================================
