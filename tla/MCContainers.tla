---------------------------- MODULE MCContainers ----------------------------
(***************************************************************************)
(* Linkers in small.  A program is a size for each of the parts that it    *)
(* may have; each linker puts it into a file of its format, and notes what *)
(* it put where.  Beside them files whose headers say anything.            *)
(***************************************************************************)
EXTENDS Containers, TLC

Sizes == {size \in [text : {2}, literals : {0, 1}, tdata : {0, 1}, tbss : {0, 3},
                    data : {0, 2}, bss : {0, 2}] : size.tdata > 0 \/ size.tbss = 0}

Elf(fields) ==
    fields @@ [is |-> "elf", begins |-> ELF_MAGIC, parses |-> TRUE, class |-> "ELFCLASS64", machine |-> "X86_64", ehsize |-> 2,
               phoff |-> 2, phnum |-> 2, phentsize |-> 1, segments |-> <<>>, sections |-> <<>>,
               symtab |-> <<>>, dynsym |-> <<>>, buildId |-> None, debuglink |-> FALSE,
               linked |-> None, length |-> MaxAddress]

Ph(type, offset, vaddr, paddr, filesz, memsz, flags) ==
    [type |-> type, offset |-> offset, vaddr |-> vaddr, paddr |-> paddr, filesz |-> filesz,
     memsz |-> memsz, flags |-> flags]

Sh(name, type, flags, addr, offset, size) ==
    [name |-> name, type |-> type, flags |-> flags, addr |-> addr, offset |-> offset, size |-> size,
     uncompressed |-> None]

Sym(name, type, shndx, value) ==
    [name |-> name, type |-> type, shndx |-> shndx, xindex |-> 0, value |-> value, size |-> 1]

Found(name, kind, address, section) ==
    [name |-> name, kind |-> kind, address |-> address, section |-> section]

(* GNU ld.  A hosted program's headers are part of its first segment; the  *)
(* data of a microcontroller's is stored behind its code, in flash.        *)
ElfLinked(size, machine, hosted, xindex) ==
    LET text     == IF hosted THEN 24 ELSE 20
        literals == text + size.text
        unwind   == literals + size.literals
        codeEnd  == unwind + 1
        start    == IF hosted THEN 20 ELSE text   \* of the first segment in memory
        offset   == IF hosted THEN 0 ELSE 4       \* and in the file
        place(address) == address - start + offset
        tdata    == 40
        data     == tdata + size.tdata
        bss      == data + size.data
        paddr    == IF hosted THEN tdata ELSE codeEnd
        stored   == size.tdata + size.data
        inFile   == place(codeEnd)
        debug    == inFile + stored
        thumb    == IF machine = "Arm" THEN 1 ELSE 0
        section(s) == IF xindex THEN [s EXCEPT !.xindex = s.shndx, !.shndx = SHN_XINDEX] ELSE s
    IN Elf([machine |-> machine, class |-> IF machine = "Arm" THEN "ELFCLASS32" ELSE "ELFCLASS64",
        length |-> debug + 5, buildId |-> "id",
        segments |->
          << Ph("PT_GNU_STACK", 0, 0, 0, 0, 0, {"PF_R"}),
             Ph("PT_LOAD", offset, start, start, codeEnd - start, codeEnd - start, {"PF_R", "PF_X"}),
             Ph("PT_LOAD", inFile, tdata, paddr, stored, stored + size.bss, {"PF_R", "PF_W"}),
             Ph("PT_TLS", inFile, tdata, paddr, size.tdata, size.tdata + size.tbss, {"PF_R"}) >>,
        sections |->
          << Sh(".text", "SHT_PROGBITS", {"ALLOC", "EXECINSTR"}, text, place(text), size.text),
             Sh(".rodata.str1.1", "SHT_PROGBITS", {"ALLOC", "MERGE"}, literals, place(literals), size.literals),
             Sh(".eh_frame", "SHT_PROGBITS", {"ALLOC"}, unwind, place(unwind), 1),
             Sh(".tdata", "SHT_PROGBITS", {"ALLOC", "WRITE", "TLS"}, tdata, inFile, size.tdata),
             Sh(".tbss", "SHT_NOBITS", {"ALLOC", "WRITE", "TLS"}, data, debug, size.tbss),
             Sh(".data", "SHT_PROGBITS", {"ALLOC", "WRITE"}, data, inFile + size.tdata, size.data),
             Sh(".bss", "SHT_NOBITS", {"ALLOC", "WRITE"}, bss, debug, size.bss),
             [Sh(".debug_info", "SHT_PROGBITS", {}, 0, debug, 2) EXCEPT !.uncompressed = 4],
             Sh(".comment", "SHT_PROGBITS", {"MERGE"}, 0, debug + 2, 1),
             Sh(".symtab", "SHT_SYMTAB", {}, 0, debug + 3, 1),
             Sh(".rela.text", "SHT_RELA", {}, 0, debug + 4, 1) >>,
        symtab |->
          << Sym("a.c", "STT_FILE", SHN_ABS, 0), Sym("", "STT_SECTION", 1, text), Sym("", "STT_SECTION", 9, 0),
             Sym("$t", "STT_NOTYPE", 1, text), section(Sym("main", "STT_FUNC", 1, text + thumb)),
             Sym("counter", "STT_OBJECT", 6, data), Sym("errno", "STT_TLS", 4, 0),
             Sym("etext", "STT_NOTYPE", 1, text + size.text), Sym("stack_top", "STT_NOTYPE", 1, MaxAddress),
             Sym("size", "STT_NOTYPE", SHN_ABS, 3), Sym("puts", "STT_FUNC", SHN_UNDEF, 0) >>,
        linked |->
          [start |-> [arch \in {machine} |-> 0],
           kinds |-> [arch \in {machine} |->
              <<"Code", "Literals", "Unwind", "Tls", "Tls", "Data", "ZeroInit", "Debug", "Metadata",
                "Symtab", "Relocs">>],
           contents |-> [arch \in {machine} |->
              <<size.text, size.literals, 1, size.tdata, 0, size.data, 0, 4, 1, 1, 1>>],
           symbols |-> [arch \in {machine} |->
              {Found("", "Section", text, 1), Found("", "Section", 0, 9), Found("main", "Function", text, 1),
               Found("counter", "Object", data, 6), Found("errno", "Tls", 0, 4),
               Found("etext", "Label", text + size.text, 1), Found("stack_top", "Label", MaxAddress, None),
               Found("size", "Label", 3, None)}
              \cup IF machine = "Arm" THEN {} ELSE {Found("$t", "Label", text, 1)}]]])

(* The linker of a PE image pads raw data, and puts what is zero behind.   *)
Padded(size) == ((size + 3) \div 4) * 4

PeSh(name, flags, rva, pointer, size, zero) ==
    [name |-> name, flags |-> flags, rva |-> rva, rawPointer |-> IF size = 0 THEN 0 ELSE pointer,
     rawSize |-> Padded(size), virtualSize |-> size + zero]

PeLinked(size, base, old) ==
    LET names == << PeSh(".text", {"CNT_CODE", "MEM_EXECUTE", "MEM_READ"}, 8, 4, size.text, 0),
                    PeSh(".rdata", {"CNT_INITIALIZED_DATA", "MEM_READ"}, 16, 8, size.literals + 1, 0),
                    PeSh(".data", {"CNT_INITIALIZED_DATA", "MEM_READ", "MEM_WRITE"}, 24, 12, size.data, size.bss + 1),
                    PeSh(".bss", {"CNT_UNINITIALIZED_DATA", "MEM_READ", "MEM_WRITE"}, 32, 0, 0, size.bss + 1),
                    PeSh(".pdata", {"CNT_INITIALIZED_DATA", "MEM_READ"}, 36, 16, 1, 0),
                    PeSh(".tls", {"CNT_INITIALIZED_DATA", "MEM_READ"}, 40, 20, size.tdata, 1),
                    PeSh(".reloc", {"CNT_INITIALIZED_DATA", "MEM_READ"}, 44, 24, 1, 0) >>
    IN [is |-> "pe", begins |-> <<77, 90, 144, 0>>, signature |-> TRUE, optional |-> IF base < 10 THEN "PE32" ELSE "PE32+",
        parses |-> TRUE, machine |-> "X86_64", base |-> base,
        sizeOfImage |-> 48, sizeOfHeaders |-> 4, pdb |-> "guid", length |-> 28,
        \* Old linkers record no virtual size; sections are full then.
        sections |-> [k \in DOMAIN names |->
            IF old /\ k = 1 THEN [names[k] EXCEPT !.virtualSize = 0] ELSE names[k]],
        linked |->
          [start |-> [arch \in {"X86_64"} |-> 0],
           kinds |-> [arch \in {"X86_64"} |->
              <<"Code", "ReadOnlyData", "Data", "ZeroInit", "Unwind", "Tls", "Relocs">>],
           contents |-> [arch \in {"X86_64"} |-> [k \in DOMAIN names |-> names[k].rawSize]],
           symbols |-> [arch \in {"X86_64"} |-> {}]]]

(* Apple's linker, for an executable or for its companion with the debug   *)
(* info, which has the segments of the executable without their bytes.     *)
Seg(name, vmaddr, vmsize, fileoff, filesize, initprot) ==
    [name |-> name, vmaddr |-> vmaddr, vmsize |-> vmsize, fileoff |-> fileoff, filesize |-> filesize,
     initprot |-> initprot]

Sect(segment, name, type, instructions, addr, size, offset) ==
    [segment |-> segment, name |-> name, type |-> type, instructions |-> instructions,
     addr |-> addr, size |-> size, offset |-> offset]

NList(name, stab, type, sect, value) ==
    [name |-> name, nameOffset |-> IF name = " " THEN 0 ELSE 1, stab |-> stab, type |-> type,
     sect |-> sect, value |-> value]

Slice(size, arch, offset, companion) ==
    LET base == 10
        text == base + 3
        literals == text + size.text
        textEnd  == literals + size.literals + 1
        data == textEnd + 1
        vars1 == data + size.data
        bss  == vars1 + size.tdata
        fileData == data - base
        linkedit == fileData + size.data + size.tdata
        here(at) == IF companion THEN 0 ELSE at
    IN [arch |-> arch, offset |-> offset, is64 |-> TRUE, headerSize |-> 1, sizeofcmds |-> 1,
        length |-> linkedit + 3, uuids |-> <<"uuid">>,
        segments |->
          << Seg("__PAGEZERO", 0, base, 0, 0, {}),
             Seg("__TEXT", base, textEnd + 1 - base, 0, here(textEnd + 1 - base), {"READ", "EXECUTE"}),
             Seg("__DATA", data, size.data + size.tdata + size.bss + 1, here(fileData),
                 here(size.data + size.tdata), {"READ", "WRITE"}),
             Seg("__LINKEDIT", bss + size.bss + 1, 2, linkedit, 2, {"READ"}) >>
          \o IF companion THEN << Seg("__DWARF", 50, 2, linkedit, 2, {"READ"}) >> ELSE <<>>,
        sections |->
          << Sect("__TEXT", "__text", "S_REGULAR", TRUE, text, size.text, here(text - base)),
             Sect("__TEXT", "__cstring", "S_CSTRING_LITERALS", FALSE, literals, size.literals, here(literals - base)),
             Sect("__TEXT", "__unwind_info", "S_REGULAR", FALSE, textEnd - 1, 1, here(textEnd - 1 - base)),
             Sect("__DATA", "__data", "S_REGULAR", FALSE, data, size.data, here(fileData)),
             Sect("__DATA", "__thread_vars", "S_THREAD_LOCAL_VARIABLES", FALSE, vars1, size.tdata, here(vars1 - base)),
             Sect("__DATA", "__bss", "S_ZEROFILL", FALSE, bss, size.bss, here(vars1 - base)) >>
          \o IF companion THEN << Sect("__DWARF", "__debug_info", "S_REGULAR", FALSE, 50, 1, linkedit) >> ELSE <<>>,
        symtab |->
          << NList("", "N_SO", "N_UNDF", 1, 0), NList("a.o", "N_OSO", "N_UNDF", 0, 0), NList(" ", "N_OSO", "N_UNDF", 0, 0),
             NList("_main", None, "N_SECT", 1, text), NList("__mh_execute_header", None, "N_SECT", 1, base),
             NList("_counter", None, "N_SECT", 4, data), NList("_etext", None, "N_SECT", 1, literals),
             NList("_abs", None, "N_ABS", 0, 3), NList("_puts", None, "N_UNDF", 0, 0) >>]

SliceSymbols(s) ==
    LET text == s.sections[1].addr
    IN {Found("_main", "Function", text, 1), Found("__mh_execute_header", "Label", s.segments[2].vmaddr, None),
        Found("_counter", "Object", s.sections[4].addr, 4),
        Found("_etext", "Function", s.sections[2].addr, 1), Found("_abs", "Label", 3, None)}

MachOLinked(begins, slices, length) ==
    LET archs == {slices[k].arch : k \in DOMAIN slices}
        of(arch) == CHOOSE s \in {slices[k] : k \in DOMAIN slices} : s.arch = arch
        kinds == <<"Code", "Literals", "Unwind", "Data", "Tls", "ZeroInit", "Debug">>
    IN [is |-> "macho", begins |-> begins, count |-> Len(slices), parses |-> TRUE, slices |-> slices, length |-> length,
        linked |->
          [start |-> [arch \in archs |-> of(arch).offset],
           kinds |-> [arch \in archs |-> SubSeq(kinds, 1, Len(of(arch).sections))],
           contents |-> [arch \in archs |-> [k \in DOMAIN of(arch).sections |-> of(arch).sections[k].size]],
           symbols |-> [arch \in archs |-> SliceSymbols(of(arch))]]]

Universal(size, other) ==
    LET first  == Slice(size, "X86_64", 4, FALSE)
        second == Slice(other, "Aarch64", 4 + first.length + 1, FALSE)
    IN MachOLinked(<<202, 254, 186, 190>>, <<first, second>>, 4 + first.length + 1 + second.length)

Thin(size, companion) ==
    LET slice == Slice(size, "Aarch64", 0, companion)
    IN MachOLinked(<<207, 250, 237, 254>>, <<slice>>, slice.length)

Same == [text |-> 2, literals |-> 1, tdata |-> 0, tbss |-> 0, data |-> 2, bss |-> 2]

LinkedFiles ==
    {ElfLinked(size, machine, hosted, FALSE) : size \in Sizes, machine \in {"X86_64", "Arm"}, hosted \in BOOLEAN}
    \cup {ElfLinked(Same, "X86_64", TRUE, TRUE)}
    \cup {PeLinked(size, base, FALSE) : size \in Sizes, base \in {4, 12}}
    \cup {PeLinked([size EXCEPT !.text = 4], 4, TRUE) : size \in Sizes}
    \cup {Universal(size, Same) : size \in Sizes}
    \cup {Thin(size, companion) : size \in Sizes, companion \in BOOLEAN}

-----------------------------------------------------------------------------
(* Headers that say anything.                                              *)
Numbers == {0, 5, MaxAddress}

DamagedElf ==
    {Elf([segments |-> <<Ph("PT_LOAD", offset, vaddr, paddr, 4, memsz, {})>>, phoff |-> phoff,
          sections |-> <<Sh(".text", type, {"ALLOC"}, addr, offset, size)>>,
          symtab |-> <<Sym("end", "STT_NOTYPE", section, addr)>>, length |-> 6]) :
        offset \in {1, MaxAddress}, vaddr \in Numbers, paddr \in Numbers, memsz \in Numbers, phoff \in {0, MaxAddress},
        type \in {"SHT_PROGBITS", "SHT_NULL"}, addr \in Numbers, size \in Numbers, section \in {1, 2}}

Bombs ==
    {Elf([sections |-> <<[Sh(".debug_info", "SHT_PROGBITS", {}, 0, 1, size) EXCEPT !.uncompressed = claimed]>>]) :
        size \in {0, 1, 5, 40}, claimed \in Numbers}

DamagedPe ==
    {[PeLinked(Same, base, FALSE) EXCEPT !.linked = None, !.optional = optional,
        !.sections = <<[name |-> ".x", flags |-> {}, rva |-> rva, rawPointer |-> pointer, rawSize |-> raw,
                        virtualSize |-> virtual]>>] :
        optional \in {"PE32", "other"}, base \in Numbers, rva \in Numbers, pointer \in Numbers, raw \in Numbers, virtual \in Numbers}

DamagedMachO ==
    {[Thin(Same, FALSE) EXCEPT !.linked = None,
        !.slices[1].segments = <<Seg("__DATA", vm, size, at, size, {"READ"})>>,
        !.slices[1].sections = <<Sect("__DATA", "__data", "S_REGULAR", FALSE, vm, size, at)>>,
        !.slices[1].symtab = <<NList("_end", None, "N_SECT", 2, vm)>>, \* of a section there is none of
        !.slices[1].offset = offset] :
        offset \in {0, 5, MaxAddress}, vm \in Numbers, size \in Numbers, at \in Numbers}

Others ==
    {Elf([parses |-> FALSE, sections |-> <<>>]), Elf([dynsym |-> <<Sym("f", "STT_GNU_IFUNC", 0, 1)>>])}

-----------------------------------------------------------------------------
(* How files begin.                                                        *)
Beginning(is, begins, count, signature) ==
    [is |-> is, begins |-> begins, count |-> count, signature |-> signature, parses |-> FALSE, linked |-> None]

\* Bytes 5 to 8 of a class file are its minor and its major version, which is 45 or more.
ClassFiles == {Beginning("class", <<202, 254, 186, 190>>, version, FALSE) :
                  version \in {45, 46, 65, 3 * 65536 + 45}}

DosPrograms == {Beginning("dos", <<77, 90, last, 0>>, 3, FALSE) : last \in {0, 144}}

\* Universal binaries of any number of slices, and Mach-O of either width and byte order.
MachOBeginnings ==
    {Beginning("macho", begins, count, FALSE) :
        begins \in {<<202, 254, 186, 190>>, <<202, 254, 186, 191>>}, count \in {0, 1, 2, 44}}
    \cup {Beginning("macho", begins, 7, FALSE) :
        begins \in {<<254, 237, 250, 206>>, <<254, 237, 250, 207>>, <<206, 250, 237, 254>>, <<207, 250, 237, 254>>}}

\* A PE file's signature may be behind the bytes that a probe is given.
PeBeginnings == {Beginning("pe", <<77, 90, 144, 0>>, 3, signature) : signature \in BOOLEAN}

\* Cut short within the first bytes, or of a format that no one reads.
Unknown ==
    {Beginning("none", SubSeq(begins, 1, length), None, FALSE) :
        begins \in {<<127, 69, 76>>, <<77, 90, 144>>, <<202, 254, 186>>, <<207, 250, 237>>}, length \in 0..3}
    \cup {Beginning("none", <<202, 254, 186, 190>>, None, FALSE)}
    \cup {Beginning("none", begins, 2, FALSE) :
        begins \in {<<35, 33, 47, 98>>, <<33, 60, 97, 114>>, <<70, 76, 69, 127>>, <<190, 186, 254, 202>>, <<90, 77, 0, 0>>}}

Beginnings == ClassFiles \cup DosPrograms \cup MachOBeginnings \cup PeBeginnings \cup Unknown

MCWanted == {None, "Aarch64", "Arm"}

MCFiles == LinkedFiles \cup DamagedElf \cup Bombs \cup DamagedPe \cup DamagedMachO \cup Others \cup Beginnings
=============================================================================
