------------------------------ MODULE Segments ------------------------------
(***************************************************************************)
(* From an ELF file to an image in memory: load_elf of loader.rs, which    *)
(* the linker uses, and the ElfReader of phdr.rs, the port of bionic's.    *)
(* Addresses are relative to the reservation; a byte of memory is the      *)
(* offset of the file's byte it holds, Zero, or NoAccess.  Pages have      *)
(* PageSize bytes, and page arithmetic is that of the code.                *)
(***************************************************************************)
EXTENDS Integers, Sequences, SequencesExt, FiniteSets, FiniteSetsExt

CONSTANTS PageSize,     \* bytes of a page
          Layouts,      \* program header tables: sequences of headers
          FileSizes,    \* sizes the file may have
          MaxAddr       \* bound on addresses

ASSUME PageAssumption == PageSize \in Nat \ {0} /\ MaxAddr \in Nat

VARIABLES program,   \* the file: its headers, size and soundness of its tables
          reader,    \* which of the two loads it, and how
          phase, segment,
          memory,    \* contents of the reservation
          refused    \* did an mmap fail

segmentVars == <<program, reader, phase, segment, memory, refused>>

NoAccess == -2
Zero == -1
Addresses == 0 .. MaxAddr

PageStart(a) == (a \div PageSize) * PageSize
PageEnd(a) == PageStart(a + PageSize - 1)

LoadsOf(headers) == SelectSeq(headers, LAMBDA h : h.type = "load")
Loads == LoadsOf(program.headers)

\* The segments of a library as static linkers lay them out: offset and address
\* agree within a page, no two share a page, and only a writable one ends in
\* memory that the file does not have.
LoadHeader == [type : {"load"}, offset : Nat, vaddr : Nat, filesz : Nat, memsz : Nat,
               writable : BOOLEAN]
ASSUME LayoutAssumption ==
    /\ FileSizes \subseteq Nat
    /\ \A l \in Layouts :
          /\ LoadsOf(l) \in Seq(LoadHeader)
          /\ \A i \in 1 .. Len(LoadsOf(l)) : LET h == LoadsOf(l)[i] IN
                /\ h.offset % PageSize = h.vaddr % PageSize
                /\ h.vaddr + h.memsz <= MaxAddr + 1
                /\ h.filesz = h.memsz \/ (h.filesz < h.memsz /\ h.writable)
          /\ \A i, j \in 1 .. Len(LoadsOf(l)) : i < j =>
                PageEnd(LoadsOf(l)[i].vaddr + LoadsOf(l)[i].memsz) <= PageStart(LoadsOf(l)[j].vaddr)

\* The addresses from a to b reserved, every one of them holding v.
Over(a, b, v) == [x \in Addresses |-> IF x \in a .. b - 1 THEN v ELSE memory[x]]

\* A page of a file mapping: past the end of the file it reads as zero.
FileByte(o) == IF o < program.size THEN o ELSE Zero

-----------------------------------------------------------------------------
(* What both make of one segment.                                          *)

\* MAP_FIXED of whole pages of the file at the segment's first page.
FilePages(mem, h) ==
    LET first == PageStart(h.vaddr)
        from == PageStart(h.offset)
        length == h.offset + h.filesz - from
    IN  [x \in Addresses |-> IF x \in first .. first + PageEnd(length) - 1
                             THEN FileByte(from + x - first) ELSE mem[x]]

\* Mutant: the rest of the last file page keeps the file's bytes.
TailCleared(mem, h) == mem
ZeroTail(mem, h) ==
    LET end == h.vaddr + h.filesz
    IN  [x \in Addresses |-> IF h.writable /\ x \in end .. PageEnd(end) - 1
                             THEN Zero ELSE mem[x]]

ZeroPages(mem, h) ==
    [x \in Addresses |-> IF x \in PageEnd(h.vaddr + h.filesz) .. PageEnd(h.vaddr + h.memsz) - 1
                         THEN Zero ELSE mem[x]]

-----------------------------------------------------------------------------
(* load_elf                                                                 *)

Extent == Max({h.vaddr + h.memsz : h \in Range(Loads)})

\* Headers whose table is out of the file, or no segment to load: an error
\* before anything is mapped.
HeadersParse == program.sound.header /\ program.sound.programs /\ Loads # <<>>

ReserveAll ==
    /\ phase = "start" /\ reader.kind = "load_elf"
    /\ IF HeadersParse
       THEN /\ memory' = Over(0, PageEnd(Extent), NoAccess)
            /\ phase' = "segments"
       ELSE phase' = "failed" /\ UNCHANGED memory
    /\ UNCHANGED <<program, reader, segment, refused>>

MapFromFile ==
    LET h == Loads[segment] IN
    /\ phase = "segments" /\ reader.kind = "load_elf"
    /\ reader.fd /\ h.filesz > 0
    /\ memory' = ZeroPages(ZeroTail(FilePages(memory, h), h), h)
    /\ segment' = segment + 1
    /\ UNCHANGED <<program, reader, phase, refused>>

\* Without a file descriptor, with nothing in the file, or after the file
\* mapping failed: fresh pages, and a copy when the file is long enough.
CopyIn ==
    LET h == Loads[segment]
        fresh == [x \in Addresses |->
                     IF x \in PageStart(h.vaddr) .. PageEnd(h.vaddr + h.memsz) - 1
                     THEN Zero ELSE memory[x]]
    IN
    /\ phase = "segments" /\ reader.kind = "load_elf"
    /\ memory' = IF h.offset + h.filesz <= program.size
                 THEN [x \in Addresses |-> IF x \in h.vaddr .. h.vaddr + h.filesz - 1
                                           THEN h.offset + x - h.vaddr ELSE fresh[x]]
                 ELSE fresh
    /\ segment' = segment + 1
    /\ UNCHANGED <<program, reader, phase, refused>>

\* Both mappings fail: the loader goes on with the next segment.
LeaveOut ==
    /\ phase = "segments" /\ reader.kind = "load_elf"
    /\ segment' = segment + 1 /\ refused' = TRUE
    /\ UNCHANGED <<program, reader, phase, memory>>

-----------------------------------------------------------------------------
(* ElfReader                                                                *)

\* read: headers, section headers and the dynamic section must agree; what
\* only API level 26 enforces is tolerated below it.
Tolerated(mark) == mark = "yes" \/ (mark = "old" /\ reader.sdk < 26)

VerifyElfHeader == program.sound.header /\ Tolerated(program.sound.shentsize)

ReadSectionHeaders == program.sound.sections

ReadDynamicSection == Tolerated(program.sound.dynamic) /\ program.sound.strtab

Read ==
    /\ phase = "start" /\ reader.kind = "ElfReader"
    /\ phase' = IF /\ VerifyElfHeader /\ program.sound.programs
                   /\ ReadSectionHeaders /\ ReadDynamicSection
                THEN "read" ELSE "failed"
    /\ UNCHANGED <<program, reader, segment, memory, refused>>

LoadStart == PageStart(Min({h.vaddr : h \in Range(Loads)}))

\* The addresses below the first segment's page are not part of the
\* reservation; a range too small for the library is not used.
ReserveAddressSpace ==
    /\ phase = "read" /\ reader.kind = "ElfReader"
    /\ \/ /\ Loads # <<>>
          /\ memory' = Over(LoadStart, PageEnd(Extent),
                            IF reader.smallPages THEN NoAccess ELSE Zero)
          /\ phase' = "segments"
       \/ phase' = "failed" /\ UNCHANGED memory
    /\ UNCHANGED <<program, reader, segment, refused>>

SegmentPastEnd(h) == program.size <= 0 \/ h.offset + h.filesz > program.size

\* A host with larger pages reads the bytes into the reservation instead of
\* mapping them, and has nothing to zero.
LoadSegment ==
    LET h == Loads[segment]
        read == FilePages(memory, h)
        from == PageStart(h.vaddr)
        length == h.offset + h.filesz - PageStart(h.offset)
    IN
    /\ phase = "segments" /\ reader.kind = "ElfReader"
    /\ ~SegmentPastEnd(h)
    /\ memory' =
         IF reader.smallPages
         THEN ZeroPages(ZeroTail(IF length # 0 THEN read ELSE memory, h), h)
         ELSE [x \in Addresses |-> IF x \in from .. from + length - 1
                                   THEN read[x] ELSE memory[x]]
    /\ segment' = segment + 1
    /\ UNCHANGED <<program, reader, phase, refused>>

LoadFails ==
    /\ phase = "segments" /\ reader.kind = "ElfReader"
    /\ phase' = "failed"
    /\ refused' = (refused \/ ~SegmentPastEnd(Loads[segment]))
    /\ UNCHANGED <<program, reader, segment, memory>>

\* find_phdr and check_phdr: the table must lie in the file part of one of
\* the loaded segments; without PT_PHDR the first segment must begin the file.
InLoaded(table) ==
    \E h \in Range(Loads) : /\ h.vaddr <= table
                            /\ table + Len(program.headers) <= h.vaddr + h.filesz

FindPhdr ==
    LET own == SelectSeq(program.headers, LAMBDA h : h.type = "phdr")
        first == Loads[1]
    IN  IF own # <<>> THEN InLoaded(own[1].vaddr)
        ELSE first.offset = 0 /\ InLoaded(first.vaddr + program.phoff)

SegmentsDone ==
    /\ phase = "segments" /\ segment > Len(Loads)
    /\ phase' = IF reader.kind = "ElfReader" /\ ~FindPhdr THEN "failed" ELSE "loaded"
    /\ UNCHANGED <<program, reader, segment, memory, refused>>

\* Drop of the reader: a finished load that the caller did not reserve for
\* is unmapped, an unfinished one is left.
DropReader ==
    /\ phase \in {"loaded", "failed"} /\ reader.kind = "ElfReader"
    /\ memory' = IF phase = "loaded" /\ ~reader.mappedByCaller
                 THEN [x \in Addresses |-> NoAccess] ELSE memory
    /\ phase' = "dropped"
    /\ UNCHANGED <<program, reader, segment, refused>>

-----------------------------------------------------------------------------
\* Tables are sound, or exactly one of them is not.
AllSound == [header |-> TRUE, programs |-> TRUE, sections |-> TRUE, strtab |-> TRUE,
             shentsize |-> "yes", dynamic |-> "yes"]
Soundness ==
    {AllSound} \cup {[AllSound EXCEPT ![f] = FALSE] :
                        f \in {"header", "programs", "sections", "strtab"}}
               \cup {[AllSound EXCEPT ![f] = "old"] : f \in {"shentsize", "dynamic"}}

SegmentsInit ==
    /\ program = <<>> /\ reader = <<>>
    /\ phase = "new" /\ segment = 1
    /\ memory = [x \in Addresses |-> NoAccess]
    /\ refused = FALSE

Open ==
    /\ phase = "new" /\ phase' = "start"
    /\ program' \in [headers : Layouts, size : FileSizes, sound : Soundness, phoff : {1}]
    /\ \/ reader' \in [kind : {"load_elf"}, fd : BOOLEAN]
       \/ reader' \in [kind : {"ElfReader"}, mappedByCaller : BOOLEAN,
                       smallPages : BOOLEAN, sdk : {25, 26}]
    /\ UNCHANGED <<segment, memory, refused>>

SegmentsNext ==
    \/ Open \/ ReserveAll \/ Read \/ ReserveAddressSpace
    \/ phase = "segments" /\ segment <= Len(Loads) /\ (MapFromFile \/ CopyIn \/ LeaveOut \/ LoadSegment \/ LoadFails)
    \/ SegmentsDone \/ DropReader

SegmentsSpec == SegmentsInit /\ [][SegmentsNext]_segmentVars

-----------------------------------------------------------------------------
\* What the headers ask for: the file part holds the file's bytes, and the
\* rest of a segment is zero.
ImageOf(h) ==
    \A x \in h.vaddr .. h.vaddr + h.memsz - 1 :
       memory[x] = IF x < h.vaddr + h.filesz THEN h.offset + x - h.vaddr ELSE Zero

\* A library that counts as loaded is in memory as its headers ask.  The
\* reader of phdr.rs vouches for it also for files that end too early and for
\* mappings that fail; load_elf only when the file is whole and no mapping was
\* refused (it goes on silently otherwise).
ImageMatches ==
    phase = "loaded" /\ (reader.kind = "load_elf" =>
                            ~refused /\ \A h \in Range(Loads) : h.offset + h.filesz <= program.size)
    => \A h \in Range(Loads) : ImageOf(h)

\* Neither of them writes outside the pages of the segments.
PagesOnly ==
    phase # "new" => \A x \in Addresses :
       (\A h \in Range(Loads) : x \notin PageStart(h.vaddr) .. PageEnd(h.vaddr + h.memsz) - 1)
       => memory[x] = NoAccess \/ (reader.kind = "ElfReader" /\ ~reader.smallPages /\ memory[x] = Zero)

LoadedAsAsked == ImageMatches /\ PagesOnly
=============================================================================
