------------------------------- MODULE Loader -------------------------------
(***************************************************************************)
(* What reads files in this system: load_background_tga() at boot, and     *)
(* then elf_exec(), which loads a program and its libraries into the       *)
(* memory of a new process and links the program's calls as they are made. *)
(*                                                                         *)
(* There is one reader at a time, as the code demands (file functions are  *)
(* not thread safe).  An ELF file is its disk entry, with its segments and *)
(* tables as a record.  A cell of memory holds the disk address of the     *)
(* byte in it, and what was added by relocation; a word takes one cell.    *)
(* Virtual addresses are handed out upwards, as PageAllocator's ranges.    *)
(***************************************************************************)
EXTENDS TarFS

CONSTANTS
  MAX_PROC_FILES,      \* handles, but for 0 and 1, which are preset
  MAX_PHDRS,           \* size of phdrs[]
  MAX_SHARED_LIBS,     \* size of sharedLibs[]
  PAGE,                \* BYTES_PER_PAGE
  EHDR, PHDR,          \* sizes of the ELF header and of a program header
  TGAHEAD, CHUNK,      \* size of the TGA header, and of raw_data[]
  WIDTH,               \* bits of an address
  HeapStart,           \* first address that alloc() hands out
  Hash,                \* elf_Hash() of the names of symbols
  ModuleAddr,          \* address of elf_exec()'s executable
  LookupAddr,          \* address of lookup_symbol_args()
  Disks,               \* archives to start from
  Wallpaper, Program   \* "desktop.tga" and "shell"

Slots(elf) == {elf.jmprel[i].offset : i \in 1 .. Len(elf.jmprel)}

\* What adjustRelocations() changes: the word that an entry of the table names, and
\* the r_offset of the entry itself, which is in the memory of the library too.
Words(relocs) == UNION {{r.offset, r.at} : r \in relocs}
JumpRelocs(elf) == {elf.jmprel[i] : i \in 1 .. Len(elf.jmprel)}
RelWords(elf) == Words(elf.rel)
SlotWords(elf) == Words(JumpRelocs(elf))

HashOf(elf, name) == (Hash[name] % Len(elf.buckets)) + 1

\* What the loader takes for granted of an ELF file: its headers and the bytes of
\* its segments are in the file, its headers fit phdrs[] and its libraries
\* sharedLibs[], and no segment that is loaded is empty (alloc_at() of no page maps
\* every page there is).
WellFormed(e) ==
  LET segs == e.elf.segs IN
  /\ EHDR <= e.size /\ e.elf.phoff \in Nat
  /\ Len(segs) \in 0 .. MAX_PHDRS /\ Len(e.elf.needed) \in 0 .. MAX_SHARED_LIBS
  /\ e.elf.phoff < e.size => e.elf.phoff + PHDR * Len(segs) <= e.size
  /\ \A i \in 1 .. Len(segs) :
       /\ segs[i].offset \in Nat /\ segs[i].vaddr \in Nat
       /\ segs[i].filesz \in Nat /\ segs[i].memsz \in Nat
       /\ segs[i].type = "LOAD" =>
            /\ segs[i].filesz > 0 /\ segs[i].filesz <= segs[i].memsz
            /\ segs[i].offset + segs[i].filesz <= e.size

\* Of a library: it starts at address 0, and what is loaded does not overlap.  Its
\* end is that of a segment other than the first, since Extent() would miss it.  Its
\* relocations and the words that they name are in its segments, and no word is
\* named twice.
IsLibrary(elf) ==
  LET segs == elf.segs IN
  /\ Len(segs) > 1 /\ segs[1].vaddr = 0
  /\ \E i \in 2 .. Len(segs) : segs[1].memsz <= segs[i].vaddr + segs[i].memsz
  /\ \A i \in 1 .. Len(segs) : segs[i].vaddr + segs[i].memsz < 2^WIDTH
  /\ \A i, j \in 1 .. Len(segs) : i < j /\ segs[i].type = "LOAD" /\ segs[j].type = "LOAD" =>
       \/ segs[i].vaddr + segs[i].filesz <= segs[j].vaddr
       \/ segs[j].vaddr + segs[j].filesz <= segs[i].vaddr
  /\ \A o \in RelWords(elf) \cup SlotWords(elf) :
       \E i \in 1 .. Len(segs) : o \in segs[i].vaddr .. segs[i].vaddr + segs[i].memsz - 1
  /\ RelWords(elf) \cap SlotWords(elf) = {}
  /\ \A table \in {elf.rel, JumpRelocs(elf)} : \A r, q \in table :
       r.at # q.offset /\ (r # q => r.at # q.at /\ r.offset # q.offset)

\* Of its hash table: chains end, and a symbol is the first of its bucket or follows
\* one of the same bucket.  Entry 0 is the empty symbol.
IsHashTable(elf) ==
  LET n == Len(elf.chains)
      First(k) == elf.buckets[HashOf(elf, elf.symtab[k + 1])]
  IN
  /\ n \in Nat \ {0} /\ Len(elf.symtab) = n /\ Len(elf.buckets) \in Nat \ {0}
  /\ \A b \in 1 .. Len(elf.buckets) : elf.buckets[b] \in 0 .. n - 1
  /\ \A k \in 1 .. n : elf.chains[k] \in 0 .. n - 1
  /\ elf.chains[1] = 0
  /\ \E rank \in [0 .. n - 1 -> 0 .. n - 1] :
       \A k \in 0 .. n - 1 : elf.chains[k + 1] # 0 => rank[elf.chains[k + 1]] < rank[k]
  /\ \A k \in 1 .. n - 1 :
       k = First(k) \/ \E j \in 1 .. n - 1 : elf.chains[j + 1] = k /\ First(j) = First(k)

\* Of what the program calls: functions have names, also to the hash table.
CanCall(elf, lib) ==
  \A i \in 1 .. Len(elf.jmprel) :
    Hash[elf.jmprel[i].name] \in Nat /\ elf.jmprel[i].name # lib.symtab[1]

\* The entry of archive d that FindFile(name) is.
IsFound(d, name, k) ==
  /\ k \in 1 .. Len(d) /\ StartsWith(d[k].name, name)
  /\ \A j \in 1 .. k - 1 : ~ StartsWith(d[j].name, name)

\* No file is empty, and the program and the libraries that it needs are as above.
ASSUME DisksAssumption ==
  \A d \in Disks :
    /\ Len(d) \in Nat
    /\ \A k \in 1 .. Len(d) : d[k].size \in Nat \ {0}
    /\ \A k \in 1 .. Len(d) : IsFound(d, Program, k) =>
         /\ WellFormed(d[k])
         /\ \A i \in 1 .. Len(d[k].elf.needed), j \in 1 .. Len(d) :
              IsFound(d, d[k].elf.needed[i], j) =>
                /\ WellFormed(d[j]) /\ IsLibrary(d[j].elf)
                /\ d[j].elf.symtab # <<>> =>
                     IsHashTable(d[j].elf) /\ CanCall(d[k].elf, d[j].elf)

\* A chunk of the wallpaper (512 pixels) is no smaller than a sector or a header.
ASSUME SizesAssumption ==
  /\ MAX_PROC_FILES \in Nat /\ TGAHEAD \in Nat /\ CHUNK \in Nat
  /\ SECTOR <= CHUNK /\ TGAHEAD <= CHUNK
  /\ EHDR \in Nat /\ PHDR \in Nat /\ PAGE \in Nat \ {0} /\ HeapStart \in Nat
  /\ 2^WIDTH \in Nat \ {0, 1}

VARIABLES
  handles,             \* thisProc->files[]
  image,               \* bytes of the wallpaper
  mem,                 \* mapped memory of the process
  brk,                 \* virt_alloc_ptr
  modules,             \* the program, then sharedLibs[]
  task,                \* where the reader is: [pc, seg]
  got,                 \* GOT entries that lookup_symbol_args() has patched
  fault                \* history: has memory that is not mapped been written?

vars == <<disk, files, handles, image, mem, brk, modules, task, got, fault>>

\* e_phnum is 0 in a header that was never read.
NoElf == [phoff |-> 0, segs |-> <<>>, needed |-> <<>>, rel |-> {}, jmprel |-> <<>>,
          pltgot |-> 0, symtab |-> <<>>, values |-> <<>>, buckets |-> <<0>>, chains |-> <<0>>]

\* A word that is not from a file, and one that nobody has written.
Word(value) == [byte |-> NULL, plus |-> value]
Wild == Word(0)
Overlay(m, cells) == [a \in DOMAIN m \cup DOMAIN cells |->
                        IF a \in DOMAIN cells THEN cells[a] ELSE m[a]]

\* Handles 0 and 1 are those of nullfile and the terminal.
Init ==
  /\ disk \in Disks
  /\ files = [f \in 0 .. MAX_FILES - 1 |-> FreeFile]
  /\ handles = [h \in 0 .. MAX_PROC_FILES - 1 |-> NULL]
  /\ image = <<>>
  /\ mem = << >> /\ brk = HeapStart
  /\ modules = <<>>
  /\ task = [pc |-> "tga_open", seg |-> 1]
  /\ got = << >>
  /\ fault = FALSE

Goto(at) == task' = [task EXCEPT !.pc = at]

-----------------------------------------------------------------------------
(* load_background_tga() *)

\* The kernel opens the file without a handle; a missing one would be a call
\* through a null pointer, so the archive has it.
TgaOpen ==
  LET f == Opens(Wallpaper) IN
  /\ task.pc = "tga_open" /\ f # NULL
  /\ files' = [files EXCEPT ![f] = Opened(Wallpaper)]
  /\ Goto("tga_header")
  /\ UNCHANGED <<disk, handles, image, mem, brk, modules, got, fault>>

Entry(f) == CHOOSE k \in 1 .. Len(disk) : HeaderSector(k) = files[f].header_sector

\* An image of another type is given up; a file without a header leaves the type
\* uninitialised.
TgaHeader ==
  LET short == PastEnd(files[0], TGAHEAD) IN
  /\ task.pc = "tga_header"
  /\ files' = IF short THEN files ELSE [files EXCEPT ![0] = AfterRead(@, TGAHEAD)]
  /\ \E supported \in IF short THEN BOOLEAN ELSE {disk[Entry(0)].tga} :
       Goto(IF supported THEN "tga_chunk" ELSE "open")
  /\ UNCHANGED <<disk, handles, image, mem, brk, modules, got, fault>>

\* Mutant: the loop waits for a negative result.
TgaChunk_NegativeOnly ==
  LET f == files[0] IN
  /\ task.pc = "tga_chunk" /\ ~ PastEnd(f, CHUNK)
  /\ files' = [files EXCEPT ![0] = AfterRead(f, CHUNK)]
  /\ image' = image \o BytesRead(f, CHUNK)
  /\ UNCHANGED <<task, disk, handles, mem, brk, modules, got, fault>>

\* The loop ends with the first read that returns 0.
TgaChunk ==
  LET f == files[0] IN
  /\ task.pc = "tga_chunk"
  /\ IF PastEnd(f, CHUNK)
     THEN Goto("open") /\ UNCHANGED <<files, image>>
     ELSE /\ files' = [files EXCEPT ![0] = AfterRead(f, CHUNK)]
          /\ image' = image \o BytesRead(f, CHUNK)
          /\ UNCHANGED task
  /\ UNCHANGED <<disk, handles, mem, brk, modules, got, fault>>

-----------------------------------------------------------------------------
(* Files of the process: syscall_open(), syscall_seek() and syscall_read() *)

\* alloc_proc_filehandle(): a file that could not be opened takes a handle that
\* stays free.
AllocHandle ==
  LET free == {h \in DOMAIN handles : handles[h] = NULL}
  IN  IF free = {} THEN NULL ELSE CHOOSE h \in free : \A g \in free : h <= g

Current == modules[Len(modules)]

\* get_file_by_handle(): without a file, every call returns -1.
FileOf(m) == IF m.fh = NULL THEN NULL ELSE handles[m.fh]

\* read() by handle: what arrives in the buffer, the file afterwards, and whether
\* these are the bytes at a position of the file.  A process may put File objects of
\* its own before the handles, but user_filetable[] is empty while it is loaded, and
\* the shell sets entries 0 and 1 only.
Arrives(f, len) == IF PastEnd(f, len) THEN <<>> ELSE BytesRead(f, len)
Moved(f, len) == IF PastEnd(f, len) THEN f ELSE AfterRead(f, len)
Exact(f, pos, len) == Arrives(f, len) = [k \in 1 .. len |-> FileByte(f, pos + k - 1)]

-----------------------------------------------------------------------------
(* elf_exec() and loadModule() *)

IsProgram == Len(modules) = 1

\* open() of the program, or of a library that a module needs.
OpenModule(name) ==
  LET f == Opens(name)  h == AllocHandle IN
  /\ files' = IF f = NULL THEN files ELSE [files EXCEPT ![f] = Opened(name)]
  /\ handles' = IF h = NULL THEN handles ELSE [handles EXCEPT ![h] = f]
  /\ modules' = Append(modules, [fh |-> h, elf |-> NoElf, base |-> 0, done |-> FALSE])
  /\ task' = [pc |-> "header", seg |-> 1]
  /\ UNCHANGED <<disk, image, mem, brk, got, fault>>

OpenProgram == task.pc = "open" /\ OpenModule(Program)

\* readElfHeader(), then seek(e_phoff) and the program headers.  A header that is
\* not read stays 0, and so does the number of segments.
ReadHeaders ==
  LET f == FileOf(Current)
      read == IF f = NULL THEN FALSE ELSE Exact(files[f], 0, EHDR)
      elf == IF read THEN disk[Entry(f)].elf ELSE NoElf
      len == PHDR * Len(elf.segs)
      sought == Seek(Moved(files[f], EHDR), elf.phoff)
  IN
  /\ task.pc = "header"
  /\ IF f = NULL
     THEN UNCHANGED files /\ UNCHANGED modules /\ Goto("map")
     ELSE IF ~ CanSeek(files[f], elf.phoff)
     THEN UNCHANGED modules /\ Goto("frozen") /\ files' = [files EXCEPT ![f] = Moved(@, EHDR)]
     ELSE /\ files' = [files EXCEPT ![f] = Moved(sought, len)]
          /\ modules' = [modules EXCEPT ![Len(modules)].elf =
                           IF Exact(sought, elf.phoff, len) THEN elf ELSE NoElf]
          /\ Goto("map")
  /\ UNCHANGED <<disk, handles, image, mem, brk, got, fault>>

Pages(bytes) == (bytes + PAGE - 1) \div PAGE
FreshPages(from, pages) == [a \in from .. from + pages * PAGE - 1 |-> Wild]

\* min_address and max_address of mapLoadableSegments(): a segment that lowers the
\* minimum is not considered for the maximum.
Extent(segs) ==
  LET to[i \in 0 .. Len(segs)] ==
        IF i = 0 THEN [lo |-> 2^WIDTH - 1, hi |-> 0]
        ELSE IF segs[i].vaddr < to[i - 1].lo
        THEN [to[i - 1] EXCEPT !.lo = segs[i].vaddr]
        ELSE IF segs[i].vaddr + segs[i].memsz > to[i - 1].hi
        THEN [to[i - 1] EXCEPT !.hi = segs[i].vaddr + segs[i].memsz]
        ELSE to[i - 1]
  IN  to[Len(segs)]

\* Mutant: the size of a module is rounded down to pages, without the extra one.
ModulePages_RoundedDown(segs) ==
  ((Extent(segs).hi - Extent(segs).lo) % 2^WIDTH) \div PAGE

ModulePages(segs) == Pages((Extent(segs).hi - Extent(segs).lo) % 2^WIDTH) + 1

\* A library is given pages of its own; the program's segments have addresses.
MapModule ==
  LET pages == ModulePages(Current.elf.segs) IN
  /\ task.pc = "map"
  /\ Goto("segment")
  /\ IF IsProgram THEN UNCHANGED <<mem, brk, modules>>
     ELSE /\ mem' = Overlay(mem, FreshPages(brk, pages))
          /\ brk' = brk + pages * PAGE
          /\ modules' = [modules EXCEPT ![Len(modules)].base = brk]
  /\ UNCHANGED <<disk, files, handles, image, got, fault>>

\* alloc_at() maps new pages over those that are there.
Aligned(a) == a - (a % PAGE)
ProgramPages(s) == FreshPages(Aligned(s.vaddr), Pages((s.vaddr % PAGE) + s.filesz))

\* The libraries that a program needs, or missing ones, do not come to lie on its
\* pages: alloc() and alloc_at() know nothing of each other.  Their sum is bounded by
\* as many of the largest.
ASSUME HeapAssumption ==
  \A d \in Disks : \A k \in 1 .. Len(d) : IsFound(d, Program, k) =>
    LET elf == d[k].elf
        libs == {j \in 1 .. Len(d) : \E i \in 1 .. Len(elf.needed) : IsFound(d, elf.needed[i], j)}
        sizes == {ModulePages(NoElf.segs)} \cup {ModulePages(d[j].elf.segs) : j \in libs}
    IN
    \A i \in 1 .. Len(elf.segs), n \in sizes : elf.segs[i].type = "LOAD" =>
      \A a \in DOMAIN ProgramPages(elf.segs[i]) :
        a < HeapStart \/ HeapStart + Len(elf.needed) * (n * PAGE) <= a

\* The words of the GOT that the loader and lookup_symbol_args() write are in pages of
\* the program, and each is written once.
IsExecutable(elf) ==
  LET entries == {elf.pltgot + 1, elf.pltgot + 2} IN
  /\ elf.pltgot \in Nat /\ Len(elf.jmprel) \in Nat
  /\ \A a \in entries \cup Slots(elf) : \E i \in 1 .. Len(elf.segs) :
       elf.segs[i].type = "LOAD" /\ a \in DOMAIN ProgramPages(elf.segs[i])
  /\ entries \cap Slots(elf) = {}
  /\ \A i, j \in 1 .. Len(elf.jmprel) : elf.jmprel[i].offset = elf.jmprel[j].offset => i = j

ASSUME GotAssumption ==
  \A d \in Disks : \A k \in 1 .. Len(d) : IsFound(d, Program, k) => IsExecutable(d[k].elf)

Cells(at, bytes) == [a \in at .. at + Len(bytes) - 1 |-> [byte |-> bytes[a - at + 1], plus |-> 0]]

LoadSegment ==
  LET m == Current
      s == m.elf.segs[task.seg]
      f == FileOf(m)
      sought == Seek(files[f], s.offset)
      mapped == IF IsProgram THEN Overlay(mem, ProgramPages(s)) ELSE mem
      cells == Cells(m.base + s.vaddr, Arrives(sought, s.filesz))
  IN
  /\ task.pc = "segment" /\ task.seg <= Len(m.elf.segs)
  /\ task' = [task EXCEPT !.seg = @ + 1]
  /\ IF s.type # "LOAD" THEN UNCHANGED <<files, mem, fault>>
     ELSE /\ files' = [files EXCEPT ![f] = Moved(sought, s.filesz)]
          /\ mem' = Overlay(mapped, cells)
          /\ fault' = (fault \/ ~ (DOMAIN cells \subseteq DOMAIN mapped))
  /\ UNCHANGED <<disk, handles, image, brk, modules, got>>

\* findDynamicSection() spins for ever without a dynamic segment, and then
\* parseDynamicSegment() without a symbol table.
HasDynamic(elf) == \E i \in 1 .. Len(elf.segs) : elf.segs[i].type = "DYNAMIC"

\* Mutant: the offsets of the relocations are taken for addresses.
Adjusted_NoBase(m, offsets, base) ==
  [a \in DOMAIN m |-> IF a \in offsets THEN [m[a] EXCEPT !.plus = @ + base] ELSE m[a]]

\* adjustRelocations() on a table: the base is added to the words that it changes.
Adjusted(m, offsets, base) ==
  [a \in DOMAIN m |-> IF a - base \in offsets THEN [m[a] EXCEPT !.plus = @ + base] ELSE m[a]]

LinkModule ==
  LET m == Current
      named == IF IsProgram THEN {} ELSE RelWords(m.elf) \cup SlotWords(m.elf)
  IN
  /\ task.pc = "segment" /\ task.seg > Len(m.elf.segs)
  /\ IF ~ HasDynamic(m.elf) \/ m.elf.symtab = <<>>
     THEN Goto("frozen") /\ UNCHANGED <<mem, modules, fault>>
     ELSE /\ Goto("needed")
          /\ mem' = IF IsProgram THEN mem
                    ELSE Adjusted(Adjusted(mem, RelWords(m.elf), m.base), SlotWords(m.elf), m.base)
          /\ fault' = (fault \/ \E o \in named : m.base + o \notin DOMAIN mem)
          /\ modules' = [modules EXCEPT ![Len(modules)].done = TRUE]
  /\ UNCHANGED <<disk, files, handles, image, brk, got>>

\* loadNeededLibs(): the libraries of the program, not those of a library.
NeededLib ==
  /\ task.pc = "needed" /\ Len(modules) <= Len(modules[1].elf.needed)
  /\ OpenModule(modules[1].elf.needed[Len(modules)])

\* pltgot[1] and pltgot[2] are set, so that calls go to lookup_symbol_args(), and the
\* program is entered.
Enter ==
  LET pltgot == modules[1].elf.pltgot
      words == [a \in {pltgot + 1, pltgot + 2} |->
                  Word(IF a = pltgot + 1 THEN ModuleAddr ELSE LookupAddr)]
  IN
  /\ task.pc = "needed" /\ Len(modules) > Len(modules[1].elf.needed)
  /\ Goto("running")
  /\ mem' = Overlay(mem, words)
  /\ fault' = (fault \/ ~ (DOMAIN words \subseteq DOMAIN mem))
  /\ UNCHANGED <<disk, files, handles, image, brk, modules, got>>

-----------------------------------------------------------------------------
(* lookup_symbol_args(), at the first call of a function of a library *)

\* Mutant: the walk stops before the last symbol of a chain.
WalkChain_StopsShort(elf, name, i) ==
  IF elf.symtab[i + 1] = name THEN i ELSE NULL

\* Names are compared in their first 0x40 letters, which is all of them here.
WalkChain(elf, name, i) ==
  LET from[k \in 0 .. Len(elf.chains) - 1] ==
        IF elf.symtab[k + 1] = name THEN k
        ELSE IF elf.chains[k + 1] = 0 THEN NULL
        ELSE from[elf.chains[k + 1]]
  IN  from[i]

\* getSymbolIndex(): from the bucket of the hash along its chain.  The tables are
\* sequences, so that entry i is at place i + 1.
SymbolIndex(elf, name) ==
  WalkChain(elf, name, elf.buckets[HashOf(elf, name)])

\* Only the first library is searched; a symbol that it lacks is patched to null.
\* The call goes on to where the GOT entry then points.
LookupSymbol(i) ==
  LET reloc == modules[1].elf.jmprel[i]
      lib == modules[2]
      index == SymbolIndex(lib.elf, reloc.name)
      functionPtr == IF index = NULL THEN 0 ELSE lib.base + lib.elf.values[index + 1]
  IN
  /\ task.pc = "running" /\ Len(modules) > 1
  /\ i \notin DOMAIN got
  /\ mem' = Overlay(mem, [a \in {reloc.offset} |-> Word(functionPtr)])
  /\ fault' = (fault \/ reloc.offset \notin DOMAIN mem)
  /\ got' = [j \in DOMAIN got \cup {i} |-> IF j = i THEN functionPtr ELSE got[j]]
  /\ UNCHANGED <<disk, files, handles, image, brk, modules, task>>

\* Without a library, sharedLibs[0] has no buckets: the division is by zero.
NoLibrary ==
  /\ task.pc = "running" /\ Len(modules) = 1
  /\ Goto("trap")
  /\ UNCHANGED <<disk, files, handles, image, mem, brk, modules, got, fault>>

\* The calls of the program, as entries of its table of jump relocations.
Calls == IF modules = <<>> THEN {} ELSE 1 .. Len(modules[1].elf.jmprel)

Load ==
  \/ TgaOpen \/ TgaHeader \/ TgaChunk
  \/ OpenProgram \/ ReadHeaders \/ MapModule \/ LoadSegment \/ LinkModule
  \/ NeededLib \/ Enter

Next == Load \/ \E i \in Calls : LookupSymbol(i) \/ NoLibrary

\* Nothing keeps the thread that loads from running; which functions the program
\* then calls is up to the program.
Spec == Init /\ [][Next]_vars /\ WF_vars(Load)

-----------------------------------------------------------------------------
(* Properties *)

\* The wallpaper is read by unaligned reads that follow one another without a
\* seek: the bytes are those of the file, in order, and only the part of the last
\* chunk is left out.
WallpaperExact ==
  /\ \A k \in 1 .. Len(image) : image[k] = FileByte(files[0], TGAHEAD + k - 1)
  /\ task.pc \notin {"tga_open", "tga_header", "tga_chunk"} /\ disk[Entry(0)].tga =>
       TGAHEAD + Len(image) + CHUNK > files[0].size

\* Does a later segment of the program take over the page of address a?
Remapped(segs, i, a) ==
  \E j \in i + 1 .. Len(segs) :
    segs[j].type = "LOAD" /\ a \in DOMAIN ProgramPages(segs[j])

\* Has the program been entered?
Entered == task.pc \in {"running", "trap"}

\* The words of the GOT that have been written so far: they are addresses now.
Patched ==
  LET elf == modules[1].elf IN
  {a \in {elf.pltgot + 1, elf.pltgot + 2} : Entered}
    \cup {elf.jmprel[i].offset : i \in DOMAIN got}

Intact(n) ==
  LET m == modules[n]  segs == m.elf.segs IN
  \A i \in 1 .. Len(segs) : segs[i].type = "LOAD" =>
    \A k \in 0 .. segs[i].filesz - 1 :
      LET a == m.base + segs[i].vaddr + k IN
      \/ n = 1 /\ (Remapped(segs, i, a) \/ a \in Patched)
      \/ /\ a \in DOMAIN mem
         /\ mem[a].byte = FileByte(files[FileOf(m)], segs[i].offset + k)

\* The headers of a module are read right, and once it is loaded, for as long as
\* the process runs, its memory holds the bytes of its file, whatever was loaded,
\* relocated or patched after it.  There are two exceptions, both in the program:
\* the words of the GOT that elf_exec() and lookup_symbol_args() write, and a page
\* that two segments share: alloc_at() maps it anew, "TODO make sure vaddr is not
\* already occupied" (syscall.cpp:37).
SegmentsIntact ==
  /\ \A n \in 1 .. Len(modules) :
       FileOf(modules[n]) # NULL /\ (n < Len(modules) \/ task.pc \notin {"header", "frozen"})
         => modules[n].elf = disk[Entry(FileOf(modules[n]))].elf
  /\ \A n \in 1 .. Len(modules) : modules[n].done => Intact(n)

\* The loader stores to mapped memory only: the bytes of segments, in the pages of
\* the size that mapLoadableSegments() computes, the words and table entries that
\* adjustRelocations() moves, and the words of the GOT.
InBounds == ~ fault

\* Every word that a relocation of a library names, and the r_offset of every entry
\* of its tables, is moved by the address of the library, once, and no other word of
\* the library is, whatever is loaded, relocated or patched after it.
RelocatedOnce ==
  \A n \in 2 .. Len(modules) : modules[n].done =>
    LET m == modules[n]  named == RelWords(m.elf) \cup SlotWords(m.elf) IN
    \A a \in m.base .. m.base + ModulePages(m.elf.segs) * PAGE - 1 :
      mem[a].plus = (IF a - m.base \in named THEN m.base ELSE 0)

\* Calls get to lookup_symbol_args() for as long as the program runs.  Once it has
\* been called, a call goes to the function of that name in the first library, in
\* whatever order the linker has put the symbols into the chains of the hash table,
\* or to 0 if the library does not have it; and the GOT entry keeps that address,
\* whatever else is patched.
CallsResolved ==
  /\ Entered =>
       /\ mem[modules[1].elf.pltgot + 1] = Word(ModuleAddr)
       /\ mem[modules[1].elf.pltgot + 2] = Word(LookupAddr)
  /\ \A i \in DOMAIN got :
       LET reloc == modules[1].elf.jmprel[i]
           lib == modules[2]
           at == {k \in 1 .. Len(lib.elf.symtab) : lib.elf.symtab[k] = reloc.name}
       IN  /\ mem[reloc.offset] = Word(got[i])
           /\ IF at = {} THEN got[i] = 0
              ELSE \E k \in at : got[i] = lib.base + lib.elf.values[k]

\* In an archive without empty files, handles that are open at the same time are
\* different files, and none is the kernel's: a TarFile is taken again only while its
\* size is 0 (tar.h:164), which is also the size of an empty file that is open.
FilesApart ==
  \A h \in DOMAIN handles : handles[h] # NULL =>
    /\ handles[h] # 0 /\ files[handles[h]].size > 0
    /\ \A g \in DOMAIN handles : g # h => handles[g] # handles[h]

\* Loading ends: load_background_tga() and the loops of elf_exec() get to the end
\* of their files, and the program runs, or the loader has stopped because a file
\* is missing or has no dynamic segment or symbols.
LoadEnds == <>(task.pc \in {"frozen", "running"})
=============================================================================
