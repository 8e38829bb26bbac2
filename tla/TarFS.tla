------------------------------- MODULE TarFS -------------------------------
(***************************************************************************)
(* The file system of devices/tar.h: a tar archive on a disk of sectors.   *)
(* A byte of the disk is represented by its address.  Names are sequences  *)
(* of letters, as open() compares them letter by letter.                   *)
(***************************************************************************)
EXTENDS Integers, Sequences

CONSTANTS
  SECTOR,              \* BYTES_PER_SECTOR
  MAX_FILES            \* max_files

ASSUME SectorAssumption == SECTOR \in Nat \ {0} /\ MAX_FILES \in Nat

VARIABLES
  disk,                \* the archive: a sequence of [name, size, ...]
  files                \* TarFile objects

NULL == -1
Addr(sector, offset) == sector * SECTOR + offset

\* What find_file_sector() adds for an entry: the header and the sectors of data.
EntrySectors(e) == 1 + ((e.size + SECTOR - 1) \div SECTOR)

\* The sector of the header of entry k; sector 0 is the boot sector.
HeaderSector(k) ==
  LET at[j \in 1 .. Len(disk)] ==
        IF j = 1 THEN 1 ELSE at[j - 1] + EntrySectors(disk[j - 1])
  IN  at[k]

\* strncmp() with the length of the name that is looked for: a prefix matches.
StartsWith(full, name) == Len(name) <= Len(full) /\ SubSeq(full, 1, Len(name)) = name

Matches(name, k) == StartsWith(disk[k].name, name)

\* find_file_sector(): the first entry that matches, NULL if there is none.
FindFile(name) ==
  IF \E k \in 1 .. Len(disk) : Matches(name, k)
  THEN CHOOSE k \in 1 .. Len(disk) : Matches(name, k) /\ \A j \in 1 .. k - 1 : ~ Matches(name, j)
  ELSE NULL

\* A TarFile is free while its size is 0.
FreeFile == [header_sector |-> 0, current_sector |-> 0, cursor |-> 0, size |-> 0]

\* Mutant: an object counts as free once its file has been read to the end.
AllocFile_AtEnd ==
  LET free == {f \in DOMAIN files : files[f].cursor >= files[f].size}
  IN  IF free = {} THEN NULL ELSE CHOOSE f \in free : \A g \in free : f <= g

\* alloc_file(): the first free one, NULL if there is none.
AllocFile ==
  LET free == {f \in DOMAIN files : files[f].size = 0}
  IN  IF free = {} THEN NULL ELSE CHOOSE f \in free : \A g \in free : f <= g

\* Mutant: the cursor moves within the sector that is current.
Seek_KeepsSector(f, offset) ==
  [f EXCEPT !.cursor = offset,
            !.current_sector = IF offset = 0 THEN f.header_sector + 1 ELSE @]

\* TarFile::seek(); out of range it returns 0 and changes nothing.
CanSeek(f, offset) == offset >= 0 /\ offset < f.size

Seek(f, offset) ==
  IF CanSeek(f, offset)
  THEN [f EXCEPT !.cursor = offset,
                 !.current_sector = f.header_sector + 1 + (offset \div SECTOR)]
  ELSE f

\* TarFS::open(): the number of the TarFile, NULL if there is no such file or no
\* free object.
Opens(name) == IF FindFile(name) = NULL THEN NULL ELSE AllocFile

Opened(name) ==
  LET k == FindFile(name) IN
  Seek([FreeFile EXCEPT !.header_sector = HeaderSector(k), !.size = disk[k].size], 0)

-----------------------------------------------------------------------------
(* TarFile::read() *)

\* A read that would pass the end of the file reads nothing.
PastEnd(f, len) == f.cursor + len > f.size

\* Bytes that an unaligned read takes from the sector it starts in.
FirstBytes(f, len) ==
  LET start == f.cursor % SECTOR IN
  IF start = 0 THEN 0
  ELSE (IF start + len > SECTOR THEN SECTOR ELSE start + len) - start

\* Mutant: the sector that was read in part is read again.
SectorAfterFirst_Same(f) == f.current_sector

\* After an unaligned start the next sector is current, also when the read ends
\* before it: a read that follows without a seek then starts in the wrong sector.
SectorAfterFirst(f) == f.current_sector + (IF f.cursor % SECTOR = 0 THEN 0 ELSE 1)

\* The bytes read: the rest of a sector, whole sectors, the start of one.
BytesRead(f, len) ==
  LET first == FirstBytes(f, len) IN
  [k \in 1 .. len |->
     IF k <= first THEN Addr(f.current_sector, (f.cursor % SECTOR) + k - 1)
     ELSE Addr(SectorAfterFirst(f) + ((k - first - 1) \div SECTOR), (k - first - 1) % SECTOR)]

AfterRead(f, len) ==
  [f EXCEPT !.cursor = @ + len,
            !.current_sector = SectorAfterFirst(f) + ((len - FirstBytes(f, len)) \div SECTOR)]

-----------------------------------------------------------------------------
\* The byte at a position of a file: what a read there is meant to return.
FileByte(f, pos) == Addr(f.header_sector + 1, 0) + pos
=============================================================================
