SPECIFICATION Spec
CONSTANTS
  SECTOR = 4
  MAX_FILES = 4
  MAX_PROC_FILES = 3
  MAX_PHDRS = 3
  MAX_SHARED_LIBS = 2
  ModuleAddr = 201
  LookupAddr = 202
  PAGE = 4
  EHDR = 2
  PHDR = 1
  TGAHEAD = 2
  CHUNK = 5
  WIDTH = 8
  HeapStart = 8
  Hash <- MCHash
  Disks <- MCDisks
  Wallpaper <- W
  Program <- S
INVARIANTS WallpaperExact SegmentsIntact InBounds RelocatedOnce CallsResolved FilesApart
PROPERTY LoadEnds
CHECK_DEADLOCK FALSE
