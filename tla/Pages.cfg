CONSTANTS
  Threads = {1, 2}
  Spaces = {1}
  Space <- OneSpace
  BLOCKS = 5
  BITS = 2
  START = 2
  TABLE = 2
  UINT = 12
  MAX_ADD_TRIES = 10
  LIMIT = 4
  Requests = {1, 2, 6}
  MaxVirt = 4
  None = None
SPECIFICATION Spec
INVARIANTS
  PagesExclusive
  NothingLeaks
  RangesDisjoint
  AllocInv
  MappingsKept
CHECK_DEADLOCK FALSE
