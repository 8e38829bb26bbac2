CONSTANTS
  MAX_PROCS = 2
  MAX_PROC_THREADS = 2
  LockHandles = {"L"}
  MonitorHandles = {"MSG"}
  MSG_MONITOR = "MSG"
  Diffs = {1}
  UINT = 4
  MaxSignal = 1
  MaxPending = 2
  MaxDrain = 2
  NULL = NULL
SPECIFICATION Spec
INVARIANTS
  WokenOwnsLock
  LockInv
PROPERTY OnlyUnlockWakesWaiters
