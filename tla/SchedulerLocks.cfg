CONSTANTS
  MAX_PROCS = 2
  MAX_PROC_THREADS = 3
  LockHandles = {"L"}
  MonitorHandles = {"MSG"}
  MSG_MONITOR = "MSG"
  Diffs = {}
  UINT = 4
  MaxSignal = 1
  MaxPending = 2
  MaxDrain = 2
  NULL = NULL
SPECIFICATION Spec
INVARIANTS
  TypeOK
  MutualExclusion
  WaitQueueExact
  OnlyInitialisedRuns
PROPERTY ImplementsFifoLock
