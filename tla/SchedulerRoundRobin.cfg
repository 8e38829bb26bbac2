CONSTANTS
  MAX_PROCS = 2
  MAX_PROC_THREADS = 2
  LockHandles = {}
  MonitorHandles = {"MSG"}
  MSG_MONITOR = "MSG"
  Diffs = {1}
  UINT = 4
  MaxSignal = 1
  MaxPending = 2
  MaxDrain = 1
  NULL = NULL
SPECIFICATION TickingSpec
PROPERTIES
  CountedThreadsRun
  LockFreeThreadsRun
