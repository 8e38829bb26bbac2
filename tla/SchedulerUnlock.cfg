CONSTANTS
  MAX_PROCS = 2
  MAX_PROC_THREADS = 2
  LockHandles = {"L"}
  MonitorHandles = {"MSG"}
  MSG_MONITOR = "MSG"
  Diffs = {}
  UINT = 8
  MaxSignal = 1
  MaxPending = 2
  MaxDrain = 2
  NULL = NULL
SPECIFICATION FairSpec
PROPERTY ReadyThreadsRun
