CONSTANTS
  N = 2
  W = 4
  UINT = 16
  MAX_RACE_TRIES = 2
  BATCH = 2
  Producers = {}
  Consumers = {c1}
  MaxMsgs = 8
SPECIFICATION FairSpec
PROPERTY FullQueueDrains
