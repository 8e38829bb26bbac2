CONSTANTS
  N = 2
  W = 8
  UINT = 64
  MAX_RACE_TRIES = 2
  BATCH = 2
  Producers = {p1}
  Consumers = {c1, c2}
  MaxMsgs = 3
SPECIFICATION FairSpec
INVARIANT QueueInv
PROPERTIES
  ImplementsChannel
  AllHandled
