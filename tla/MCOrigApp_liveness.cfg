SPECIFICATION FairSpec
CONSTANTS
  r1 = r1
  r2 = r2
  r3 = r3
  Readings = {r1, r2}
  Capacity = 1
  MsgIds = 3
  Tokens = 3
  SeqModulo = 2
  QueueLength = 8
  MaxFaults = 1
  InitialDelay = 1
  MaxDelay = 1
PROPERTIES
  Recovers
  Delivers
