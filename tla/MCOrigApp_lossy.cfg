SPECIFICATION Spec
VIEW View
SYMMETRY Symmetry
CHECK_DEADLOCK FALSE
CONSTANTS
  r1 = r1
  r2 = r2
  r3 = r3
  Readings = {r1, r2, r3}
  Capacity = 2
  MsgIds = 3
  Tokens = 3
  SeqModulo = 8
  QueueLength = 3
  MaxFaults = 2
  InitialDelay = 1
  MaxDelay = 1
INVARIANTS
  ResultMeansStored
  SparkplugOrder
PROPERTIES
  PayloadKept
  ImplementsOutbox
  NamesAreFresh
