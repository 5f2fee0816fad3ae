SPECIFICATION HistorySpec
CONSTANTS
  Rows <- TwoRows
  Time <- OneTime
  Device <- TwoDevices
  PageSizes = {1, 2}
  DefaultSize = 1
  MaxRequests = 1
  MaxFaults = 0
INVARIANTS
  WholeHistory
