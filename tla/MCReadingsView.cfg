SPECIFICATION HistorySpec
CONSTANTS
  Rows <- TwoRows
  Time <- Times
  Device <- TwoDevices
  PageSizes = {1, 2}
  DefaultSize = 1
  MaxRequests = 2
  MaxFaults = 1
INVARIANTS
  SerialFilters
  SerialPosition
  LoadingIsServed
  WholeHistory
PROPERTIES
  EndsOnLastFilters
