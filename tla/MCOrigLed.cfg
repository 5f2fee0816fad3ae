SPECIFICATION FairSpec
CONSTANTS
  TransientBlinks = 5
  MaxFaults = 2
INVARIANTS
  NeverLeftDark
  WorksServeDisplay
PROPERTIES
  ReturnsToStable
