SPECIFICATION Spec
CONSTANTS
  InitialDelay = 5
  MaxDelay = 60
  MaxFailures = 7
PROPERTIES
  DeadlineKept
  BackoffDoubles
