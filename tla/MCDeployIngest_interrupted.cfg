SPECIFICATION Spec
CONSTANTS
  Scripts <- SomeScripts
  Works <- Working
  Installed = "old"
  MaxFaults = 1
  MaxReboots = 0
INVARIANTS
  IdenticalRuns
