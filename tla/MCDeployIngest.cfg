SPECIFICATION FairSpec
CONSTANTS
  Scripts <- SomeScripts
  Works <- Working
  Installed = "old"
  MaxFaults = 2
  MaxReboots = 1
INVARIANTS
  TypeOK
  RunsWhatIsInstalled
PROPERTIES
  StoppedIsStarted
