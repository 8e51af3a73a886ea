SPECIFICATION Spec
CONSTANTS
  None = None
  MaxRuns = 2
  Installers = {i1, i2}
  Hosts = {h1, h2}
  MaxFaults = 1
INVARIANTS
  JobsMatchFiles
  NoOpIsTrue
PROPERTIES
  RecordTrue
  ValueOnlyWhenWired
  InstallEnds
CHECK_DEADLOCK FALSE
