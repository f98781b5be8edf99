\* Two concurrent commands against start, failures, stop and restart.
SPECIFICATION FairSpec
CONSTANTS
  w1 = w1
  w2 = w2
  Workers = {w1, w2}
  MaxCommands = 2
  MaxLives = 2
  MaxFaults = 1
  MaxConfigs = 2
INVARIANTS
  QuietAtEnd
  RestartHonoured
PROPERTIES
  ReloadMonotonic
  ShutdownCompletes
  EndpointRecovers
  BackendErrorEnds
