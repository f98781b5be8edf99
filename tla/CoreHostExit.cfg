\* A Restart and a Shutdown that are both acknowledged.
SPECIFICATION FairSpec
CONSTANTS
  w1 = w1
  w2 = w2
  Workers = {w1, w2}
  MaxCommands = 2
  MaxLives = 2
  MaxFaults = 0
  MaxConfigs = 1
PROPERTIES
  ExitHonoured
