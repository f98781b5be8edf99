SPECIFICATION Spec
CONSTANTS
  p1 = p1
  p2 = p2
  Ports = {p1, p2}
  NoPort = none
  MaxRules = 4
INVARIANT FailureReported
