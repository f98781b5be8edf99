SPECIFICATION Spec
CONSTANTS
  a = a
  b = b
  c = c
  d = d
  e = e
  Threads = {t1}
  Servers = {a, b, c, d, e}
  Primaries = {a}
  Overlapping = {a}
  Fallbacks <- Sparse
  Enabled = {a, b, c}
  Timeout <- OneTick
  MaxBudget = 3
  OpenTime = 1
  MaxShift = 1
  MaxHealth = 4
  Unobserved = none
  MaxTime = 3
  MaxFailures = 4
PROPERTY FailureAdvances
