SPECIFICATION Spec
SYMMETRY ThreadSymmetry
CONSTANTS
  a = a
  b = b
  c = c
  d = d
  e = e
  Threads = {t1, t2}
  Servers = {a, b, c, d, e}
  Primaries = {a, c, e}
  Overlapping = {a, e}
  Fallbacks <- Sparse
  Enabled = {a, b, c}
  Timeout <- Uneven
  MaxBudget = 2
  OpenTime = 1
  MaxShift = 1
  MaxHealth = 4
  Unobserved = none
  MaxTime = 3
  MaxFailures = 4
INVARIANTS CircuitSound
PROPERTIES ProbesFirst AsksSomeone
