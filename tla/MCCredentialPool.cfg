SPECIFICATION Spec
CONSTANTS
  a = a
  b = b
  x = x
  p = p
  q = q
  None = None
  Creds = {a, b, x}
  Providers = {p, q}
  Provider <- MCProvider
  Baseline <- MCBaseline
  Sessions = {s1, s2}
  Threshold = 2
  LeaseTime = 1
  CircuitTime = 1
  MaxRetryAfter = 1
INVARIANTS ActiveIsCount CircuitMatchesFailures
PROPERTIES InvalidStaysUnused
SYMMETRY Symmetry
