SPECIFICATION SystemSpec
CONSTANTS
  Leases = {l1}
  NoLease = NoLease
  MaxGeneration = 2
  KeyIds = {k1}
  FirstKey = k1
  Projections = {p1, p2}
  NoProjection = NoProjection
  MaxCopies = 1
  MaxBoot = 0
INVARIANTS NothingOutlivesEviction
CHECK_DEADLOCK FALSE
