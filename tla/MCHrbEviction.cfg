SPECIFICATION SystemSpec
CONSTANTS
  Leases = {l1}
  NoLease = NoLease
  MaxGeneration = 2
  KeyIds = {k1}
  FirstKey = k1
  Projections = {p1, p2}
  NoProjection = NoProjection
  MaxCopies = 2
  MaxBoot = 1
INVARIANTS EvictedMeansReclaimed
PROPERTIES ZeroizedFileIsGone SecretsBeforeSignal EvictionConcludes
CHECK_DEADLOCK FALSE
