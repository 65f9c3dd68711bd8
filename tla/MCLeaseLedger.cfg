SPECIFICATION Spec
CONSTANTS
  Leases = {l1, l2}
  NoLease = NoLease
  MaxGeneration = 2
  KeyIds = {k1, k2}
  FirstKey = k1
  Projections = {p1}
  MaxBoot = 1
INVARIANTS GenerationChain TeardownIsGuarded OneFinalEvent
PROPERTIES ImplementsLifecycle RetiredKeyFreezes
SYMMETRY Symmetry
