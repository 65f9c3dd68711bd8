\* Two OS processes, one archive, any three events, and a disk that may fill up.
SPECIFICATION Spec
CONSTANTS
  Processes = {p1, p2}
  Archives = {a1}
  MaxId = 3
  DiskFills = TRUE
SYMMETRY Symmetry
INVARIANTS AcknowledgedIsKept ErasedIsHidden OnePlace RestoresAreAudited
