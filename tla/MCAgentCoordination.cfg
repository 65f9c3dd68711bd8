\* Two agents, three files of two parts, two runs and two edits; liveness, so no symmetry.
SPECIFICATION Spec
CONSTANTS
  a1 = a1
  a2 = a2
  p1 = p1
  p2 = p2
  h1 = h1
  h2 = h2
  Agents = {a1, a2}
  Jobs = {j1, j2}
  Paths = {p1, p2, p3}
  Parts = {h1, h2}
  Plans <- MCPlans
  MaxRuns = 2
  MaxEdits = 2
  None = None
INVARIANTS IntegratedIsInHead EditsSurvive CommitIsAccounted
PROPERTIES RunEnds
CHECK_DEADLOCK FALSE
