SPECIFICATION Spec
CONSTANTS
  Secrets = {s1, s2, s3}
  Objects = {o1, o2, o3, o4, o5}
  None = None
SYMMETRY Symmetry
INVARIANTS IndexMatchesObjects
PROPERTIES AnswerIsTrue
CHECK_DEADLOCK FALSE
