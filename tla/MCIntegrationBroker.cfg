SPECIFICATION Spec
CONSTANTS
  Brokers = {b1, b2, b3}
  Proposals = {p1}
  NoBroker = NoBroker
  NoProposal = NoProposal
  MaxHead = 1
  MaxVersion = 2
  MaxRunning = 3
INVARIANTS   NoBranchIsLeftBehind
PROPERTIES  PassEnds
CHECK_DEADLOCK FALSE
