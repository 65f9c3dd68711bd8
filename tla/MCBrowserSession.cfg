SPECIFICATION Spec
CONSTANTS
  Actions = {"start", "stop", "borrow", "return", "execute", "bind"}
  Approved = {"borrow", "execute"}
  Targets = {u}
  MaxGrants = 3
  Secrets = {s}
  Origins = {o1, o2}
  Contents = {c1}
  None = None
  MaxQueue = 2
  MaxChanges = 1
INVARIANTS GivenBack SeesOwnEffects AtMostOnce OneUsePerGrant ReceiptIsOwn
PROPERTIES CallEnds BorrowEnds
CHECK_DEADLOCK FALSE
