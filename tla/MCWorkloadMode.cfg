SPECIFICATION Spec
CONSTANTS
  run = run
  blender = blender
  Ids = {run, blender}
  Wrapped = {run}
  Domain <- MCDomain
  Bridges = {b1}
  MaxInbox = 2
  MaxSignals = 2
  MaxEvents = 1
  None = None
INVARIANTS DaemonIsCoherent
PROPERTIES GhostsLeave AuthorityFollowsBridge ViewCatchesUp
CHECK_DEADLOCK FALSE
