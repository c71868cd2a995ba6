CONSTANTS
  Procs = {1, 2}
  Orders <- MCOrders
  Files <- MCFiles
  Remote <- MCRemote
  MaxDepth = 2
  Unset = Unset
SPECIFICATION Spec
INVARIANTS
  NothingLost
  DepthIsExact
  RemoteIsPublished
CHECK_DEADLOCK FALSE
