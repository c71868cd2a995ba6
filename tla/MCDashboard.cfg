SPECIFICATION Spec
CONSTANTS
  api = api
  web = web
  a1 = a1
  a2 = a2
  a3 = a3
  w1 = w1
  x1 = x1
  Push <- MCPush
  Project = {api, web}
  ProjectOf <- MCProjectOf
  Authorised <- MCAuthorised
  Keep = 1
  LastSecond = 1
  Restarts = 1
SYMMETRY Alike
INVARIANTS
  HistoryBounded
  NewestKept
  AcceptedStored
CHECK_DEADLOCK FALSE
