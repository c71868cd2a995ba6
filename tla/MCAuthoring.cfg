CONSTANTS
  Procs = {1, 2, 3}
  Unset = Unset
  Work <- MCWork
  Shared <- MCShared
SPECIFICATION Spec
INVARIANTS FixSettles GeneratedIsValid ValidMeansWhole
CHECK_DEADLOCK FALSE
