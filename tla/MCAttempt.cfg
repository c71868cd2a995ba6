SPECIFICATION Spec
CONSTANTS
  Unset = Unset
  BadRegex = BadRegex
  t1 = t1
  t2 = t2
  p1 = p1
  p2 = p2
  Tests <- MCTests
  Suites <- MCSuites
  Observed <- MCObserved
INVARIANTS
  PassIsWarranted
  LeavesInOrder
  CredentialsKeptApart
PROPERTIES
  OnlyPassingTestsHandOn
  EveryAttemptEnds
CHECK_DEADLOCK FALSE
