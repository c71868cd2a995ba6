SPECIFICATION Spec
CONSTANTS
  timeout = timeout
  mismatch = mismatch
  none = none
  Runs = 4
  Workers = 2
  Messages <- MCMessages
  NoMessage = none
INVARIANTS
  ResultComplete
  ExitMeansAllPassed
  AtMostOneLate
PROPERTIES
  Termination
