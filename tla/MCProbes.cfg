SPECIFICATION Spec
CONSTANTS
  Kinds <- MCKinds
  MaxTries = 2
  MaxIdle = 1
INVARIANTS
  PassIsEarned
  FailureIsDeserved
  NothingLeftOpen
PROPERTY ProbeReturns
CHECK_DEADLOCK FALSE
