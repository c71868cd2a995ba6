CONSTANTS
  Procs = {1, 2}
  Calls <- MCCalls
  Root = "root"
  Threshold = 50
  Unset = Unset
SPECIFICATION Spec
INVARIANTS DocumentsAgree  FailureRaisesIncident BaselineKept RegressionsReported
CHECK_DEADLOCK FALSE
