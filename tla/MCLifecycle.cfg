SPECIFICATION HooksSpec
CONSTANTS
  MaxHooks = 3
  HookLists <- MCHookLists
INVARIANTS
  FailedHookLeavesNothing
  StressLeavesNoProcess
PROPERTIES
  HooksEnd
