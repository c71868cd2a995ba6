SPECIFICATION Spec
CONSTANTS
  N = 4
  Extracts <- MCExtracts
  Refs <- MCRefs
  RetryCount <- MCRetryCount
  TraceOnly <- MCTraceOnly
  AllowFailure <- MCAllowFailure
  Tags <- MCTags
  Options <- MCOptions
INVARIANTS
  CommandSeesSnapshot
