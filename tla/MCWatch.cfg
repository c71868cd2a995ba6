SPECIFICATION Spec
CONSTANTS
  Edits = 2
  Touches = 1
  Fallbacks = {"fail", "env"}
INVARIANTS
  NoCredentialsAtRest
  ContextsReleased
PROPERTIES
  ChangesPickedUp
