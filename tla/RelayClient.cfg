SPECIFICATION Spec
CONSTANTS
  Attempts = {a1, a2, a3}
  Origins = {u1, u2}
  None = None
  MaxRetries = 2
CHECK_DEADLOCK FALSE
INVARIANTS
  OneConnection
  SignatureStaysHome
PROPERTIES
  DestroyIsFinal
  KeepsTrying
