CONSTANTS
  Requests = {r1, r2}
  Keys = {k1, k2}
  Policies <- ThePolicies
  Schemas = {TRUE, FALSE}
  MaxAttempts = 3
  None = None
  CallsFail = TRUE
  NodesStop = TRUE
SPECIFICATION Spec
INVARIANT TypeOK
INVARIANT AcceptedNamesRow
INVARIANT RefusedLeavesNothing
INVARIANT TraceNamesRow
INVARIANT EveryAcceptanceCreates
SYMMETRY Interchangeable
CHECK_DEADLOCK FALSE
