CONSTANTS
  Requests = {r1, r2}
  Keys = {k1, k2}
  Policies <- ThePolicies
  Schemas = {FALSE}
  MaxAttempts = 3
  None = None
  CallsFail = FALSE
  NodesStop = FALSE
SPECIFICATION Spec
INVARIANT OneOperationPerKey
CHECK_DEADLOCK FALSE
