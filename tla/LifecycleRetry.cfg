CONSTANTS
  Requests = {r1, r2, r3, r4}
  Nodes = {n1}
  Operations = {o1}
  None = None
  MaxAttempts = 1
  Kinds <- WithRetries
  PortTransitions <- DispatchedFails
  CallsFail = FALSE
  NodesCrash = FALSE
SPECIFICATION RetrySpec
SYMMETRY Names
INVARIANT RetryBudget
INVARIANT CurrentJobPersisted
PROPERTY RetryCountNeverFalls
PROPERTY AtomicSpec
CHECK_DEADLOCK FALSE
