CONSTANTS
  Requests = {r1, r2, r3}
  Nodes = {n1}
  Operations = {o1}
  None = None
  MaxAttempts = 2
  Kinds <- UploadAndCancel
  PortTransitions <- NoTransitions
  CallsFail = TRUE
  NodesCrash = TRUE
SPECIFICATION Spec
SYMMETRY Names
INVARIANT TypeOK
INVARIANT TransferDescribesInput
INVARIANT WorkNeedsInput
INVARIANT CurrentJobPersisted
INVARIANT LoggedWorkHappened
PROPERTY StatusMovesAllowed
CHECK_DEADLOCK FALSE
