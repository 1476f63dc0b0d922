CONSTANTS
  Requests = {r1, r2}
  Nodes = {n1}
  Operations = {o1}
  None = None
  MaxAttempts = 2
  Kinds <- UploadAndCancel
  PortTransitions <- NoTransitions
  CallsFail = FALSE
  NodesCrash = FALSE
SPECIFICATION Spec
SYMMETRY Names
INVARIANT AcceptedCancelPersists
CHECK_DEADLOCK FALSE
