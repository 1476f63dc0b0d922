CONSTANTS
  Requests = {r1, r2, r3}
  Nodes = {n1}
  Operations = {o1}
  None = None
  MaxAttempts = 2
  Kinds <- UploadAndReports
  PortTransitions <- NoTransitions
  CallsFail = FALSE
  NodesCrash = FALSE
SPECIFICATION FairSpec
INVARIANT ReportsNeverStored
PROPERTY QueuedIsDispatched
CHECK_DEADLOCK FALSE
