CONSTANTS
  o1 = o1
  Requests = {r1, r2}
  Nodes = {n1}
  Operations = {o1}
  None = None
  MaxAttempts = 2
  Kinds <- UploadAndCancel
  PortTransitions <- NoTransitions
  CallsFail = TRUE
  NodesCrash = TRUE
  Operation <- OneOperation
  BodySize = 2
  ChunkSize = 2
  Accepts = {a1}
  Redelivers = FALSE
SPECIFICATION ServiceSpec
SYMMETRY Names
INVARIANT FinalizedIsRecorded
INVARIANT NoProcessingWhileActive
VIEW Observed
CHECK_DEADLOCK FALSE
