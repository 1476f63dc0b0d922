CONSTANTS
  t1 = t1
  t2 = t2
  Transfers = {t1}
  Accepts = {a1, a2}
  None = None
  Operation <- OneOperation
  FileSize <- ThreeAndNone
  ChunkSize = 2
  IngressReplaced = FALSE
  CallsFail = FALSE
  Redelivers = FALSE
  NodesStop = FALSE
SPECIFICATION FairSpec
PROPERTY VerifiedEndsWaiting
CHECK_DEADLOCK FALSE
