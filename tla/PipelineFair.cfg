CONSTANTS
  t1 = t1
  t2 = t2
  Transfers = {t1, t2}
  Accepts = {a1, a2}
  None = None
  Operation <- OneOperation
  FileSize <- ThreeAndNone
  ChunkSize = 2
  IngressReplaced = TRUE
  CallsFail = FALSE
  Redelivers = FALSE
  NodesStop = FALSE
SPECIFICATION FairSpec
INVARIANT TransfersNeverComplete
PROPERTY ChunksAreTaken
PROPERTY CompleteIsFinalized
CHECK_DEADLOCK FALSE
