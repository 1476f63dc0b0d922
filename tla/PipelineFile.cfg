CONSTANTS
  t1 = t1
  t2 = t2
  Transfers = {t1}
  Accepts = {a1, a2}
  None = None
  Operation <- OneOperation
  FileSize <- ThreeAndNone
  ChunkSize = 2
  IngressReplaced = TRUE
  CallsFail = TRUE
  Redelivers = TRUE
  NodesStop = TRUE
SPECIFICATION Spec
SYMMETRY Receivers
INVARIANT TypeOK
INVARIANT ReceivedChunkOnDisk
INVARIANT FinalizedFileIsWhole
INVARIANT FinalizeHasEveryChunk
PROPERTY StartLeavesBusAccepted
PROPERTY DeliverySpec
CHECK_DEADLOCK FALSE
