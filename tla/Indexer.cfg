CONSTANTS
  Docs = {d1, d2, d3}
  Workers = {w1, w2}
  Cap = 2
  None = None
  ElasticFails = TRUE
  DeadLetterFails = TRUE
SPECIFICATION FairSpec
INVARIANT TypeOK
INVARIANT DocumentIsSomewhere
INVARIANT StopDrains
PROPERTY OutboxSpec
PROPERTY DocumentsSettle
PROPERTY StopEnds
CHECK_DEADLOCK FALSE
