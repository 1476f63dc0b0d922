CONSTANTS
  w = w
  x = x
  w1 = w1
  w2 = w2
  x1 = x1
  NodeIds = {w, x}
  Processes = {w1, w2, x1}
  NodeOf <- TheNodes
  RoleOf <- TheRoles
  Configured = {w}
  Shared = {}
  Dispatches = {d1}
  MaxBeats <- TheBeats
  MaxFailures = 1
  None = None
SPECIFICATION FairSpec
INVARIANT TypeOK
INVARIANT CommandsReachConsumer
INVARIANT HealthyIsEarned
INVARIANT LastHeartbeatIsSampled
PROPERTY HeartbeatsGoForward
PROPERTY StartedBecomesHealthy
CHECK_DEADLOCK FALSE
