SPECIFICATION FairSpec
CONSTANTS
  P1 = P1
  P2 = P2
  None = None
  Malformed = Malformed
  IPs <- MCIPs
  Ends <- MCEnds
  PodStates <- MCPodStates
  Scenarios <- MCScenarios
  QueueSize = 2
  BatchSize = 2
CHECK_DEADLOCK FALSE
INVARIANTS  FlowsAreRight
PROPERTIES CacheAtLast StopsWhenDone
