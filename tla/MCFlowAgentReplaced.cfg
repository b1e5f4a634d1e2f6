SPECIFICATION FairSpec
CONSTANTS
  u = u
  w = w
  p = p
  c = c
  r = r
  None = None
  Pods = {u, w}
  Procs = {p, c, r}
  QPNs = {1, 2}
  PodOf <- MCPodOf
  QPOf <- MCQPOf
  NameOf <- MCNameOf
  Makers = {p, r}
  HostNetwork = {u, w}
  RingCap = 1
  Scenarios <- MCScenarios
PROPERTY DeletesOnlyGone
