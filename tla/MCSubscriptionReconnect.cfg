CONSTANTS
  sw1 = sw1
  sw2 = sw2
  t1 = t1
  t2 = t2
  Switch = {sw1, sw2}
  Target = {t1, t2}
  Slot = {1, 2}
  NodeName = {"node1"}
  IgnoredPort = {"mgmt"}
  Nil = Nil
  Syncer = Syncer
  MaxTries = 2
  Scenarios <- Reconnect
SPECIFICATION FairSpec
PROPERTY HealthRecovers
