SPECIFICATION MCSpec
CONSTANTS
  Hosts <- HostNames
  Neighborhoods <- Reported
  Configurations <- MCConfigurations
  SampleTiers <- MCTiers
INVARIANTS GroupsAreJoined PathsAreUnique KeysReadBack OverlapIsReal
PROPERTY AlgorithmsEnd
CHECK_DEADLOCK FALSE
