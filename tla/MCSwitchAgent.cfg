CONSTANTS
  Stream = {s1, s2}
  Nil = Nil
  MaxGeneration = 3
  LldpOutput <- MCLldpOutput
SPECIFICATION FairSpec
INVARIANTS BroadcastNeverBlocks NoMissedUpdate
PROPERTY ImplementsFeed
