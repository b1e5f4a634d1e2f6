SPECIFICATION FairSpec
CONSTANTS
  NodeLabels <- Labels
  SwitchLabels <- Switches
  Starts <- StartStates
  Role = "ScaleOut"
  Budgets <- Events
  None = None
INVARIANT NamesUnique
PROPERTIES NamesKept InSync
CHECK_DEADLOCK FALSE
