SPECIFICATION Spec
CONSTANTS
  Canonical <- CanonicalNames
  Worlds <- MCWorlds
  Scenarios <- MCScenarios
INVARIANTS LabelsHaveOwner SuccessIsComplete
PROPERTIES OnlyFills LabelledInTheEnd DeletionCompletes
