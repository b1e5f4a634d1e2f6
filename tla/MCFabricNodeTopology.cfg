SPECIFICATION FairSpec
CONSTANTS
  Actors <- MCActors
  Hosts <- MCHosts
  PodSets <- MCPodSets
  Configured <- MCConfigured
  Labels <- MCLabels
  Scenarios <- MCScenarios
  MaxLag = 2
  Failed = Failed
  None = None
PROPERTIES OneWriterOfTopologies ReportAtLast TopologiesAtLast
