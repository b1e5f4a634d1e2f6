SPECIFICATION FairSpec
CONSTANTS
  proc1 = proc1
  proc2 = proc2
  verbs1 = verbs1
  file1 = file1
  file2 = file2
  content1 = content1
  None = None
  Procs = {proc1, proc2}
  VerbsFiles = {verbs1}
  Files = {file1, file2}
  Roots = {1, 2}
  Contents = {content1}
  Kinds <- MCKinds
  Offsets = {1, 2}
  Verbs <- MCVerbs
  Root <- MCRoot
  Provider <- MCProvider
  Content <- MCContent
  Callbacks <- MCCallbacks
  RetryLimit = 2
  RingCap = 2
  Scenarios <- MCScenarios
INVARIANT EachProbeOnce
PROPERTIES DiskKeeps CachedAtLast LearnedAtLast
