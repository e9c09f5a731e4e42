SPECIFICATION Spec
CONSTANTS
  Calls = {c1, c2}
  c1 = c1
  c2 = c2
  KindsOf <- OneTool
  Uploaders = {c1}
  Names = {n1, n2}
  NoName = NoName
  SlugBase <- OneBase
  RetryLimit = 2
  CheckpointCount = 1
  MaxFaults = 1
  FaultKinds <- EveryFault
SYMMETRY Symmetry
CHECK_DEADLOCK FALSE
INVARIANTS
  ActiveUnique
  RetriesPaidFor
  FilesMatchRows
  ToolAnswerTrue
  BaseEndsSession
