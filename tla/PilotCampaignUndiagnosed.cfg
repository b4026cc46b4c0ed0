SPECIFICATION MCSpec
CONSTANTS
  None = None
  FitTasks <- MCFitTasks
  GateTasks <- MCGateTasks
  HoldoutTasks <- MCHoldoutTasks
  GateVariants <- MCShortVariants
  Samples <- MCShortSamples
  Harnesses <- MCHarnesses
  Ceiling <- MCCeiling
  Usages <- MCUsages
  Replicates = 1
  MaxSurprises = 1
  MaxFaults = 0
  t1 = t1
  t2 = t2
  Settings = {"secret"}
  Catalogs <- MCCatalogs
  Partitions = {"fine", "across"}
  Crossing = {"across"}
  SessionTokens = {1}
  MaxRuns = 1
  NoCall = NoCall
  SplitOf <- MCSplitOf
  PureCells = {"cell"}
  Outputs = {"o1", "o2"}
  CorrectPairs <- MCCorrect
  Authorities <- MCAuthorities
  GradeThreads <- MCThreads
  MaxExecutions = 1
  MaxRegistrations = 1
INVARIANTS
  InvalidCandidatesRollBack
CHECK_DEADLOCK FALSE
