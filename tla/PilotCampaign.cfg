SPECIFICATION MCSpec
CONSTANTS
  None = None
  FitTasks <- MCFitTasks
  GateTasks <- MCGateTasks
  HoldoutTasks <- MCHoldoutTasks
  GateVariants <- MCGateVariants
  Samples <- MCSamples
  Harnesses <- MCHarnesses
  Ceiling <- MCCeiling
  Usages <- MCUsages
  Replicates = 2
  MaxSurprises = 2
  MaxFaults = 2
  t1 = t1
  t2 = t2
  Settings = {"secret"}
  Catalogs <- MCCatalogs
  Partitions = {"fine", "across"}
  Crossing = {"across"}
  SessionTokens = {1}
  MaxRuns = 3
  NoCall = NoCall
  SplitOf <- MCSplitOf
  PureCells = {"cell"}
  Outputs = {"o1", "o2"}
  CorrectPairs <- MCCorrect
  Authorities <- MCAuthorities
  GradeThreads <- MCThreads
  MaxExecutions = 2
  MaxRegistrations = 2
INVARIANTS
  OnlyRealFaultsStop
  ConclusionsAreEarned
  TerminalIsExact
  EvidenceIsOneReview
  GradesAreOwn
SYMMETRY MCSymmetry
CHECK_DEADLOCK FALSE
