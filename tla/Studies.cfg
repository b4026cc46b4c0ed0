SPECIFICATION MCSpec
CONSTANTS
  k1 = k1
  k2 = k2
  r1 = r1
  r2 = r2
  r3 = r3
  h1 = h1
  h2 = h2
  b1 = b1
  b2 = b2
  original = original
  edited = edited
  Keys <- MCKeys
  Runs <- MCRuns
  KeyOf <- MCKeyOf
  Champions <- MCChampions
  Absent = Absent
  MaxOpenings = 2
  Schedules <- MCSchedules
  Pairs = 1
  Ceiling = 2
  Usages <- MCUsages
  Budgets <- MCBudgets
  Nobody = Nobody
  Other = Other
  MaxLedgers = 5
  MaxForeign = 1
  Kinds <- MCKinds
  Seeds = 2
  Plans <- MCPlans
  StudyPlan <- MCStudyPlan
  Claims <- MCClaims
  Boundaries <- MCBoundaries
  BoundaryOf <- MCBoundaryOf
  MaxStudies = 2
  MaxCompared = 3
  MaxRuntimes = 2
  Families <- MCFamilies
  ContextOrder <- MCContextOrder
  Nothing = Nothing
  MaxLapses = 1
  BenchmarkOf <- MCBenchmarkOf
  Unfrozen = Unfrozen
  MaxUpsets = 1
  None = None
  FitTasks <- MCFitTasks
  GateTasks <- MCGateTasks
  HoldoutTasks <- MCHoldoutTasks
  GateVariants <- MCGateVariants
  Samples <- MCSamples
  Harnesses <- MCHarnesses
  Incumbent = original
  ValidityOf <- MCValidityOf
  Journals <- MCChampions
  MaxFaults = 1
INVARIANTS
  StudiesInv
  AuthorizedIsComplete
  ClosureStandsForCalls
  AcceptedIsSealed
  EvidenceIsSnapshot
  DevelopmentStands
  FourArmStands
  JournalInv
PROPERTIES
  MovedRunBlocks
  TrustedUsageIsExact
SYMMETRY MCSymmetry
CHECK_DEADLOCK FALSE
