SPECIFICATION MCLiveSpec
CONSTANTS
  c1 = c1
  c2 = c2
  o1 = o1
  Candidates <- MCCandidates
  Seed = Seed
  Absent = Absent
  Manifests <- MCAllManifests
  Others <- MCOthers
  MaxLoops = 2
  MaxForeign = 1
  MaxFaults = 1
  ExplorationTasks <- MCExploration
  SharedOptions <- MCShared
  ProposedAs <- MCProposals
  SeedHarness = "seed"
  Measures <- MCMeasures
  Unused = Unused
  MaxEvaluations = 4
  MaxSlips = 1
  MaxBroken = 1
INVARIANTS
  LoopInv
  NoGateResultTwice
  JournalReplays
  FeedbackIsFresh
PROPERTIES
  PromiseKept
  LoopEnds
CHECK_DEADLOCK FALSE
