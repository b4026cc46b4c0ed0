SPECIFICATION MCSpec
CONSTANTS
  c1 = c1
  c2 = c2
  o1 = o1
  Candidates <- MCCandidates
  Seed = Seed
  Absent = Absent
  Manifests <- MCPromptOnly
  Others <- MCOthers
  MaxLoops = 1
  MaxForeign = 0
  MaxFaults = 0
  ExplorationTasks <- MCExploration
  SharedOptions <- MCShared
  ProposedAs <- MCProposals
  SeedHarness = "seed"
  Measures <- MCMeasures
  Unused = Unused
  MaxEvaluations = 0
  MaxSlips = 0
  MaxBroken = 0
INVARIANT NoStrandedRound
CHECK_DEADLOCK FALSE
