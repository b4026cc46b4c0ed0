SPECIFICATION MCSpec
CONSTANTS
  x1 = x1
  x2 = x2
  answer = answer
  m1 = m1
  m2 = m2
  apart = apart
  Nodes <- MCNodes
  Responses <- MCResponses
  Executors <- MCExecutors
  Absent = Absent
  MaxStarts = 2
  MaxFailures = 1
  Missing = Missing
  Cells <- MCCells
  Tasks = 2
  Pipelines = 2
  Mutations <- MCMutations
  Components <- MCMutations
  ComponentOf <- MCComponentOf
  Shapes <- MCShapes
  FitOutcomes <- MCFitOutcomes
  MaxLapses = 1
  Writers <- MCExecutors
  Digests <- MCDigests
  Shards <- MCShards
  ShardOf <- MCShardOf
  MaxFaults = 1
  MaxCrashes = 2
  MaxTouched = 1
INVARIANTS
  ExecutorInv
  BurnedEvidenceNeverPromotes
  ProposalsStand
  DurableInv
PROPERTIES
  OneHistory
  StoreIsDurable
SYMMETRY MCSymmetry
