SPECIFICATION MCSpec
CONSTANTS
  x1 = x1
  x2 = x2
  answer = answer
  m1 = m1
  m2 = m2
  apart = apart
  Nodes <- MCNodes
  Responses <- MCResponses
  Executors <- MCExecutors
  Absent = Absent
  MaxStarts = 2
  MaxFailures = 0
  Missing = Missing
  Cells <- MCCells
  Tasks = 2
  Pipelines = 2
  Mutations <- MCMutations
  Components <- MCMutations
  ComponentOf <- MCComponentOf
  Shapes <- MCShapes
  FitOutcomes <- MCFitOutcomes
  MaxLapses = 0
  Writers <- MCExecutors
  Digests <- MCDigests
  Shards <- MCShards
  ShardOf <- MCShardOf
  MaxFaults = 0
  MaxCrashes = 0
  MaxTouched = 0
INVARIANTS
  ReservationIsBurned
SYMMETRY MCSymmetry
