SPECIFICATION MCSpec
CONSTANTS
  p1 = p1
  p2 = p2
  s1 = s1
  Candidates <- MCCandidates
  SkillCandidates <- MCSkillCandidates
  Seed = Seed
  MaxEvaluations = 8
  MaxTokens = 7
  GateEvaluations = 2
  GateTokens <- MCGateTokens
  ProbeEvaluations = 4
  ArmTokens = 2
  AttemptTokens = 1
  ArmCharges <- MCArmCharges
  MaxFaults = 1
  MaxRestarts = 1
  Contenders <- MCContenders
  Protocols <- MCProtocols
  ProtocolOf <- MCProtocolOf
  Policies <- MCPolicies
  TrialSets <- MCTrialSets
  CheckSets <- MCCheckSets
  Unset = Unset
  Scale = 2
  MaxBatches = 2
  MaxEvidence = 2
  MaxSlips = 1
INVARIANTS
  EveryChargeDecided
CHECK_DEADLOCK FALSE
