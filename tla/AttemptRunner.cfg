SPECIFICATION FairSpec
CONSTANTS
  r1 = r1
  r2 = r2
  s1 = s1
  Runners <- MCRunners
  Slots <- MCSlots
  Assignments <- MCAssignments
  Reported <- MCReported
  MaxAttempts = 2
  MaxTotalTokens = 3
  MaxTokensPerAttempt = 2
  MaxDamage = 1
  MaxEpoch = 2
  MaxFaults = 1
INVARIANTS
  RunnersInv
  ReplaysAgree
  CallHoldsReservation
  ReturnedIsAccounted
PROPERTIES
  AccountKept
  ScheduledPlaceKept
  CallsComeBack
CHECK_DEADLOCK FALSE
