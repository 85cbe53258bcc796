SPECIFICATION FairSpec
CONSTANTS
  N = 4
  MaxParallel = 2
CHECK_DEADLOCK FALSE
INVARIANTS
  AllAnswered
  ExclusiveBarrier
PROPERTIES
  AppendsAccepted
  AbortStopsStarts
  Converges
