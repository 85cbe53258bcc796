CONSTANTS
  MaxVersion = 4
  MaxRounds = 2
  MaxCalls = 1
  MaxLoops = 3
SPECIFICATION FairSpec
PROPERTIES FenceHolds RoundsAreCovered Converges
CHECK_DEADLOCK FALSE
