CONSTANTS
  MaxVersion = 4
  MaxRounds = 2
  MaxCalls = 1
  MaxLoops = 3
SPECIFICATION Spec
INVARIANTS LogFolds
CHECK_DEADLOCK FALSE
