SPECIFICATION FairSpec
CONSTANTS
  Messages = {1, 2, 3}
  LastTurn = 0
  MaxSteps = 2
ACTION_CONSTRAINT InOrder
INVARIANTS
  TypeOK
  HandledOnce
  NoLostWake
PROPERTIES
  CancelStopsSteps
  ImplementsTrace
  Converges
