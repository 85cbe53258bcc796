SPECIFICATION Spec
CONSTANTS
  Messages = {1, 2}
  LastTurn = 0
  MaxSteps = 2
ACTION_CONSTRAINT InOrder
INVARIANT
  LiveDriverClaims
