SPECIFICATION RepairSpec
CONSTANTS
  CallIds = {c1, c2}
  MaxCalls = 2
  MaxLog = 12
SYMMETRY CallSymmetry
INVARIANTS
  ClosersAccepted
  InterruptedCallsAnswered
