SPECIFICATION Spec
CONSTANTS
  Callers = {a, b}
  Plans <- MCPlans
  MaxRuns = 2
SYMMETRY CallerSymmetry
INVARIANTS
  EvidenceBehind
  StartedRunsSurvive
ACTION_CONSTRAINT FewFailures
