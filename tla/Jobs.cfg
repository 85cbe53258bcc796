SPECIFICATION FairSpec
CONSTANTS
  Job = {j1, j2}
  Owner = {o1}
  NoOwner = NoOwner
  Wait = {w1, w2}
  MaxActive = 2
CHECK_DEADLOCK FALSE
INVARIANTS
  TypeOK
  OutcomeReachesSomeone
  NotToldTwice
  QuietAfterDisposal
PROPERTIES
  DisposalEnds
