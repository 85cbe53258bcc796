SPECIFICATION FairSpec
CONSTANT
  MaxEvents = 4
INVARIANTS
  TypeOK
  InOrderOnce
  NeverStranded
PROPERTIES
  ImplementsDurableLog
  EventuallyStored
