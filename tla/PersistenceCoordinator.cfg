CONSTANTS
  Callers = {c1, c2}
  Sessions = {s1, s2}
  Kinds = {"prepare", "load", "inspect", "append"}
  None = None
  MaxEmits = 1
  MaxFaults = 1
SYMMETRY Symmetry
SPECIFICATION Spec
INVARIANTS TypeOK OwnerCoversStore ReservationHolds RetiredDurable
PROPERTIES RepairIsCold
