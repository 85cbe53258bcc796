CONSTANTS
  Callers = {c1, c2}
  Sessions = {s1}
  Kinds = {"prepare", "load", "inspect", "append"}
  None = None
  MaxEmits = 1
  MaxFaults = 1
SPECIFICATION FairSpec
PROPERTIES CallsReturn
