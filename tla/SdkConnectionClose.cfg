SPECIFICATION Spec
CONSTANTS
  Conns = {c1}
  Sockets = {s1}
  MaxRetries = 2
  MaxQueue = 2
  MaxSends = 1
  None = None
INVARIANTS
  CloseIsFinal
