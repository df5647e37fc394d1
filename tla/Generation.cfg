SPECIFICATION FairSpec
CONSTANTS
  Messages = {m1, m2}
  MaxPending = 2
  Build = Build
  Debug = Debug
INVARIANTS
  RequestsServed
  StopReaches
PROPERTIES
  EveryMessageEnds
