SPECIFICATION FairSpec
CONSTANTS
  p1 = p1
  p2 = p2
  Path <- MCPath
  Calls <- MCCalls
  MaxCalls = 3
  MaxDepth = 2
  RetryLimit = 2
CHECK_DEADLOCK FALSE
INVARIANTS
  ChainAnswered
  AbortBites
  OrphansAfterTheEnd
PROPERTIES
  ImplementsSchedule
  InferenceEnds
