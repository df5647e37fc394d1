SPECIFICATION Spec
CONSTANTS
  MaxTime = 10
  Costs = {0, 2}
  Windows <- MCWindows
  BucketSize = 2
  CleanupInterval = 3
PROPERTIES
  ImplementsSlidingWindow
