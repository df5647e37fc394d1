SPECIFICATION FairSpec
CONSTANTS
  Callers = {c1, c2}
  Loops = {l1, l2}
  Jobs = {j1}
  Sessions = {1, 2, 3, 4}
  Instances = {1, 2, 3, 4}
  ResetEvery = 1
  UsesAiProxy = FALSE
  None = None
VIEW UpToIds
PROPERTIES
  EveryCallAnswered
  PromiseReleased
