SPECIFICATION Spec
CONSTANTS
  Callers = {c1, c2}
  Loops = {l1, l2}
  Jobs = {j1, j2}
  Sessions = {1, 2, 3, 4, 5}
  Instances = {1, 2, 3, 4, 5}
  ResetEvery = 3
  UsesAiProxy = FALSE
  None = None
SYMMETRY Slots
VIEW UpToIds
INVARIANTS
  SessionOwnsInstance
