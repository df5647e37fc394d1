SPECIFICATION Spec
CONSTANTS
  Callers = {c1, c2}
  Loops = {l1, l2}
  Jobs = {j1, j2}
  Sessions = {1, 2, 3, 4, 5}
  Instances = {1, 2, 3, 4, 5}
  ResetEvery = 2
  UsesAiProxy = TRUE
  None = None
SYMMETRY Slots
VIEW UpToIds
INVARIANTS
  TypeOK
  ClientTracksSession
  SingleOwner
  NoOneWaitsOnTheDead
  InstanceOfSession
  SteadyState
PROPERTIES
  MeetingsExplained
  ImplementsSingleFlight
