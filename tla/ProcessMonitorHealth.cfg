SPECIFICATION Spec
CONSTANTS
  Checks = {k1}
  MaxRestarts = 2
  FailureThreshold = 2
CHECK_DEADLOCK FALSE
PROPERTIES
  HealthKillRestarts
