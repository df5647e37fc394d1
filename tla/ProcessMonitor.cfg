SPECIFICATION FairSpec
CONSTANTS
  Checks = {k1, k2}
  MaxRestarts = 2
  FailureThreshold = 2
CHECK_DEADLOCK FALSE
INVARIANTS
  TypeOK
  OneRestart
  NothingOrphaned
  RunningIsLive
  StoppedIsDead
  HealthFlagIsHonest
  ShutdownKills
PROPERTIES
  ShutdownEnds
  RestartHappens
  HungProcessEnds
