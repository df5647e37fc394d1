SPECIFICATION FairSpec
CONSTANTS
  Conns = {c1, c2}
  Sockets = {s1, s2, s3}
  MaxRetries = 2
  MaxQueue = 2
  MaxSends = 3
  None = None
INVARIANTS
  TypeOK
  OneAttempt
  NeverStranded
  CredentialsFirst
  InOrder
  OpenIsHonest
  ShownIsTrue
PROPERTIES
  QueueSettles
