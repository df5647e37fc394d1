SPECIFICATION FairSpec
CONSTANTS
  Tabs = {t1}
  Sockets = {s1, s2}
  Clients = {c1, c2}
  Getters = {g1, g2}
  MaxChat = 1
  None = None
INVARIANTS
  SessionHasSocket
  WaitersPrompted
PROPERTIES
  EveryGetEnds
