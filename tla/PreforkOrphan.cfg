CONSTANTS
  Conns = {c1}
  NumChildren = 2
  Stuck = {}
  NoConn = NoConn
SPECIFICATION FairSpec
PROPERTIES
  ShutdownIsComplete
