CONSTANTS
  Conns = {c1, c2, c3}
  NumChildren = 2
  Stuck = {c1}
  NoConn = NoConn
SPECIFICATION FairSpec
INVARIANTS
  EachStreamOneChild
PROPERTIES
  OneChildIsEnough
  ArmedChildrenFollow
CHECK_DEADLOCK FALSE
