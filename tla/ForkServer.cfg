CONSTANTS
  Conns = {c1, c2, c3, c4}
  MaxChildren = 2
  Stuck = {c1}
  NoConn = NoConn
SPECIFICATION FairSpec
INVARIANTS
  ForkInv
  CounterExact
  BoundedChildren
  NoFutileWait
  DescriptorsHaveOwners
PROPERTIES
  EveryConnectionSettled
  ImplementsService
CHECK_DEADLOCK FALSE
