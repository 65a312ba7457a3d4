CONSTANTS
  Size = 2
  Jobs = {c1, c2, c3, c4}
  Stuck = {c1}
  FdLimit = 3
  NoJob = NoJob
  NoConn = NoConn
SPECIFICATION FairServer
INVARIANTS
  StreamsHaveOwners
  TakenInArrivalOrder
PROPERTIES
  EveryClientSettled
  ServerImplementsService
CHECK_DEADLOCK FALSE
