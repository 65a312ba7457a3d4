CONSTANTS
  Size <- DefaultSize
  Jobs = {j1, j2, j3, j4}
  Stuck = {j1}
  NoJob = NoJob
SPECIFICATION FairSpec
INVARIANTS
  LockCoversReceiveOnly
  EachJobInOnePlace
  SendNeverFails
  DropIsGraceful
  PoolInv
PROPERTIES
  EveryJobEnds
  ThreadsEndWithPool
  ImplementsService
