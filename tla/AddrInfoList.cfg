CONSTANTS
  Elements <- Found
  MaxLen = 3
SPECIFICATION FairSpec
INVARIANTS
  MemorySafe
  DeliversInOrder
  PanicsAreExplained
PROPERTIES
  IterationEnds
