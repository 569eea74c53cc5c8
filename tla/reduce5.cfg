CONSTANTS
  NThreads = 5
  MaxChunks = 1
  Machines = {TRUE, FALSE}
SPECIFICATION FairSpec
INVARIANTS TypeOK CombinesFinalValues ReducedInOrder
PROPERTY EveryThreadEnds
