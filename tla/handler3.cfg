CONSTANTS
  NumThreads = 3
  Calls = {"parallel_for", "parallel_reduce", "start", "stop"}
  MaxCalls = 4
  SizeT = 32
  MayFail = TRUE
SPECIFICATION FairSpec
INVARIANTS TypeOK WorkersOutliveWork ResultIsFinal FindsUnlessOvertaken RestartsAnIdlePool
PROPERTIES ImplementsForkJoin EveryCallReturns
