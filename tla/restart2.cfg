CONSTANTS
  NumThreads = 2
  Calls = {"parallel_for", "start", "stop"}
  MaxCalls = 3
  SizeT = 32
  MayFail = FALSE
SPECIFICATION Spec
INVARIANT FindsItsWorker
