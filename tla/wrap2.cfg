CONSTANTS
  NumThreads = 2
  Calls = {"parallel_for"}
  MaxCalls = 2
  SizeT = 8
  MayFail = FALSE
SPECIFICATION Spec
INVARIANT WorkersOutliveWork
