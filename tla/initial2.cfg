CONSTANTS
  NThreads = 2
  MaxChunks = 1
  Machines = {TRUE}
SPECIFICATION Spec
INVARIANT InitialValueOnce
