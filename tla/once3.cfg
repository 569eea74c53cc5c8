CONSTANTS
  NThreads = 3
  First = 0
  Last = 3
  Grain = 1
  IndexMax = 7
  Signed = TRUE
SPECIFICATION Spec
VIEW View
INVARIANT RunExactlyOnce
