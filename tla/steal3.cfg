CONSTANTS
  NThreads = 3
  First = 3
  Last = 7
  Grain = 2
  IndexMax = 7
  Signed = FALSE
SPECIFICATION BoundedSpec
VIEW View
INVARIANTS MutualExclusion OnceUnlessOutdated BodiesMeet
