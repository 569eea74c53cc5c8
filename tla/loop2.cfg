CONSTANTS
  NThreads = 2
  First = 0
  Last = 6
  Grain = 2
  IndexMax = 15
  Signed = TRUE
SPECIFICATION FairSpec
INVARIANTS TypeOK NeverOutdated
PROPERTIES ImplementsLoop EndsUnlessStealsForever
