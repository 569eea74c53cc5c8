CONSTANTS
  Threads = {t1, t2, t3}
  Iters = 2
  Machines = {TRUE, FALSE}
SPECIFICATION FairSpec
INVARIANTS TypeOK MutualExclusion NoLostUpdateIfOrdered
PROPERTY EveryCallReturns
