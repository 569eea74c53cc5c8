CONSTANTS
  Threads = {t1, t2}
  Iters = 1
  Machines = {TRUE, FALSE}
SPECIFICATION Spec
INVARIANT NoLostUpdate
