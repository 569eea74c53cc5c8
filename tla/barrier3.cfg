CONSTANTS
  Procs = {p1, p2, p3}
  SizeT = 16
  MaxWaits = 4
SPECIFICATION BoundedSpec
INVARIANTS TypeOK NobodyLeavesEarly FreeBetweenRounds OpensForAll
PROPERTIES ImplementsBarrier EveryoneLeaves
