CONSTANTS
  Threads = {t1, t2, t3, t4}
  Tasks = {a, b, c, d}
  MaxSize = 2
  None = None

SYMMETRY Symmetry
SPECIFICATION Spec

INVARIANTS
  TypeOK
  Capacity
  FifoExactlyOnce
  ListsDisjoint
  ProducersBlockOnlyWhenFull
  BacklogHasTaker
  StopReachesWaiters

CHECK_DEADLOCK FALSE
