CONSTANTS
  NumThreads = 2
  Clients = {c1, c2}
  a = a
  b = b
  c = c
  d = d
  e = e
  Tasks = {a, b, c}
  Kind <- AllKinds
  MaxSize = 2
  None = None

SPECIFICATION BothSpec

INVARIANTS
  TypeOK
  LeavesStopped

PROPERTIES
  StopMeansStopped
  ImplementsTaskPool

CHECK_DEADLOCK FALSE
