CONSTANTS
  NumThreads = 2
  Clients = {c1}
  a = a
  b = b
  c = c
  d = d
  e = e
  Tasks = {a, b, c, d, e}
  Kind <- Adders
  MaxSize = 1
  None = None

SYMMETRY PlainSymmetry
SPECIFICATION BothSpec

INVARIANTS
  StalledOnlyByFullQueue

CHECK_DEADLOCK FALSE
