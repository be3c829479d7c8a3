CONSTANTS
  NumThreads = 2
  Clients = {c1, c2}
  a = a
  b = b
  c = c
  c1 = c1
  c2 = c2
  Tasks = {a, b, c}
  Kind <- OneAdder
  MaxSize = 2
  None = None

SPECIFICATION LiveSpec

PROPERTIES
  StopCompletes
  TasksServed

CHECK_DEADLOCK FALSE
