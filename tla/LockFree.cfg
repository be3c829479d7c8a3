CONSTANTS
  Threads = {t1, t2, t3}
  Nodes = {n1, n2, n3}
  Dummy = n0
  Values = {a, b, c}
  Null = Null
  MaxPops = 3
  MaxCount = 4
  MaxHazards = 2
  MaxExits = 2

SYMMETRY Symmetry
SPECIFICATION Spec

INVARIANTS
  TypeOK
  NoUseAfterDelete
  EveryNodeHasOwner
  CountsAddUp
  SlotsHandedOver

PROPERTIES
  ImplementsLifo
  ImplementsFifo

CHECK_DEADLOCK FALSE
