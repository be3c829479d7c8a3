CONSTANTS
  Variables = {x, y, z}
  Keys = {k1, k2}
  Types = {int, str}
  Values = {a, b}
  Addresses = {p1, p2, p3, p4}
  Objects = {o1, o2, o3}
  Nodes = {n1, n2, n3, n4, n5}
  Header = Header
  Tailer = Tailer
  Null = Null

SYMMETRY Symmetry
SPECIFICATION Spec

INVARIANTS
  TypeOK
  TypeAnswers

PROPERTIES
  OwnedOnce
  TagsTellTruth
  LinksAgree

CHECK_DEADLOCK FALSE
