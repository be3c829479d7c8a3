CONSTANTS
  MaxKey = 4
  MaxNotifies = 3
  Type <- TwoTopicsAndAnother
  MaxReceivers = 4
  MaxSends = 2
  MaxAspects = 3
  Variables = {t, x, y}
  Cmd = Cmd
  Guards = {g1, g2, g3}
  Functions = {f1, f2}
  Empty = Empty
  Null = Null

SPECIFICATION Spec

INVARIANTS
  TypeOK
  CallsOnce

PROPERTIES
  CallsEverybody
  StraysOnlyInside
  LoopsEnd

CHECK_DEADLOCK FALSE
