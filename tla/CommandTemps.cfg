CONSTANTS
  Variables = {t}
  Cmd = Cmd

SPECIFICATION Spec

INVARIANTS
  ExecutesWrapped

CHECK_DEADLOCK FALSE
