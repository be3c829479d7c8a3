CONSTANTS
  MaxSize = 8
  MaxParts = 4
  MaxTasks = 3
  Variables = {u1, u2}
  MaxFuncs = 3
  MaxJobs = 2
  MaxDone = 4
  Pushers = {p1, p2}
  Readers = {r1, r2}
  Size = 2
  Offsets = {1, 2, 3}
  Alone = p1
  Absent = {r2}
  MaxPushes = 5
  MaxShared = 3
  Callers = {t1, t2, t3}
  Creator = t1
  Objects = {1, 2, 3}
  Null = Null

SPECIFICATION Spec

INVARIANTS
  TypeOK
  NothingOutlivesCall
  ReturnsComplete
  ChainsSound
  RingSound

PROPERTIES
  OneObject
  CallsEnd

CHECK_DEADLOCK FALSE
