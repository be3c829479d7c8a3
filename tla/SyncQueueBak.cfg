CONSTANTS
  Threads = {t1, t2, t3}
  Tasks = {a, b, c, d}
  MaxSize = 2
  None = None

SPECIFICATION FairSpecBak

PROPERTIES
  PutWaitsForRoomOnly

CHECK_DEADLOCK FALSE
