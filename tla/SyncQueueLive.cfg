CONSTANTS
  Threads = {t1, t2, t3}
  Tasks = {a, b, c}
  MaxSize = 1
  None = None

SPECIFICATION FairSpec

PROPERTIES
  StopReleases
  PutWaitsForRoomOnly

CHECK_DEADLOCK FALSE
