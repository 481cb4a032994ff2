\* Two workers of one database and one row, accessed and stamped at two times.
SPECIFICATION MarksFairSpec
CONSTANTS
  Workers = {w1, w2}
  Media = {m1}
  MaxTime = 1
  UpdateLastAccess = TRUE
  MarksFaults = {"fails", "late", "crash", "drainTimeout"}
\* Both workers may have stopped.
CHECK_DEADLOCK FALSE
INVARIANTS
  AccessIsRecorded
  CloseFlushesAll
PROPERTIES
  AccessesReachRows
