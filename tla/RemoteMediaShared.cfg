\* Two downloads of two media, in one process or in two, with one slot each, while
\* Synapse stores one of the media too: every failure but a purge.
SPECIFICATION FairSpec
CONSTANTS
  Media = {m1, m2}
  Workers = {w1, w2}
  Requests = {r1, r2}
  Foreign = {s1}
  FetchSlots = 1
  ProxyFailures = TRUE
  Faults = {"db", "disk", "origin", "leave", "crash"}
  None = None
CHECK_DEADLOCK FALSE
PROPERTIES
  RequestAnswered
  ImplementsRegister
