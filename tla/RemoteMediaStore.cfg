\* Two downloads, in one process or in two, race with Synapse for one media ID,
\* with every failure but the lost reply of an insert.
SPECIFICATION Spec
CONSTANTS
  Media = {m1}
  Workers = {w1, w2}
  Requests = {r1, r2}
  Foreign = {s1}
  FetchSlots = 1
  ProxyFailures = FALSE
  Faults = {"db", "disk", "origin", "leave", "crash", "purge"}
  None = None
SYMMETRY RequestSymmetry
\* Every request may be answered, and the media stored and quarantined.
CHECK_DEADLOCK FALSE
INVARIANTS
  RowHasFile
  NoOrphanFile
  MissingFileWasPurged
