\* Two requests and an upload-time job in one process with one slot, Synapse and its
\* purge; the media is local, or remote and fetched once.
SPECIFICATION FairSpec
CONSTANTS
  Workers = {w1}
  Requests = {r1, r2}
  Jobs = {j1}
  Kinds = {"remote", "local"}
  MaxFetches = 1
  Slots = 1
  WriteThrough = TRUE
  Faults = {"lostReply", "disk", "image", "leave", "crash", "purge"}
  None = None
\* Every request may be answered, and Synapse have nothing left to do.
CHECK_DEADLOCK FALSE
INVARIANTS
  RowHasFile
  GeneratesOnce
  MadeIsServed
PROPERTIES
  Answered
