\* Every request ends: one slot, a crash at any moment, failing calls,
\* lost replies of applied writes included.
SPECIFICATION FairSpec
CONSTANTS
  MediaIDs = {m1, m2}
  Users = {alice}
  Contents = {c1}
  Uploads = {u1, u2}
  Readers = {r1}
  UploadSlots = 1
  MaxPending = 1
  Size <- MCSize
  Quota = 1
  Faults = {"crash", "disk", "db", "lostReply"}
  None = None
CHECK_DEADLOCK FALSE
PROPERTIES
  UploadAnswered
  ReadAnswered
