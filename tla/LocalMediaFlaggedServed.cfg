\* A download waits while the PUT it waits for is flagged by its hash.
SPECIFICATION Spec
CONSTANTS
  MediaIDs = {m1}
  Users = {alice}
  Contents = {c1}
  Uploads = {u1, u2}
  Readers = {r1}
  UploadSlots = 2
  MaxPending = 0
  Size <- MCSize
  Quota = 9
  Faults = {}
  None = None
CHECK_DEADLOCK FALSE
INVARIANTS
  HashQuarantinedNotServed
