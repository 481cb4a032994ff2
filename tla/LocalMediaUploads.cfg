\* Three uploads of two users race for one media ID that a download waits for, with
\* every failure but lost replies.
SPECIFICATION Spec
CONSTANTS
  MediaIDs = {m1}
  Users = {alice, bob}
  Contents = {c1, c2}
  Uploads = {u1, u2, u3}
  Readers = {r1}
  UploadSlots = 1
  MaxPending = 1
  Size <- MCSize
  Quota = 1
  Faults = {"crash", "disk", "db"}
  None = None
SYMMETRY UploadSymmetry
\* All requests may be over, the process down and everything quarantined.
CHECK_DEADLOCK FALSE
INVARIANTS
  NoOrphanFile
  DanglingRowHasOwner
  TempFollowsRequest
  FileMatchesRow
  AckedIsServable
  QuarantinedIsRefused
  ServedMatchesRow
PROPERTIES
  QuarantineSticks
  ImplementsRegister
