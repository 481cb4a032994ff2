\* Two uploads of a user and every configuration of at most two limits.
SPECIFICATION Spec
CONSTANTS
  Uploads = {u1, u2}
  Lengths = {1, 2}
  MaxTime = 3
  Configurations <- MCConfigurations
SYMMETRY Symmetry
\* All uploads may be over.
CHECK_DEADLOCK FALSE
INVARIANTS
  VerdictIsReference
  ConcurrentVerdict
  QuotaHeldWhenAlone
