\* Two puts of two keys, a reader and two sweeps; the limit leaves room for one small file.
SPECIFICATION Spec
CONSTANTS
  Keys = {k1, k2}
  Puts = {p1, p2}
  Readers = {r1}
  Sizes = {1, 2}
  MaxBytes = 1
  MaxTime = 1
  MaxSweeps = 2
  None = None
SYMMETRY Symmetry
\* All puts, reads and sweeps may be over.
CHECK_DEADLOCK FALSE
INVARIANTS
  ServedWhole
  
  TempFollowsPut

  
