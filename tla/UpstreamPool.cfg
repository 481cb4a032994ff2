\* Two requests race over a pool of three workers that stop and start at will.
SPECIFICATION Spec
CONSTANTS
  N = 3
  Requests = {r1, r2}
SYMMETRY RequestSymmetry
INVARIANTS
  InflightAccounted
  
  PickIsLeastBusy
