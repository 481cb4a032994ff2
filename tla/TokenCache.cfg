\* Two requests with two tokens share a cache of one entry, while Synapse revokes and
\* accepts tokens at will, answers or not, and clients leave.
SPECIFICATION FairSpec
CONSTANTS
  Keys = {k1, k2}
  Callers = {c1, c2}
  PositiveTTL = 1
  NegativeTTL = 0
  CallTimeout = 1
  MaxEntries = 1
  Faults = {"unreachable", "leave"}
  None = None
INVARIANTS
  MapMatchesList
  VerdictNotOverdue
  NoRedundantCall
PROPERTIES
  CallerAnswered
