\* Two requests refresh the answer of a host that changes it, or goes down, at will.
SPECIFICATION FairSpec
CONSTANTS
  Requests = {r1, r2}
  Delegates = {d1}
  Periods = {5}
  InvalidPeriod = 2
  DownPeriod = 1
  Remember = 1
  Attempts = 2
  FetchTimeout = 2
  Faults = {"leave"}
  None = None
PROPERTIES
  
  OutageNotSeen
  RequestAnswered
