SPECIFICATION FairSpec
CONSTANTS
  Callers = {c1, c2}
  Starts = {s1, s2}
  Null = Null
  MaxPolls = 1
PROPERTIES
  ExitReturns
  SignaledWorkerStops
  NoOrphan
