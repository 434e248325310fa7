SPECIFICATION Spec
CONSTANTS
  Callers = {c1, c2}
  Starts = {s1, s2, s3}
  Null = Null
  MaxPolls = 2
SYMMETRY Symmetry
INVARIANTS
  TypeOK
  WaitsOnOwnEvent
  CleanupOwnsState
  SetEventOnOpenHandle
  StoppedMeansReleased
  StateOutlivesUse
  NothingLeaks
PROPERTY OneWorkerAtATime
