SPECIFICATION Spec
CONSTANTS
  a = a
  b = b
  cut = cut
  Names = {a, b, cut}
  Lists <- Distinct
  Reported <- ReadWhole
  States = {1, 4}
  Faults = {}
  MaxEvents = 4
INVARIANTS
  OpenServiceIsWatched
  DeletedIsReleased
  HandlesReleased
