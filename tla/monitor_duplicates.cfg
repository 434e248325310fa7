SPECIFICATION Spec
CONSTANTS
  a = a
  b = b
  cut = cut
  Names = {a, b, cut}
  Lists <- Duplicated
  Reported <- ReadWhole
  States = {1, 4}
  Faults = {}
  MaxEvents = 3
INVARIANT HandlesReleased
