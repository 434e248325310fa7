SPECIFICATION Spec
CONSTANTS
  a = a
  b = b
  cut = cut
  Names = {a, b, cut}
  Lists <- Distinct
  Reported <- ReadWhole
  States = {1, 4}
  Faults = {"register"}
  MaxEvents = 3
INVARIANT OpenServiceIsWatched
