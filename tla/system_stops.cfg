SPECIFICATION FairSystem
CONSTANTS
  Callers = {c1}
  Starts = {s1, s2}
  Null = Null
  MaxPolls = 1
  a = a
  b = b
  Names = {a, b}
  Lists <- TwoServices
  Reported <- ReadWhole
  States = {1}
  Faults = {"status"}
  MaxEvents = 2
INVARIANTS
  ExitTellsWorker
  QuietWhenStopped
PROPERTY StopsWhenTold
