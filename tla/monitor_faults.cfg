SPECIFICATION FairSpec
CONSTANTS
  a = a
  b = b
  cut = cut
  Names = {a, b, cut}
  Lists <- Distinct
  Reported <- ReadCut
  States = {1, 4}
  Faults = {"throw", "status", "register"}
  MaxEvents = 4
INVARIANTS
  TypeOK
  OneRequest
  HandlesAreOpen
  NoDanglingRegistration
  HandsOverBeforeReturn
PROPERTIES
  RelaysInOrder
  RelaysEveryChange
  ExitEndsRun
