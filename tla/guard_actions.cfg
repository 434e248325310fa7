SPECIFICATION Spec
CONSTANTS
  e = e
  f = f
  s = s
  g1 = g1
  g2 = g2
  g3 = g3
  Objects = {g1, g2, g3}
  Actions = {e, f, s}
  Kind <- OneOfEach
  NoAction = NoAction
  MaxDepth = 3
  AcrossUnwinding = FALSE
INVARIANTS
  CountTellsUnwinding
  RunsAsNamed
  OneOwner
PROPERTY KeepsPromise
