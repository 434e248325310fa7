SPECIFICATION FairActionSpec
CONSTANTS
  p1 = p1
  p2 = p2
  p3 = p3
  empty = empty
  short = short
  twin = twin
  edge = edge
  over = over
  Pids = {p1, p2, p3}
  Paths = {empty, short, twin, edge, over}
  Name <- Names
  Length <- Lengths
  Prefix <- Cut
  Accessible = {short, edge, over}
  None = None
  MaxPath = 3
  Mutes <- SomeMutes
  Current = {0, 1}
  Stopped = 1
INVARIANTS
  HandlesClosed
  MatchIsReal
  NothingMissed
  ActsOnlyUnmuted
  SilentIfMuted
PROPERTIES
  ProbeEnds
  ActionEnds
