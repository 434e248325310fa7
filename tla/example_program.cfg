SPECIFICATION FairExampleSpec
CONSTANTS
  Main = main
  Callers = {main}
  Starts = {s1, s2}
  Null = Null
  MaxPolls = 2
  MaxSleeps = 5
INVARIANTS
  SuccessMeansStopped
  LeavesNobodyUntold
PROPERTIES
  UsesNotifier
  ProgramEnds
