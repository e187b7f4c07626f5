\* Every process has a watcher and exits, every pid may be reused once.
SPECIFICATION Spec
CONSTANTS
  p1 = p1
  p2 = p2
  p3 = p3
  NoPid = NoPid
  Procs = {p1, p2, p3}
  WatcherProcs = {p1, p2, p3}
  ExitProcs = {p1, p2, p3}
  MaxTrials = 1
  MaxRestarts = 1
SYMMETRY Symmetry
INVARIANTS
  ExclusionUnlessStolen
  OwnerIsHolder
CHECK_DEADLOCK FALSE
