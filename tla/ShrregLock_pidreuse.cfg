\* No watchers; the pid of a killed process is given to a new one.
SPECIFICATION FairSpec
CONSTANTS
  p1 = p1
  p2 = p2
  NoPid = NoPid
  Procs = {p1, p2}
  WatcherProcs = {}
  ExitProcs = {p1, p2}
  MaxTrials = 1
  MaxRestarts = 1
PROPERTY WaiterEnds
CHECK_DEADLOCK FALSE
