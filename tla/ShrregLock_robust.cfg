\* Two processes have a watcher and run until killed, the third one exits.
SPECIFICATION FairSpec
CONSTANTS
  p1 = p1
  p2 = p2
  p3 = p3
  NoPid = NoPid
  Procs = {p1, p2, p3}
  WatcherProcs = {p1, p2}
  ExitProcs = {p3}
  MaxTrials = 1
  MaxRestarts = 0
INVARIANTS
  MutualExclusion
PROPERTIES
  ImplementsMutex
  DeadOwnerRecovered
  WaiterEnds
CHECK_DEADLOCK FALSE
