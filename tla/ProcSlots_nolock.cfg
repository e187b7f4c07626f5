\* Processes with a memory limit remove slots without the lock.
SPECIFICATION Spec
CONSTANTS
  p1 = p1
  p2 = p2
  p3 = p3
  NoPid = NoPid
  Procs = {p1, p2, p3}
  MaxSlots = 3
  MaxKicks = 10
  ExitProcs = {}
  LimitedProcs = {p1, p2, p3}
  MemProcs = {}
  MaxHeld = 1
  Word = 4
  MaxRestarts = 0
INVARIANT RegisteredOnce
CHECK_DEADLOCK FALSE
