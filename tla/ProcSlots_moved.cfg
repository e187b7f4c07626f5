\* Four processes that are killed; removals happen under the lock only.
SPECIFICATION Spec
CONSTANTS
  p1 = p1
  p2 = p2
  p3 = p3
  p4 = p4
  NoPid = NoPid
  Procs = {p1, p2, p3, p4}
  MaxSlots = 4
  MaxKicks = 10
  ExitProcs = {}
  LimitedProcs = {}
  MemProcs = {p3}
  MaxHeld = 1
  Word = 4
  MaxRestarts = 0
INVARIANT OwnSlot
CHECK_DEADLOCK FALSE
