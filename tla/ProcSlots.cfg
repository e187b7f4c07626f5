\* Two processes exit, one of them allocates and meets its memory limit; a pid is reused.
SPECIFICATION Spec
CONSTANTS
  p1 = p1
  p2 = p2
  p3 = p3
  NoPid = NoPid
  Procs = {p1, p2, p3}
  MaxSlots = 3
  MaxKicks = 1
  ExitProcs = {p1, p2}
  LimitedProcs = {p2}
  MemProcs = {p2}
  MaxHeld = 1
  Word = 4
  MaxRestarts = 1
CONSTRAINT WhileIntact
INVARIANTS
  RegisteredOnceUnlessRaced
  OwnSlotUnlessFoul
  OddHasWriter
PROPERTY ImplementsRegistry
CHECK_DEADLOCK FALSE
