SPECIFICATION Spec
CONSTANTS
  p1 = p1
  p2 = p2
  t1 = t1
  t2 = t2
  t3 = t3
  None = None
  Procs = {p1, p2}
  Threads = {t1, t2, t3}
  ProcOf <- MCProcOf
  Devs = {d0}
  Map <- MCMap
  Limit <- MCLimit
  Sizes = {2, 3}
  Handles = {h1, h2}
  Word = 16
  MaxOther = 1
  Others = {p2}
  EntryFails = {t2}
  Slots <- MCSlots
  Mortal = {p2}
  Asks <- MCAsks
INVARIANTS
  
  MutexDiscipline
  DriverMemoryTracked
  UsageMatchesList
  
SYMMETRY Symmetry
CONSTRAINTS WhileIntact Apart
CHECK_DEADLOCK FALSE
