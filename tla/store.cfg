SPECIFICATION FairSpec
CONSTANTS
  Hashes = {h1, h2}
  Roots = {o1, o2}
  Readers = {r1}
  Capacity = 4
  MaxChunks = 2
  MaxTickets = 3
  MaxOutputs = 2
  MaxCrashes = 2
INVARIANTS
  RootsKept
  ReadsStable
  NoFalseAlarm
PROPERTY StoreServes
CHECK_DEADLOCK FALSE
