SPECIFICATION Spec
CONSTANTS
  Blocks = {b1}
  Readers = {r1}
  Kinds = {FALSE}
  Capacity = 5
  Staging = 14
  Intervals = 8
  PackLimit = 1
  CompactLimit = 2
  MaxMutations = 3
  MaxTickets = 3
  MaxCrashes = 1
INVARIANTS
  FrontierOrder
  ViewExact
  ReadsSeeSnapshot
CHECK_DEADLOCK FALSE
