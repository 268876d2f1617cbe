SPECIFICATION Spec
CONSTANTS
  Blocks = {b1}
  Readers = {r1}
  Kinds = {FALSE}
  Capacity = 5
  Staging = 15
  Intervals = 8
  PackLimit = 2
  CompactLimit = 2
  MaxMutations = 2
  MaxTickets = 3
  MaxCrashes = 1
INVARIANT
  RecoveryOpens
CHECK_DEADLOCK FALSE
