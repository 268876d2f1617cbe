SPECIFICATION Spec
CONSTANTS
  Blocks = {b1}
  Readers = {}
  Kinds = {TRUE, FALSE}
  Capacity = 6
  Staging = 24
  Intervals = 8
  PackLimit = 2
  CompactLimit = 2
  MaxMutations = 2
  MaxTickets = 2
  MaxCrashes = 2
INVARIANTS
  RecoveryOpens
  CrashLosesNothing
  NeverStuck
PROPERTY
  ImplementsImage
CHECK_DEADLOCK FALSE
