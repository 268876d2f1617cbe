SPECIFICATION FairSpec
CONSTANTS
  Capacity = 6
  Intervals = 4
  PackLimit = 2
  Slots = 4
  Kinds = {"write", "read", "flush"}
  MaxRequests = 2
  MaxBarriers = 2
  MaxHolds = 1
  Faults = {"io", "gate", "timeout", "barrier"}
INVARIANTS
  WindowAccounted
  AnswersHonest
  NeverStops
  KernelOwned
PROPERTIES
  AttachmentFresh
  EverythingReturns
CHECK_DEADLOCK FALSE
