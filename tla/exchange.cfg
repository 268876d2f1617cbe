SPECIFICATION FairSpec
CONSTANTS
  Images = {1, 2}
  MaxMutations = 1
  MaxRotations = 1
  MaxAdmin = 1
  Faults = {"image", "timeout", "refusal"}
INVARIANTS ExchangeSound OperationAlone
PROPERTIES SnapshotCut OwnerReturns
CHECK_DEADLOCK FALSE
