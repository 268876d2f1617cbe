SPECIFICATION FairSpec
CONSTANTS
  NImages = 2
  QueueSize = 2
  Quantum = 2
  PendingLimit = 2
  HostCredits <- Credits
  ImageCredits <- Credits
  WalRoom = 2
  Programs <- Mixed
  MaxPauses = 1
INVARIANTS
  TurnsOwned
  AdmittedInOrder
  WakesKept
  OvertakeBounded
PROPERTY RequestsAdmitted
CHECK_DEADLOCK FALSE
