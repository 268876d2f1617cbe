SPECIFICATION FairSpec
CONSTANTS
  NImages = 1
  QueueSize = 4
  Quantum = 2
  PendingLimit = 1
  HostCredits <- Credits
  ImageCredits <- Credits
  WalRoom = 4
  Programs <- Overlap
  MaxPauses = 0
PROPERTY RequestsAdmitted
CHECK_DEADLOCK FALSE
