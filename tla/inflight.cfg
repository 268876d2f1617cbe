SPECIFICATION FairSpec
CONSTANTS
  Queues = {0, 1}
  QueueSize = 1
  Wrap = 3
  Kinds = {"write", "read"}
  Outcomes = {TRUE, FALSE}
  MaxPosts = 3
  MaxCrashes = 2
INVARIANTS CrashAccepted OwnedOnce OrdinalsOwned
PROPERTY Answered
CHECK_DEADLOCK FALSE
