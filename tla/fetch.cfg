SPECIFICATION FairSpec
CONSTANTS
  Images = {1, 2}
  Reads = {11, 21}
  Hashes = {"a", "b"}
  Blocks = 1
  MaxLength = 2
  MaxJobs = 1
  Faults = {"corrupt", "image", "deadline"}
INVARIANTS BytesVerified FetchedOnce FailureContained
CHECK_DEADLOCK FALSE
PROPERTY ReadsReturn
