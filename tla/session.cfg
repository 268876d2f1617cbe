SPECIFICATION FairSpec
CONSTANTS
  Images = {1, 2}
  Wide = {1}
  MaxStarts = 2
  MaxWrites = 1
  MaxFaults = 1
  Faults = {"crash", "leave", "error", "reboot", "change"}
INVARIANTS RepairTogether AppliedOnce
PROPERTIES Resolves

CHECK_DEADLOCK FALSE
