SPECIFICATION FairSpec
CONSTANTS
  Procs = {p1, p2}
  Indexes = {2, 10}
  Listing <- MCListing
  Limit = 1
  MaxOps = 3
  MaxCrashes = 1
  Suites <- MCSuites
CHECK_DEADLOCK FALSE
INVARIANTS
  NoTornFiles
  ChunksKept
PROPERTIES
  OperationsEnd
