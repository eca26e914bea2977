SPECIFICATION FairSpec
CONSTANTS
  Procs = {p1}
  Indexes = {2, 10}
  Listing <- MCListing
  Limit = 1
  MaxOps = 4
  MaxCrashes = 0
  Suites <- UploadSuites
CHECK_DEADLOCK FALSE
PROPERTIES
  MergeIsComplete
