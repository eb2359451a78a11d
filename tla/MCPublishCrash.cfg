SPECIFICATION Spec
CONSTANTS
  None = None
  Bare = Bare
  Admins <- MCOneAdmin
  LaneJobs <- MCSaveOnly
  Faults <- MCAllFaults
  MaxEdits = 1
  MaxSaves = 2
  MaxRestarts = 2
CHECK_DEADLOCK FALSE
INVARIANTS PublishedWasPinned MemoryCoversPublished
