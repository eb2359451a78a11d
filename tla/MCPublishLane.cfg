SPECIFICATION FairSpec
CONSTANTS
  None = None
  Bare = Bare
  Admins <- MCNoAdmins
  LaneJobs <- MCAllJobs
  Faults <- MCPinFaults
  MaxEdits = 1
  MaxSaves = 2
  MaxRestarts = 0
CHECK_DEADLOCK FALSE
INVARIANTS OneRootPinned SavedRootCoversState
PROPERTY DirtyIsDrained
