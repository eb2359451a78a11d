SPECIFICATION Spec
CONSTANTS
  None = None
  Bare = Bare
  Admins <- MCNoAdmins
  LaneJobs <- MCSaveOnly
  Faults <- MCNoFaults
  MaxEdits = 1
  MaxSaves = 2
  MaxRestarts = 0
CHECK_DEADLOCK FALSE
INVARIANT DirtyTellsTheTruth
