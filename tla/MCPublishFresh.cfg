SPECIFICATION Spec
CONSTANTS
  None = None
  Bare = Bare
  Admins <- MCNoAdmins
  LaneJobs <- MCSaveOnly
  Faults <- MCNoFaults
  MaxEdits = 0
  MaxSaves = 2
  MaxRestarts = 1
CHECK_DEADLOCK FALSE
INVARIANTS FreshOnlyOnce
