CONSTANTS
  Script <- TwoGroups
  Barrier = "barrier"
  Hosts = 3
  Sizes = {1, 2}
  NA = 2
  Attempts = 3
  Cpus <- TwoFirst
  Recruit = 1
  MaxFaults = 2
SPECIFICATION Spec
CHECK_DEADLOCK FALSE
INVARIANTS TypeOK Accounting OneTask BarrierHeld StatusTrue
PROPERTY Returns
