CONSTANTS
  Script <- TwoGroups
  Barrier = "barrier"
  Hosts = 2
  Sizes = {2}
  NA = 1
  Attempts = 3
  Cpus <- TwoFirst
  Recruit = 0
  MaxFaults = 1
SPECIFICATION Spec
CHECK_DEADLOCK FALSE
INVARIANT ZeroMeansSuccess
