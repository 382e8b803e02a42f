CONSTANTS
  build = build
  test = test
  Jobs <- TwoJobs
  Command <- AbsoluteNames
  Dirs <- MCDirs
  Lookup <- MCLookup
  Missing = "missing"
  Start <- MCStart
  Home = "/"
  NA = 2
  Nobody = Nobody
  Drivers = {"server", "SC_exec"}
SPECIFICATION Spec
CHECK_DEADLOCK FALSE
INVARIANTS TypeOK ScriptFollowed HonestReport OwnDirectory
PROPERTY ImplementsSite
