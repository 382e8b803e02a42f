SPECIFICATION FairSpec
CONSTANTS
  main = main  w1 = w1  w2 = w2
  Threads <- MCThreads
  Main = main
  NoThread = NoThread
  NThreads = 3
  MaxDepth = 2
INVARIANTS TypeOK RecordIsTrue
PROPERTIES RaceBenign ImplementsMonitor ReentryReturns WaiterProgress
CHECK_DEADLOCK TRUE
