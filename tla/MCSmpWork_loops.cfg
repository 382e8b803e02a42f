SPECIFICATION FairSpec
CONSTANTS
  MaxThreads = 3
  Iterations <- Four
  Calls <- Loops
  MaxCalls = 2
  NoCall = NoCall
  NULL = NULL
  Free = Free
INVARIANTS TypeOK ChunksSound
PROPERTIES ImplementsLoop CallReturns
