SPECIFICATION FairSpec
CONSTANTS
  t1 = t1  t2 = t2  m = m  n = n
  Threads = {t1, t2}
  Names = {m, n}
  Values = {1, 2}
  NoValue = NoValue
  Owner <- OwnerOf
  Size <- SizeOf
  TableSize = 2
  End = 5
  MaxJobs = 2
  MaxOpens = 2
  NoJob = NoJob
  Nowhere = Nowhere
  Nobody = Nobody
  SafeDefine = TRUE
INVARIANTS TypeOK Disjoint FlushedIsSaved
PROPERTIES ImplementsStore JobsEnd
CHECK_DEADLOCK FALSE
