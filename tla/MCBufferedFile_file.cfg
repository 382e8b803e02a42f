CONSTANTS
  BufSz = 2
  Starts <- MCStarts
  Bytes = {1, 2}
  NewLine = 2
  MaxCount = 3
  MaxSize = 4
  Seeks <- MCSeeks
  Careful = TRUE
SPECIFICATION Spec
INVARIANTS TypeOK 
 
