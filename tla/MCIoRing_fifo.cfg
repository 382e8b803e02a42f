SPECIFICATION Spec
CONSTANTS
  a = a  b = b  sep = sep  zero = zero
  Bytes = {a, b, sep, zero}
  Zero = zero
  Chunks <- Messages
  PopSizes = {2, 8}
  Delimiters = {sep}
  Nb = 2
  MaxNb = 8
  MaxDoublings = 2
  ExactFill = FALSE
INVARIANTS TypeOK CompleteIsReady
PROPERTIES ImplementsFifo
